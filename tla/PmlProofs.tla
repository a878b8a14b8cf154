----------------------------- MODULE PmlProofs ------------------------------
(***************************************************************************)
(* What holds of pml for any threads, arenas, allocators and sizes: who    *)
(* holds which block, that it implements BlockStore, that its blocks are   *)
(* as large as they were asked for, and that the account of a debug hook   *)
(* is right.                                                               *)
(***************************************************************************)
EXTENDS PmlProps, TLAPS, FiniteSetTheorems

(* The addresses of the blocks allocated. *)
Live == {x \in Addr : mem[x] # NULL}

-----------------------------------------------------------------------------
(* Memory. *)

LEMMA FilledFacts ==
    ASSUME NEW n \in Nat, NEW byte \in Byte
    PROVE  Filled(n, byte) \in Seq(Byte) /\ Len(Filled(n, byte)) = n
  BY DEF Filled

LEMMA CopiedFacts ==
    ASSUME NEW n \in Nat, NEW data \in Seq(Byte)
    PROVE  Copied(n, data) \in Seq(Byte) /\ Len(Copied(n, data)) = n
<1>1. \A k \in 1..n : (IF k <= Len(data) THEN data[k] ELSE "any") \in Byte
  BY DEF Byte
<1> QED
  BY <1>1 DEF Copied

(* A block put at an unused address is there, and no other is touched. *)
LEMMA WithFacts ==
    ASSUME NEW m \in [Addr -> Maybe(Block)], NEW x \in Maybe(Addr),
           NEW arena \in Arenas, NEW data \in Seq(Byte)
    PROVE  /\ With(m, x, arena, data) \in [Addr -> Maybe(Block)]
           /\ {y \in Addr : With(m, x, arena, data)[y] # NULL} =
                {y \in Addr : m[y] # NULL} \cup ({x} \ {NULL})
           /\ x # NULL => With(m, x, arena, data)[x].arena = arena
           /\ \A y \in Addr \ {x} : With(m, x, arena, data)[y] = m[y]
<1>1. [arena |-> arena, data |-> data] \in Block
  BY DEF Block
<1>2. [arena |-> arena, data |-> data] # NULL
  BY <1>1, PmlAssumption
<1>3. CASE x = NULL
  BY <1>3, PmlAssumption DEF With
<1>4. CASE x # NULL
  BY <1>1, <1>2, <1>4, PmlAssumption DEF With, Maybe
<1> QED
  BY <1>3, <1>4

LEMMA WithoutFacts ==
    ASSUME NEW m \in [Addr -> Maybe(Block)], NEW x \in Maybe(Addr)
    PROVE  /\ Without(m, x) \in [Addr -> Maybe(Block)]
           /\ {y \in Addr : Without(m, x)[y] # NULL} = {y \in Addr : m[y] # NULL} \ {x}
           /\ \A y \in Addr \ {x} : Without(m, x)[y] = m[y]
<1>1. CASE x = NULL
  BY <1>1, PmlAssumption DEF Without
<1>2. CASE x # NULL
  BY <1>2, PmlAssumption DEF Without, Maybe
<1> QED
  BY <1>1, <1>2

(* The hooks a call goes through are those of some arena. *)
LEMMA TableFacts ==
    ASSUME TypeOK, NEW alloc \in Maybe(DOMAIN Allocators)
    PROVE  Table(alloc) \in Hooks
  BY PmlAssumption DEF Table, TypeOK, Maybe

-----------------------------------------------------------------------------
(* What the threads hold. *)

(* The steps of a thread leave the others' calls alone. *)
Others(t) ==
    \A u \in Threads \ {t} :
        pc'[u] = pc[u] /\ op'[u] = op[u] /\ out'[u] = out[u] /\ ptr'[u] = ptr[u] /\ via'[u] = via[u]

LEMMA HoldsOfOthers ==
    ASSUME NEW t \in Threads, Others(t)
    PROVE  \A u \in Threads \ {t} : Holds(u)' = Holds(u)
  BY DEF Others, Holds, Current

LEMMA HoldsAddr == ASSUME TypeOK, NEW t \in Threads PROVE Holds(t) \subseteq Addr
  BY DEF TypeOK, Holds, Current, Maybe

(* A thread that gives up some of its blocks and takes unused addresses    *)
(* for new ones keeps what is held and what is allocated together.         *)
LEMMA HoldsStep ==
    ASSUME BlocksHeld, fault = "none", NEW t \in Threads, Others(t),
           NEW gone, NEW new,
           gone \subseteq Holds(t), new \cap (Live \ gone) = {},
           Live' = (Live \ gone) \cup new,
           Holds(t)' = (Holds(t) \ gone) \cup new
    PROVE  BlocksHeld'
<1> DEFINE H(u) == Holds(u)
           K(u) == Holds(u)'
<1>1. \A u \in Threads \ {t} : K(u) = H(u)
  BY HoldsOfOthers
<1>2. Live = UNION {H(u) : u \in Threads} /\ \A u, v \in Threads : u # v => H(u) \cap H(v) = {}
  BY DEF BlocksHeld, Live
<1>3. K(t) = (H(t) \ gone) \cup new
  OBVIOUS
<1>4. gone \subseteq H(t)
  OBVIOUS
<1> HIDE DEF H, K
<1>5. Live' = UNION {K(u) : u \in Threads}
  <2>1. ASSUME NEW x \in Live' PROVE \E u \in Threads : x \in K(u)
    BY <2>1, <1>1, <1>2, <1>3
  <2>2. ASSUME NEW u \in Threads, NEW x \in K(u) PROVE x \in Live'
    BY <2>2, <1>1, <1>2, <1>3, <1>4
  <2> QED
    BY <2>1, <2>2
<1>6. \A u, v \in Threads : u # v => K(u) \cap K(v) = {}
  <2> SUFFICES ASSUME NEW u \in Threads, NEW v \in Threads, u # v, NEW x \in K(u), x \in K(v)
               PROVE  FALSE
    OBVIOUS
  <2>1. ASSUME NEW w \in Threads, w # t, x \in H(w), x \in K(t) PROVE FALSE
    <3>1. x \in Live \ gone /\ x \notin H(t)
      BY <2>1, <1>2, <1>4
    <3> QED
      BY <3>1, <2>1, <1>3
  <2> QED
    BY <2>1, <1>1, <1>2
<1> QED
  BY <1>5, <1>6 DEF BlocksHeld, Live, H, K

(* No other thread holds what a thread holds, or an unused address. *)
LEMMA HeldApart ==
    ASSUME BlocksHeld, fault = "none", NEW t \in Threads
    PROVE  /\ \A u \in Threads : Holds(u) \subseteq Live
           /\ \A u \in Threads \ {t} : Holds(u) \cap Holds(t) = {}
  BY DEF BlocksHeld, Live

(* If a thread's own blocks go back to where they are from, and nobody     *)
(* else's block moves to another arena, all do.                            *)
LEMMA RoutedStep ==
    ASSUME Routed, fault = "none", NEW t \in Threads, Others(t), hooks' = hooks,
           \A u \in Threads \ {t} : \A x \in Holds(u) : mem'[x].arena = mem[x].arena,
           \A x \in Holds(t)' : /\ mem'[x].arena = Table(via'[t]).malloc
                               /\ Table(via'[t]).free = Table(via'[t]).malloc
    PROVE  Routed'
<1> SUFFICES ASSUME NEW u \in Threads, NEW x \in Holds(u)'
             PROVE  /\ mem'[x].arena = Table(via[u])'.malloc
                    /\ Table(via[u])'.free = Table(via[u])'.malloc
  BY DEF Routed
<1>1. Table(via[u])' = Table(via'[u])
  BY DEF Table
<1>2. CASE u = t
  BY <1>1, <1>2
<1>3. CASE u # t
  <2>1. Holds(u)' = Holds(u) /\ via'[u] = via[u]
    BY <1>3, HoldsOfOthers DEF Others
  <2> QED
    BY <1>1, <1>3, <2>1 DEF Routed
<1> QED
  BY <1>2, <1>3

(* What the steps of a call assign, apart from memory. *)
CallsTyped ==
    /\ pc \in [Threads -> {"idle", "release", "own_report", "report"}]
    /\ op \in [Threads -> Maybe(Op)]
    /\ \A t \in Threads : op[t] = NULL <=> pc[t] = "idle"
    /\ out \in [Threads -> Maybe(Addr)] /\ ptr \in [Threads -> Maybe(Addr)]
    /\ via \in [Threads -> Maybe(DOMAIN Allocators)]

(* A call that begins changes one thread, to the call it makes. *)
LEMMA CallsFacts ==
    ASSUME TypeOK, NEW t \in Threads, NEW type \in {"MALLOC", "FREE", "CALLOC", "REALLOC"},
           NEW size \in Nat, NEW alloc \in Maybe(DOMAIN Allocators), NEW a \in Maybe(Addr),
           NEW next \in {"release", "own_report", "report"},
           Calls(t, type, size, alloc, a, next),
           ptr' \in [Threads -> Maybe(Addr)], \A u \in Threads \ {t} : ptr'[u] = ptr[u]
    PROVE  /\ CallsTyped' /\ Others(t)
           /\ pc'[t] = next /\ out'[t] = a /\ via'[t] = alloc /\ op'[t].given = ptr[t]
           /\ op'[t].size = size
           /\ hooks' = hooks /\ debug' = debug /\ balance' = balance
<1> DEFINE o == [type |-> type, size |-> size, given |-> ptr[t]]
<1>1. o \in Op /\ o # NULL
  <2>1. o \in Op
    BY DEF TypeOK, Op
  <2> QED
    BY <2>1, PmlAssumption
<1>2. op' = [op EXCEPT ![t] = o] /\ o.given = ptr[t] /\ o.size = size
  BY DEF Calls
<1> HIDE DEF o
<1>3. op' \in [Threads -> Maybe(Op)] /\ op'[t] = o /\ \A u \in Threads \ {t} : op'[u] = op[u]
  BY <1>1, <1>2 DEF TypeOK, Maybe
<1>4. /\ pc' \in [Threads -> {"idle", "release", "own_report", "report"}]
      /\ pc'[t] = next /\ \A u \in Threads \ {t} : pc'[u] = pc[u]
  BY DEF Calls, TypeOK
<1>5. /\ out' \in [Threads -> Maybe(Addr)]
      /\ out'[t] = a /\ \A u \in Threads \ {t} : out'[u] = out[u]
  BY DEF Calls, TypeOK
<1>6. /\ via' \in [Threads -> Maybe(DOMAIN Allocators)]
      /\ via'[t] = alloc /\ \A u \in Threads \ {t} : via'[u] = via[u]
  BY DEF Calls, TypeOK
<1>7. ptr' \in [Threads -> Maybe(Addr)] /\ \A u \in Threads \ {t} : ptr'[u] = ptr[u]
  OBVIOUS
<1>8. \A u \in Threads : op'[u] = NULL <=> pc'[u] = "idle"
  BY <1>1, <1>3, <1>4 DEF TypeOK
<1>9. CallsTyped'
  BY <1>3, <1>4, <1>5, <1>6, <1>7, <1>8 DEF CallsTyped
<1> QED
  BY <1>2, <1>3, <1>4, <1>5, <1>6, <1>7, <1>9 DEF Calls, Others

(* A call that asks an arena for a first block. *)
LEMMA Allocates ==
    ASSUME PmlInvariant, NEW t \in Threads, Idle(t), ptr[t] = NULL, ptr' = ptr,
           NEW alloc \in Maybe(DOMAIN Allocators), Paired(Table(alloc)),
           NEW a \in Offered, NEW data \in Seq(Byte),
           NEW type \in {"MALLOC", "FREE", "CALLOC", "REALLOC"}, NEW size \in Nat,
           NEW next \in {"own_report", "report"},
           Calls(t, type, size, alloc, a, next),
           mem' = With(mem, a, Table(alloc).malloc, data),
           fault' = fault, asserted' \in BOOLEAN, asserted => asserted'
    PROVE  PmlInvariant'
<1>1. TypeOK /\ BlocksHeld /\ Routed /\ Moved /\ fault = "none"
  BY DEF PmlInvariant, Idle
<1>2. a \in Maybe(Addr) /\ ({a} \ {NULL}) \cap Live = {}
  BY DEF Offered, Maybe, Live
<1>3. Table(alloc).malloc \in Arenas
  BY <1>1, TableFacts DEF Hooks
<1>4. /\ CallsTyped' /\ Others(t) /\ hooks' = hooks /\ debug' = debug /\ balance' = balance
      /\ pc'[t] = next /\ out'[t] = a /\ via'[t] = alloc
  <2>1. ptr' \in [Threads -> Maybe(Addr)] /\ \A u \in Threads \ {t} : ptr'[u] = ptr[u]
    BY <1>1 DEF TypeOK
  <2> QED
    BY <1>1, <1>2, <2>1, CallsFacts
<1>5. /\ mem' \in [Addr -> Maybe(Block)]
      /\ Live' = Live \cup ({a} \ {NULL})
      /\ a # NULL => mem'[a].arena = Table(alloc).malloc
      /\ \A x \in Addr \ {a} : mem'[x] = mem[x]
  BY <1>1, <1>2, <1>3, WithFacts DEF TypeOK, Live
<1>6. TypeOK'
  BY <1>1, <1>4, <1>5 DEF TypeOK, CallsTyped
<1>7. Holds(t) = {} /\ Holds(t)' = {a} \ {NULL}
  BY <1>4 DEF Idle, Holds, Current
<1>8. BlocksHeld'
  <2> DEFINE new == {a} \ {NULL}
  <2>1. {} \subseteq Holds(t) /\ new \cap (Live \ {}) = {}
    BY <1>2
  <2>2. Live' = (Live \ {}) \cup new /\ Holds(t)' = (Holds(t) \ {}) \cup new
    BY <1>5, <1>7
  <2> HIDE DEF new
  <2> QED
    BY <1>1, <1>4, <2>1, <2>2, HoldsStep
<1>9. Routed'
  <2>1. \A u \in Threads \ {t} : \A x \in Holds(u) : mem'[x].arena = mem[x].arena
    BY <1>1, <1>2, <1>5, HeldApart, HoldsAddr, PmlAssumption
  <2> QED
    BY <1>1, <1>4, <1>5, <1>7, <2>1, RoutedStep DEF Paired
<1>10. Moved'
  BY <1>1, <1>4 DEF Moved, Others
<1> QED
  BY <1>1, <1>6, <1>8, <1>9, <1>10 DEF PmlInvariant, UndefinedOnly

-----------------------------------------------------------------------------
(* The calls. *)

LEMMA MallocKeeps ==
    ASSUME PmlInvariant, NEW t \in Threads, NEW size \in Sizes,
           NEW alloc \in Maybe(DOMAIN Allocators), pml_malloc(t, size, alloc)
    PROVE  PmlInvariant'
<1>1. PICK a \in Offered :
        /\ mem' = With(mem, a, Table(alloc).malloc, Filled(size, "any"))
        /\ Calls(t, "MALLOC", size, alloc, a, "report")
  BY DEF pml_malloc
<1>2. size \in Nat /\ Filled(size, "any") \in Seq(Byte)
  BY FilledFacts, PmlAssumption DEF Byte
<1>3. Idle(t) /\ ptr[t] = NULL /\ Paired(Table(alloc)) /\ UNCHANGED <<ptr, asserted, fault>>
  BY DEF pml_malloc
<1>4. asserted' \in BOOLEAN /\ (asserted => asserted')
  BY <1>3 DEF PmlInvariant, TypeOK
<1> HIDE DEF PmlInvariant
<1> QED
  BY <1>1, <1>2, <1>3, <1>4, Allocates

LEMMA CallocKeeps ==
    ASSUME PmlInvariant, NEW t \in Threads, NEW size \in Sizes, NEW count \in Counts,
           NEW alloc \in Maybe(DOMAIN Allocators), pml_calloc(t, count, size, alloc)
    PROVE  PmlInvariant'
<1> DEFINE total == count * size
<1>1. PICK a \in Offered :
        /\ mem' = With(mem, a, Table(alloc).calloc, Filled(total, "zero"))
        /\ Calls(t, "CALLOC", total, alloc, a, "report")
  BY DEF pml_calloc, Offered
<1>2. total \in Nat
  BY PmlAssumption
<1>3. Filled(total, "zero") \in Seq(Byte)
  BY <1>2, FilledFacts DEF Byte
<1>4. /\ Idle(t) /\ ptr[t] = NULL /\ Paired(Table(alloc)) /\ UNCHANGED <<ptr, asserted, fault>>
      /\ Table(alloc).calloc \in Arenas
  BY DEF pml_calloc
<1>5. Table(alloc).calloc = Table(alloc).malloc
  BY <1>4, PmlAssumption DEF Paired
<1>6. asserted' \in BOOLEAN /\ (asserted => asserted')
  BY <1>4 DEF PmlInvariant, TypeOK
<1> HIDE DEF total
<1> QED
  BY <1>1, <1>2, <1>3, <1>4, <1>5, <1>6, Allocates

LEMMA EmulateCallocKeeps ==
    ASSUME PmlInvariant, NEW t \in Threads, NEW size \in Sizes, NEW count \in Counts,
           NEW alloc \in Maybe(DOMAIN Allocators), pml_emulate_calloc(t, count, size, alloc)
    PROVE  PmlInvariant'
<1> DEFINE total == count * size
           bytes == Product(count, size)
<1>1. PICK a \in Offered :
        /\ mem' = With(mem, a, Table(alloc).malloc, Filled(bytes, "zero"))
        /\ Calls(t, "CALLOC", total, alloc, a, "own_report")
  BY DEF pml_emulate_calloc
<1>2. total \in Nat
  BY PmlAssumption
<1>3. bytes \in Nat
  <2> HIDE DEF total
  <2>1. bytes = total % SizeLimit
    BY DEF Product, total
  <2> QED
    BY <1>2, <2>1, PmlAssumption
<1>4. Filled(bytes, "zero") \in Seq(Byte)
  BY <1>3, FilledFacts DEF Byte
<1>5. Idle(t) /\ ptr[t] = NULL /\ Paired(Table(alloc)) /\ UNCHANGED <<ptr, fault>>
  BY DEF pml_emulate_calloc
<1>6. asserted' \in BOOLEAN /\ (asserted => asserted')
  <2>1. asserted' = (asserted \/ Overflows(count, size)) /\ asserted \in BOOLEAN
    BY DEF pml_emulate_calloc, PmlInvariant, TypeOK
  <2> QED
    BY <2>1
<1> HIDE DEF total, bytes
<1> QED
  BY <1>1, <1>2, <1>4, <1>5, <1>6, Allocates

(* pml_free gives the block back to its arena, which knows it. *)
LEMMA FreeKeeps ==
    ASSUME PmlInvariant, NEW t \in Threads, pml_free(t)
    PROVE  PmlInvariant'
<1>1. TypeOK /\ BlocksHeld /\ Routed /\ Moved /\ Idle(t) /\ fault = "none" /\ pc[t] = "idle"
  BY DEF PmlInvariant, pml_free, Idle
<1>2. /\ ptr[t] \in Maybe(Addr) /\ via[t] \in Maybe(DOMAIN Allocators)
      /\ NULL \in Maybe(Addr) /\ 0 \in Nat
  BY <1>1 DEF TypeOK, Maybe
<1>3. ptr' = [ptr EXCEPT ![t] = NULL] /\ Calls(t, "FREE", 0, via[t], NULL, "report")
  BY DEF pml_free
<1>4. /\ CallsTyped' /\ Others(t) /\ hooks' = hooks /\ debug' = debug /\ balance' = balance
      /\ pc'[t] = "report" /\ out'[t] = NULL /\ via'[t] = via[t]
  <2>1. ptr' \in [Threads -> Maybe(Addr)] /\ \A u \in Threads \ {t} : ptr'[u] = ptr[u]
    BY <1>1, <1>2, <1>3 DEF TypeOK
  <2> QED
    BY <1>1, <1>2, <1>3, <2>1, CallsFacts
<1>5. Holds(t) = {ptr[t]} \ {NULL} /\ Holds(t)' = {}
  BY <1>1, <1>3, <1>4 DEF Holds, Current, TypeOK
<1>6. /\ mem' \in [Addr -> Maybe(Block)]
      /\ Live' = Live \ {ptr[t]}
      /\ \A x \in Addr \ {ptr[t]} : mem'[x] = mem[x]
  BY <1>1, <1>2, WithoutFacts DEF TypeOK, Live, pml_free
<1>7. fault' = "none"
  <2>1. ptr[t] # NULL => mem[ptr[t]] # NULL /\ mem[ptr[t]].arena = Table(via[t]).free
    BY <1>1, <1>5, HeldApart DEF Routed, Live
  <2> QED
    BY <1>1, <2>1 DEF pml_free, Foreign, Dies
<1>8. TypeOK'
  BY <1>1, <1>4, <1>6, <1>7 DEF TypeOK, CallsTyped, pml_free
<1>9. BlocksHeld'
  <2> DEFINE gone == {ptr[t]} \ {NULL}
  <2>1. gone \subseteq Holds(t) /\ {} \cap (Live \ gone) = {}
    BY <1>5
  <2>2. Live' = (Live \ gone) \cup {} /\ Holds(t)' = (Holds(t) \ gone) \cup {}
    BY <1>5, <1>6, PmlAssumption DEF Live
  <2> HIDE DEF gone
  <2> QED
    BY <1>1, <1>4, <2>1, <2>2, HoldsStep
<1>10. Routed'
  <2>1. \A u \in Threads \ {t} : \A x \in Holds(u) : mem'[x].arena = mem[x].arena
    BY <1>1, <1>2, <1>5, <1>6, HeldApart, HoldsAddr, PmlAssumption
  <2> QED
    BY <1>1, <1>4, <1>5, <2>1, RoutedStep
<1>11. Moved'
  BY <1>1, <1>4 DEF Moved, Others
<1> QED
  BY <1>7, <1>8, <1>9, <1>10, <1>11 DEF PmlInvariant, UndefinedOnly

(* pml_realloc keeps the block, moves it, or makes a first one. *)
LEMMA ReallocKeeps ==
    ASSUME PmlInvariant, NEW t \in Threads, NEW size \in Sizes,
           NEW alloc \in Maybe(DOMAIN Allocators), pml_realloc(t, size, alloc)
    PROVE  PmlInvariant'
<1> DEFINE old == ptr[t]
           arena == Table(alloc).realloc
           data == IF old = NULL THEN Filled(size, "any") ELSE Copied(size, mem[old].data)
<1>1. /\ TypeOK /\ BlocksHeld /\ Routed /\ Moved /\ fault = "none" /\ pc[t] = "idle"
      /\ Paired(Table(alloc)) /\ (old # NULL => alloc = via[t])
      /\ arena \in Arenas /\ ptr' = ptr /\ asserted' = asserted
  BY DEF PmlInvariant, pml_realloc, Idle
<1>2. PICK a \in Offered \cup {old} :
        /\ mem' = IF a = NULL THEN mem ELSE With(Without(mem, old), a, arena, data)
        /\ Calls(t, "REALLOC", size, alloc, a, "report")
  BY DEF pml_realloc
<1>3. /\ old \in Maybe(Addr) /\ a \in Maybe(Addr) /\ size \in Nat
      /\ ({a} \ {NULL}) \cap (Live \ {old}) = {}
  BY <1>1, PmlAssumption DEF TypeOK, Offered, Maybe, Live
<1>4. /\ CallsTyped' /\ Others(t) /\ hooks' = hooks /\ debug' = debug /\ balance' = balance
      /\ pc'[t] = "report" /\ out'[t] = a /\ via'[t] = alloc
  <2>1. ptr' \in [Threads -> Maybe(Addr)] /\ \A u \in Threads \ {t} : ptr'[u] = ptr[u]
    BY <1>1 DEF TypeOK
  <2> QED
    BY <1>1, <1>2, <1>3, <2>1, CallsFacts
<1>5. Holds(t) = {old} \ {NULL} /\ Holds(t)' = {IF a = NULL THEN old ELSE a} \ {NULL}
  BY <1>1, <1>4 DEF Holds, Current
<1>6. arena = Table(alloc).malloc
  BY <1>1, PmlAssumption DEF Paired
<1>7. /\ old # NULL => /\ old \in Addr /\ mem[old] \in Block
                       /\ mem[old].arena = arena
                       /\ mem[old].data \in Seq(Byte)
  <2>1. old # NULL => old \in Addr /\ mem[old] \in Block
    BY <1>1, <1>3, <1>5, HeldApart DEF Live, TypeOK, Maybe
  <2>2. old # NULL => mem[old].arena = arena
    BY <1>1, <1>5, <1>6 DEF Routed
  <2> QED
    BY <2>1, <2>2 DEF Block
<1>8. data \in Seq(Byte)
  BY <1>3, <1>7, FilledFacts, CopiedFacts DEF Byte
<1>9. fault' = "none"
  <2>1. ~Foreign(old, arena)
    BY <1>7, PmlAssumption DEF Foreign
  <2> QED
    BY <1>1, <2>1 DEF pml_realloc, Dies
<1> HIDE DEF arena, data
<1>10. /\ mem' \in [Addr -> Maybe(Block)]
       /\ Live' = IF a = NULL THEN Live ELSE (Live \ {old}) \cup {a}
       /\ a # NULL => mem'[a].arena = arena
       /\ \A x \in Addr \ {a, old} : mem'[x] = mem[x]
       /\ a = NULL => mem' = mem
  <2>1. CASE a = NULL
    BY <1>1, <1>2, <2>1, PmlAssumption DEF TypeOK, Live
  <2>2. CASE a # NULL
    <3> DEFINE m == Without(mem, old)
    <3>1. /\ m \in [Addr -> Maybe(Block)] /\ {y \in Addr : m[y] # NULL} = Live \ {old}
          /\ \A y \in Addr \ {old} : m[y] = mem[y]
      BY <1>1, <1>3, WithoutFacts DEF TypeOK, Live
    <3>2. mem' = With(m, a, arena, data)
      BY <1>2, <2>2
    <3> HIDE DEF m
    <3> QED
      BY <1>1, <1>3, <1>8, <2>2, <3>1, <3>2, WithFacts DEF Live
  <2> QED
    BY <2>1, <2>2
<1>11. TypeOK'
  BY <1>1, <1>4, <1>9, <1>10 DEF TypeOK, CallsTyped
<1>12. BlocksHeld'
  <2> DEFINE gone == IF a = NULL THEN {} ELSE {old} \ {NULL}
             new == {a} \ {NULL}
  <2>1. gone \subseteq Holds(t) /\ new \cap (Live \ gone) = {}
    BY <1>3, <1>5, PmlAssumption DEF Live
  <2>2. Live' = (Live \ gone) \cup new /\ Holds(t)' = (Holds(t) \ gone) \cup new
    BY <1>5, <1>10, PmlAssumption DEF Live
  <2> HIDE DEF gone, new
  <2> QED
    BY <1>1, <1>4, <2>1, <2>2, HoldsStep
<1>13. Routed'
  <2>1. \A u \in Threads \ {t} : \A x \in Holds(u) : mem'[x].arena = mem[x].arena
    <3> SUFFICES ASSUME NEW u \in Threads \ {t}, NEW x \in Holds(u)
                 PROVE  mem'[x] = mem[x]
      OBVIOUS
    <3>1. x \in Live /\ x \notin Holds(t) /\ x \in Addr /\ x # NULL
      BY <1>1, HeldApart, HoldsAddr, PmlAssumption
    <3> QED
      BY <1>3, <1>5, <1>10, <3>1
  <2>2. \A x \in Holds(t)' : mem'[x].arena = arena
    BY <1>5, <1>7, <1>10
  <2> QED
    BY <1>1, <1>4, <1>6, <2>1, <2>2, RoutedStep DEF Paired
<1>14. Moved'
  BY <1>1, <1>4 DEF Moved, Others
<1> QED
  BY <1>9, <1>11, <1>12, <1>13, <1>14 DEF PmlInvariant, UndefinedOnly

(* The emulation of realloc takes a new block and has two for a while. *)
LEMMA EmulateReallocKeeps ==
    ASSUME PmlInvariant, NEW t \in Threads, NEW size \in Sizes,
           NEW alloc \in Maybe(DOMAIN Allocators), pml_emulate_realloc(t, size, alloc)
    PROVE  PmlInvariant'
<1> DEFINE old == IF ptr[t] = NULL THEN <<>> ELSE mem[ptr[t]].data
           data == Copied(size, old)
<1>1. /\ TypeOK /\ BlocksHeld /\ Routed /\ Moved /\ fault = "none" /\ pc[t] = "idle"
      /\ Paired(Table(alloc)) /\ (ptr[t] # NULL => alloc = via[t])
      /\ ptr' = ptr /\ asserted' = asserted
  BY DEF PmlInvariant, pml_emulate_realloc, Idle
<1>2. PICK a \in Offered :
        /\ mem' = With(mem, a, Table(alloc).malloc, data)
        /\ \/ Dies(a # NULL /\ ptr[t] = NULL)
           \/ a # NULL /\ size > Len(old) /\ Dies(TRUE)
        /\ Calls(t, "REALLOC", size, alloc, a, "release")
  BY DEF pml_emulate_realloc, Offered
<1>3. /\ ptr[t] \in Maybe(Addr) /\ a \in Maybe(Addr) /\ size \in Nat
      /\ ({a} \ {NULL}) \cap Live = {}
  BY <1>1, PmlAssumption DEF TypeOK, Offered, Maybe, Live
<1>4. /\ CallsTyped' /\ Others(t) /\ hooks' = hooks /\ debug' = debug /\ balance' = balance
      /\ pc'[t] = "release" /\ out'[t] = a /\ via'[t] = alloc /\ op'[t].given = ptr[t]
  <2>1. ptr' \in [Threads -> Maybe(Addr)] /\ \A u \in Threads \ {t} : ptr'[u] = ptr[u]
    BY <1>1 DEF TypeOK
  <2> QED
    BY <1>1, <1>2, <1>3, <2>1, CallsFacts
<1>5. Holds(t) = {ptr[t]} \ {NULL} /\ Holds(t)' = {ptr[t], a} \ {NULL}
  BY <1>1, <1>4 DEF Holds, Current
<1>6. ptr[t] # NULL => ptr[t] \in Live /\ mem[ptr[t]].arena = Table(alloc).malloc
  BY <1>1, <1>5, HeldApart DEF Routed
<1>7. data \in Seq(Byte)
  <2>1. ptr[t] # NULL => mem[ptr[t]].data \in Seq(Byte)
    BY <1>1, <1>6 DEF TypeOK, Live, Maybe, Block
  <2>2. old \in Seq(Byte)
    BY <2>1
  <2> HIDE DEF old
  <2> QED
    BY <1>3, <2>2, CopiedFacts
<1>8. Table(alloc).malloc \in Arenas
  BY <1>1, TableFacts DEF Hooks
<1> HIDE DEF data, old
<1>9. /\ mem' \in [Addr -> Maybe(Block)]
      /\ Live' = Live \cup ({a} \ {NULL})
      /\ a # NULL => mem'[a].arena = Table(alloc).malloc
      /\ \A x \in Addr \ {a} : mem'[x] = mem[x]
  <2>1. mem \in [Addr -> Maybe(Block)]
    BY <1>1 DEF TypeOK
  <2> QED
    BY <1>2, <1>3, <1>7, <1>8, <2>1, WithFacts DEF Live
<1>10. TypeOK'
  BY <1>1, <1>2, <1>4, <1>9 DEF TypeOK, CallsTyped, Dies
<1>11. BlocksHeld'
  <2> DEFINE new == {a} \ {NULL}
  <2>1. {} \subseteq Holds(t) /\ new \cap (Live \ {}) = {}
    BY <1>3
  <2>2. Live' = (Live \ {}) \cup new /\ Holds(t)' = (Holds(t) \ {}) \cup new
    BY <1>5, <1>9
  <2> HIDE DEF new
  <2> QED
    BY <1>1, <1>4, <2>1, <2>2, HoldsStep
<1>12. Routed'
  <2>1. \A u \in Threads : \A x \in Holds(u) : mem'[x] = mem[x]
    BY <1>1, <1>3, <1>9, HeldApart, HoldsAddr, PmlAssumption
  <2>2. \A x \in Holds(t)' : mem'[x].arena = Table(alloc).malloc
    BY <1>5, <1>6, <1>9, <2>1
  <2>3. \A u \in Threads \ {t} : \A x \in Holds(u) : mem'[x].arena = mem[x].arena
    BY <2>1
  <2> QED
    BY <1>1, <1>4, <2>2, <2>3, RoutedStep DEF Paired
<1>13. Moved'
  <2>1. fault' = "none" /\ a # NULL => ptr[t] # NULL /\ a # ptr[t]
    BY <1>1, <1>2, <1>3, <1>6 DEF Dies
  <2> QED
    BY <1>1, <1>4, <2>1 DEF Moved, Others
<1>14. UndefinedOnly'
  <2>1. fault' = "undefined" => ptr[t] = NULL \/ size > Len(old)
    BY <1>1, <1>2 DEF Dies
  <2>2. ptr[t] # NULL => mem'[ptr[t]] = mem[ptr[t]] /\ old = mem[ptr[t]].data
    <3>1. ptr[t] # NULL => ptr[t] # a /\ ptr[t] \in Addr
      BY <1>3, <1>6 DEF Maybe
    <3>2. ptr[t] # NULL => old = mem[ptr[t]].data
      BY DEF old
    <3> QED
      BY <1>9, <3>1, <3>2
  <2>3. op'[t].size = size
    BY <1>2, <1>1 DEF Calls, TypeOK
  <2> QED
    BY <1>4, <2>1, <2>2, <2>3 DEF UndefinedOnly
<1> QED
  BY <1>10, <1>11, <1>12, <1>13, <1>14 DEF PmlInvariant

(* It then frees the old one, which is neither the new one nor foreign. *)
LEMMA EmulationFreesKeeps ==
    ASSUME PmlInvariant, NEW t \in Threads, EmulationFrees(t)
    PROVE  PmlInvariant'
<1> DEFINE old == Outgrown(t)
<1>1. /\ TypeOK /\ BlocksHeld /\ Routed /\ Moved /\ fault = "none" /\ pc[t] = "release"
      /\ pc' = [pc EXCEPT ![t] = "own_report"]
      /\ UNCHANGED <<hooks, debug, op, out, ptr, via, balance, asserted>>
  BY DEF PmlInvariant, EmulationFrees
<1>2. old = (IF out[t] # NULL THEN ptr[t] ELSE NULL) /\ old \in Maybe(Addr)
  BY <1>1 DEF Outgrown, TypeOK, Maybe
<1>3. /\ CallsTyped' /\ Others(t) /\ pc'[t] = "own_report"
  <2>1. /\ pc' \in [Threads -> {"idle", "release", "own_report", "report"}]
        /\ \A u \in Threads : op'[u] = NULL <=> pc'[u] = "idle"
        /\ \A u \in Threads \ {t} : pc'[u] = pc[u]
        /\ pc'[t] = "own_report"
    BY <1>1 DEF TypeOK
  <2> QED
    BY <1>1, <2>1 DEF TypeOK, CallsTyped, Others
<1>4. /\ Holds(t) = {ptr[t], out[t]} \ {NULL}
      /\ Holds(t)' = {IF out[t] # NULL THEN out[t] ELSE ptr[t]} \ {NULL}
  BY <1>1, <1>3 DEF Holds, Current
<1>5. out[t] # NULL => ptr[t] # NULL /\ out[t] # ptr[t]
  BY <1>1 DEF Moved
<1>6. old # NULL => old \in Holds(t) /\ old \notin Holds(t)'
  BY <1>2, <1>4, <1>5
<1>7. /\ mem' \in [Addr -> Maybe(Block)]
      /\ Live' = Live \ {old}
      /\ \A x \in Addr \ {old} : mem'[x] = mem[x]
  BY <1>1, <1>2, WithoutFacts DEF TypeOK, Live, EmulationFrees
<1>8. fault' = "none"
  <2>1. old # NULL => mem[old] # NULL /\ mem[old].arena = FreeHook(t)
    BY <1>1, <1>6, HeldApart DEF Routed, Live, FreeHook
  <2>2. ~Foreign(old, FreeHook(t))
    BY <2>1 DEF Foreign
  <2> QED
    BY <1>1, <2>2 DEF EmulationFrees, Dies
<1> HIDE DEF old
<1>9. TypeOK'
  BY <1>1, <1>3, <1>7, <1>8 DEF TypeOK, CallsTyped
<1>10. BlocksHeld'
  <2> DEFINE gone == {old} \ {NULL}
  <2>1. gone \subseteq Holds(t) /\ {} \cap (Live \ gone) = {}
    BY <1>6
  <2>2. Live' = (Live \ gone) \cup {}
    BY <1>7, PmlAssumption DEF Live
  <2>3. Holds(t)' = (Holds(t) \ gone) \cup {}
    BY <1>2, <1>4, <1>5
  <2> HIDE DEF gone
  <2> QED
    BY <1>1, <1>3, <2>1, <2>2, <2>3, HoldsStep
<1>11. Routed'
  <2>1. \A u \in Threads \ {t} : \A x \in Holds(u) : mem'[x].arena = mem[x].arena
    BY <1>1, <1>2, <1>6, <1>7, HeldApart, HoldsAddr, PmlAssumption
  <2>2. \A x \in Holds(t)' : mem'[x] = mem[x] /\ x \in Holds(t)
    BY <1>1, <1>2, <1>4, <1>6, <1>7, HoldsAddr
  <2> QED
    BY <1>1, <1>3, <2>1, <2>2, RoutedStep DEF Routed
<1>12. Moved'
  BY <1>1, <1>3 DEF Moved
<1> QED
  BY <1>8, <1>9, <1>10, <1>11, <1>12 DEF PmlInvariant, UndefinedOnly

(* Counting keeps the account one of integers. *)
LEMMA AccountTyped ==
    ASSUME TypeOK, NEW t \in Threads, debug_hook(t)
    PROVE  balance' \in [Addr -> Int]
<1>1. Weight(t) \in Int
  BY DEF Weight
<1>2. \A x \in Addr : balance[x] + Counted(t, x) \in Int
  BY <1>1 DEF TypeOK, Counted
<1> QED
  BY <1>2 DEF TypeOK, debug_hook

(* Steps that leave memory, and what a thread has, alone. *)
LEMMA ReportKeeps ==
    ASSUME PmlInvariant, NEW t \in Threads, fault = "none", Others(t), CallsTyped',
           debug_hook(t), pc'[t] # "release",
           Holds(t)' = Holds(t), Holds(t) # {} => via'[t] = via[t],
           UNCHANGED <<mem, hooks, debug, asserted, fault>>
    PROVE  PmlInvariant'
<1>1. TypeOK /\ BlocksHeld /\ Routed /\ Moved
  BY DEF PmlInvariant
<1>2. TypeOK'
  BY <1>1, AccountTyped DEF TypeOK, CallsTyped
<1>3. BlocksHeld'
  <2>1. {} \subseteq Holds(t) /\ {} \cap (Live \ {}) = {}
    OBVIOUS
  <2>2. Live' = (Live \ {}) \cup {} /\ Holds(t)' = (Holds(t) \ {}) \cup {}
    BY DEF Live
  <2> QED
    BY <1>1, <2>1, <2>2, HoldsStep
<1>4. Routed'
  <2>1. \A u \in Threads \ {t} : \A x \in Holds(u) : mem'[x].arena = mem[x].arena
    OBVIOUS
  <2>2. \A x \in Holds(t)' : /\ mem'[x].arena = Table(via'[t]).malloc
                            /\ Table(via'[t]).free = Table(via'[t]).malloc
    BY <1>1 DEF Routed
  <2> QED
    BY <1>1, <2>1, <2>2, RoutedStep
<1>5. Moved'
  BY <1>1 DEF Moved, Others
<1> QED
  BY <1>2, <1>3, <1>4, <1>5 DEF PmlInvariant, UndefinedOnly

LEMMA EmulationReportsKeeps ==
    ASSUME PmlInvariant, NEW t \in Threads, EmulationReports(t)
    PROVE  PmlInvariant'
<1>1. /\ TypeOK /\ fault = "none" /\ pc[t] = "own_report" /\ debug_hook(t)
      /\ pc' = [pc EXCEPT ![t] = "report"]
      /\ UNCHANGED <<mem, hooks, debug, op, out, ptr, via, asserted, fault>>
  BY DEF PmlInvariant, EmulationReports
<1>2. /\ pc' \in [Threads -> {"idle", "release", "own_report", "report"}]
      /\ pc'[t] = "report" /\ \A u \in Threads \ {t} : pc'[u] = pc[u]
      /\ \A u \in Threads : op'[u] = NULL <=> pc'[u] = "idle"
  BY <1>1 DEF TypeOK
<1>3. CallsTyped' /\ Others(t)
  BY <1>1, <1>2 DEF TypeOK, CallsTyped, Others
<1>4. Holds(t)' = Holds(t)
  BY <1>1, <1>2 DEF Holds, Current
<1> QED
  BY <1>1, <1>2, <1>3, <1>4, ReportKeeps

LEMMA ReturnKeeps ==
    ASSUME PmlInvariant, NEW t \in Threads, ReportAndReturn(t)
    PROVE  PmlInvariant'
<1>1. /\ TypeOK /\ fault = "none" /\ pc[t] = "report" /\ debug_hook(t)
      /\ ptr' = [ptr EXCEPT ![t] = Current(t)]
      /\ via' = [via EXCEPT ![t] = IF Current(t) = NULL THEN NULL ELSE via[t]]
      /\ out' = [out EXCEPT ![t] = NULL] /\ op' = [op EXCEPT ![t] = NULL]
      /\ pc' = [pc EXCEPT ![t] = "idle"]
      /\ UNCHANGED <<mem, hooks, debug, asserted, fault>>
  BY DEF PmlInvariant, ReportAndReturn
<1>2. Current(t) \in Maybe(Addr)
  BY <1>1 DEF TypeOK, Current
<1>3. CallsTyped' /\ Others(t) /\ pc'[t] = "idle"
  BY <1>1, <1>2 DEF TypeOK, CallsTyped, Others, Maybe
<1>4. Holds(t) = {Current(t)} \ {NULL} /\ Holds(t)' = {Current(t)} \ {NULL}
  BY <1>1 DEF Holds, Current, TypeOK
<1>5. Holds(t) # {} => via'[t] = via[t]
  BY <1>1, <1>4 DEF TypeOK
<1> QED
  BY <1>1, <1>3, <1>4, <1>5, ReportKeeps

(* Writing a block leaves it where it is. *)
LEMMA WriteKeeps ==
    ASSUME PmlInvariant, NEW t \in Threads, Write(t)
    PROVE  PmlInvariant'
<1> DEFINE x == ptr[t]
           new == [mem[x] EXCEPT !.data = Filled(Len(@), "data")]
<1>1. /\ TypeOK /\ BlocksHeld /\ Routed /\ Moved /\ UndefinedOnly
      /\ fault = "none" /\ pc[t] = "idle" /\ x # NULL
      /\ UNCHANGED <<hooks, debug, pc, op, out, ptr, via, balance, asserted, fault>>
  BY DEF PmlInvariant, Write, Idle, threadVars
<1>2. x \in Addr /\ mem[x] \in Block
  <2>1. x \in Holds(t) /\ x \in Addr
    BY <1>1 DEF Holds, Current, TypeOK, Maybe
  <2> QED
    BY <1>1, <2>1, HeldApart DEF Live, TypeOK, Maybe
<1>3. new \in Block /\ new.arena = mem[x].arena /\ new # NULL
  <2>1. mem[x].data \in Seq(Byte) /\ mem[x].arena \in Arenas
    BY <1>2 DEF Block
  <2>2. Filled(Len(mem[x].data), "data") \in Seq(Byte)
    BY <2>1, FilledFacts DEF Byte
  <2>3. new \in Block /\ new.arena = mem[x].arena
    BY <1>2, <2>1, <2>2 DEF Block
  <2> QED
    BY <2>3, PmlAssumption
<1>4. mem' = [mem EXCEPT ![x] = new]
  BY DEF Write
<1> HIDE DEF new, x
<1>5. /\ mem' \in [Addr -> Maybe(Block)]
      /\ \A y \in Addr : (mem'[y] = NULL <=> mem[y] = NULL) /\ mem'[y].arena = mem[y].arena
  BY <1>1, <1>2, <1>3, <1>4, PmlAssumption DEF TypeOK, Maybe
<1>6. \A u \in Threads : Holds(u)' = Holds(u)
  BY <1>1 DEF Holds, Current
<1>7. TypeOK'
  BY <1>1, <1>5 DEF TypeOK
<1>8. BlocksHeld'
  BY <1>1, <1>5, <1>6 DEF BlocksHeld
<1>9. Routed'
  BY <1>1, <1>5, <1>6, HoldsAddr DEF Routed, Table
<1>10. Moved'
  BY <1>1 DEF Moved
<1> QED
  BY <1>1, <1>7, <1>8, <1>9, <1>10 DEF PmlInvariant, UndefinedOnly

(* The program ends at a hook that is not there. *)
LEMMA MissingHookKeeps ==
    ASSUME PmlInvariant, NEW t \in Threads, NEW alloc \in DOMAIN Allocators, MissingHook(t, alloc)
    PROVE  PmlInvariant'
<1>1. /\ TypeOK /\ asserted' = TRUE /\ fault' = "undefined"
      /\ UNCHANGED <<mem, hooks, debug, pc, op, out, ptr, via, balance>>
  BY DEF PmlInvariant, MissingHook, threadVars
<1>2. TypeOK'
  BY <1>1 DEF TypeOK
<1>3. NULL \in {Allocators[alloc].calloc, Allocators[alloc].realloc}
  BY PmlAssumption DEF MissingHook, Table
<1> QED
  BY <1>1, <1>2, <1>3 DEF PmlInvariant, Moved, BlocksHeld, Routed, UndefinedOnly

(* Hooks change while no block depends on the global ones. *)
LEMMA SetHookKeeps ==
    ASSUME PmlInvariant, NEW which \in DOMAIN Choices, NEW hook \in Choices[which],
           set_hook(which, hook)
    PROVE  PmlInvariant'
<1>1. /\ TypeOK /\ BlocksHeld /\ Routed /\ Quiet /\ fault = "none"
      /\ UNCHANGED <<mem, debug, pc, op, out, ptr, via, balance, asserted, fault>>
  BY DEF PmlInvariant, set_hook, Quiet, threadVars
<1>2. hooks' \in Hooks /\ hooks'.calloc # NULL /\ hooks'.realloc # NULL
  <2> DEFINE h == Default(hook)
  <2>1. which \in {"malloc", "free", "calloc", "realloc"} /\ hook \in Arenas \cup {Emulate, NULL}
    BY PmlAssumption
  <2>2. which \in {"malloc", "free"} => hook # Emulate
    BY PmlAssumption
  <2>3. h \in Arenas \cup {Emulate} /\ h # NULL /\ (which \in {"malloc", "free"} => h \in Arenas)
    BY <2>1, <2>2, PmlAssumption DEF Default
  <2>4. hooks' = [hooks EXCEPT ![which] = h]
    BY DEF set_hook
  <2> HIDE DEF h
  <2>5. /\ hooks \in [malloc: Arenas, free: Arenas,
                      calloc: Arenas \cup {Emulate, NULL}, realloc: Arenas \cup {Emulate, NULL}]
        /\ hooks.calloc # NULL /\ hooks.realloc # NULL
    BY <1>1 DEF TypeOK, Hooks
  <2>6. CASE which = "malloc" BY <2>3, <2>4, <2>5, <2>6 DEF Hooks
  <2>7. CASE which = "free" BY <2>3, <2>4, <2>5, <2>7 DEF Hooks
  <2>8. CASE which = "calloc" BY <2>3, <2>4, <2>5, <2>8 DEF Hooks
  <2>9. CASE which = "realloc" BY <2>3, <2>4, <2>5, <2>9 DEF Hooks
  <2> QED
    BY <2>1, <2>6, <2>7, <2>8, <2>9
<1>3. TypeOK'
  BY <1>1, <1>2 DEF TypeOK
<1>4. BlocksHeld'
  BY <1>1 DEF BlocksHeld, Holds, Current
<1>5. Routed'
  <2> SUFFICES ASSUME NEW u \in Threads, NEW x \in Holds(u)'
               PROVE  /\ mem'[x].arena = Table(via[u])'.malloc
                      /\ Table(via[u])'.free = Table(via[u])'.malloc
    BY DEF Routed
  <2>1. x \in Holds(u) /\ via[u] # NULL
    BY <1>1 DEF Holds, Current, Quiet
  <2>2. Table(via[u])' = Table(via[u])
    BY <1>1, <2>1 DEF Table
  <2> QED
    BY <1>1, <2>1, <2>2 DEF Routed
<1> QED
  BY <1>1, <1>3, <1>4, <1>5 DEF PmlInvariant, UndefinedOnly, Moved

(* So does a debug hook, and a step that does nothing. *)
LEMMA SetDebugKeeps ==
    ASSUME PmlInvariant, debug' \in BOOLEAN,
           UNCHANGED <<mem, hooks, pc, op, out, ptr, via, balance, asserted, fault>>
    PROVE  PmlInvariant'
<1>1. TypeOK /\ Moved /\ BlocksHeld /\ Routed /\ UndefinedOnly
  BY DEF PmlInvariant
<1>2. TypeOK'
  BY <1>1 DEF TypeOK
<1>3. \A u \in Threads : Holds(u)' = Holds(u) /\ Table(via[u])' = Table(via[u])
  BY DEF Holds, Current, Table
<1>4. Moved' /\ BlocksHeld'
  BY <1>1, <1>3 DEF Moved, BlocksHeld
<1>5. Routed'
  BY <1>1, <1>3 DEF Routed
<1>6. UndefinedOnly'
  BY <1>1 DEF UndefinedOnly
<1> QED
  BY <1>2, <1>4, <1>5, <1>6 DEF PmlInvariant

-----------------------------------------------------------------------------
LEMMA PmlInit == Init => PmlInvariant
<1> SUFFICES ASSUME Init PROVE PmlInvariant
  OBVIOUS
<1>1. TypeOK
  <2>1. hooks \in Hooks /\ hooks.calloc # NULL /\ hooks.realloc # NULL
    BY PmlAssumption DEF Init, Hooks
  <2>2. mem \in [Addr -> Maybe(Block)] /\ balance \in [Addr -> Int]
    BY DEF Init, Maybe
  <2>3. /\ pc \in [Threads -> {"idle", "release", "own_report", "report"}]
        /\ op \in [Threads -> Maybe(Op)]
        /\ \A t \in Threads : op[t] = NULL <=> pc[t] = "idle"
    BY DEF Init, Maybe
  <2>4. /\ out \in [Threads -> Maybe(Addr)] /\ ptr \in [Threads -> Maybe(Addr)]
        /\ via \in [Threads -> Maybe(DOMAIN Allocators)]
    BY DEF Init, Maybe
  <2>5. debug \in BOOLEAN /\ asserted \in BOOLEAN /\ fault \in {"none", "undefined"}
    BY DEF Init
  <2> QED
    BY <2>1, <2>2, <2>3, <2>4, <2>5 DEF TypeOK
<1>2. \A t \in Threads : Holds(t) = {}
  BY DEF Init, Holds, Current
<1> QED
  BY <1>1, <1>2 DEF Init, PmlInvariant, Moved, BlocksHeld, Routed, UndefinedOnly

LEMMA PmlStep == PmlInvariant /\ [Next]_vars => PmlInvariant'
<1> SUFFICES ASSUME PmlInvariant, [Next]_vars PROVE PmlInvariant'
  OBVIOUS
<1>1. CASE SetStep
  <2>1. ASSUME NEW installed \in BOOLEAN, set_debug_hook(installed) PROVE PmlInvariant'
    <3>1. /\ debug' \in BOOLEAN
          /\ UNCHANGED <<mem, hooks, pc, op, out, ptr, via, balance, asserted, fault>>
      BY <2>1 DEF set_debug_hook, threadVars
    <3> QED
      BY <3>1, SetDebugKeeps
  <2> QED
    BY <1>1, <2>1, SetHookKeeps DEF SetStep
<1>2. ASSUME NEW t \in Threads, ThreadStep(t) PROVE PmlInvariant'
  <2>1. ASSUME NEW alloc \in Maybe(DOMAIN Allocators), NEW size \in Sizes,
               \/ pml_malloc(t, size, alloc)
               \/ \E count \in Counts :
                     pml_calloc(t, count, size, alloc) \/ pml_emulate_calloc(t, count, size, alloc)
               \/ pml_realloc(t, size, alloc) \/ pml_emulate_realloc(t, size, alloc)
        PROVE  PmlInvariant'
    BY <2>1, MallocKeeps, CallocKeeps, EmulateCallocKeeps, ReallocKeeps, EmulateReallocKeeps
  <2>2. ASSUME NEW alloc \in DOMAIN Allocators, MissingHook(t, alloc) PROVE PmlInvariant'
    BY <2>2, MissingHookKeeps
  <2>3. CASE pml_free(t)
    BY <2>3, FreeKeeps
  <2>4. CASE Write(t)
    BY <2>4, WriteKeeps
  <2>5. CASE EmulationFrees(t) \/ EmulationReports(t) \/ ReportAndReturn(t)
    BY <2>5, EmulationFreesKeeps, EmulationReportsKeeps, ReturnKeeps
  <2> QED
    BY <1>2, <2>1, <2>2, <2>3, <2>4, <2>5 DEF ThreadStep
<1>3. CASE UNCHANGED vars
  <2>1. /\ debug' \in BOOLEAN
        /\ UNCHANGED <<mem, hooks, pc, op, out, ptr, via, balance, asserted, fault>>
    BY <1>3 DEF vars, threadVars, PmlInvariant, TypeOK
  <2> QED
    BY <2>1, SetDebugKeeps
<1> QED
  BY <1>1, <1>2, <1>3 DEF Next

LEMMA PmlInvariantHolds == Spec => []PmlInvariant
  BY PmlInit, PmlStep, PTL DEF Spec

(* The state of the library and of its callers stays of its type: hooks,   *)
(* calls, blocks and the account (malloc.c:11-15, 71-103, 173-291).        *)
THEOREM PmlTypeCorrect == Spec => []TypeOK
<1>1. PmlInvariant => TypeOK
  BY DEF PmlInvariant
<1> QED
  BY <1>1, PmlInvariantHolds, PTL

(* No block is lost and none is shared, for any number of threads, whatever *)
(* the hooks and the sizes, also between the steps of a call and when it    *)
(* fails (malloc.c:173-291).                                                *)
THEOREM BlocksHeldAlways == Spec => []BlocksHeld
<1>1. PmlInvariant => BlocksHeld
  BY DEF PmlInvariant
<1> QED
  BY <1>1, PmlInvariantHolds, PTL

(* No arena is given a block it does not know: the program dies only of a   *)
(* missing hook, or of what the emulation of realloc reads where there is   *)
(* no old block or beyond its end (malloc.c:189-192, 270-286).              *)
THEOREM UndefinedOnlyHolds == Spec => []UndefinedOnly
<1>1. PmlInvariant => UndefinedOnly
  BY DEF PmlInvariant
<1> QED
  BY <1>1, PmlInvariantHolds, PTL

-----------------------------------------------------------------------------
(* The refinement of BlockStore, and the size of the blocks. *)

(* What the client of a thread has: the bytes of its block, or none. *)
Held(t) == IF Current(t) = NULL THEN NULL ELSE mem[Current(t)].data

HeldNow == [t \in Threads |-> Held(t)]

-----------------------------------------------------------------------------
(* What a step of a thread may touch. *)

(* A block at an address that was offered overlays none. *)
LEMMA Placed ==
    ASSUME TypeOK, NEW a \in Offered, NEW arena, NEW data, mem' = With(mem, a, arena, data)
    PROVE  /\ \A x \in Live : x \in Addr /\ mem'[x] = mem[x]
           /\ a # NULL => a \in Addr /\ mem'[a].data = data
<1>1. a \in Maybe(Addr) /\ a \notin Live /\ DOMAIN mem = Addr
  BY PmlAssumption DEF Offered, Maybe, Live, TypeOK
<1>2. CASE a = NULL
  BY <1>2 DEF With, Live
<1>3. CASE a # NULL
  <2>1. mem' = [mem EXCEPT ![a] = [arena |-> arena, data |-> data]] /\ a \in Addr
    BY <1>1, <1>3 DEF With, Maybe
  <2> QED
    BY <1>1, <2>1 DEF Live
<1> QED
  BY <1>2, <1>3

(* Freeing a block leaves the others. *)
LEMMA Removed ==
    ASSUME TypeOK, NEW a \in Maybe(Addr), mem' = Without(mem, a)
    PROVE  \A x \in Live : x # a => mem'[x] = mem[x]
  BY WithoutFacts DEF TypeOK, Live

(* Blocks that are allocated, but for the thread's own, stay as they are. *)
OthersKept(t) == \A x \in Live : x # ptr[t] => mem'[x] = mem[x]

LEMMA CallsOthers ==
    ASSUME TypeOK, NEW t \in Threads, NEW type, NEW size, NEW alloc, NEW a, NEW next,
           Calls(t, type, size, alloc, a, next),
           ptr' = ptr \/ ptr' = [ptr EXCEPT ![t] = NULL]
    PROVE  /\ Others(t)
           /\ op'[t].size = size /\ via'[t] = alloc /\ out'[t] = a /\ pc'[t] = next
  BY DEF Calls, Others, TypeOK

(* So a thread's step shows in what its own client has, and nowhere else. *)
LEMMA OthersHold ==
    ASSUME PmlInvariant, fault = "none", NEW t \in Threads, OthersKept(t), Others(t),
           pc[t] \in {"idle", "release"} \/ mem' = mem
    PROVE  \A u \in Threads \ {t} :
              /\ \A x \in Holds(u) : mem'[x] = mem[x]
              /\ Held(u)' = Held(u)
<1> SUFFICES ASSUME NEW u \in Threads \ {t}
             PROVE  /\ \A x \in Holds(u) : mem'[x] = mem[x]
                    /\ Held(u)' = Held(u)
  OBVIOUS
<1>1. pc[t] \in {"idle", "release"} => ptr[t] = NULL \/ ptr[t] \in Holds(t)
  BY DEF Holds, Current
<1>2. Holds(u) \subseteq Live /\ Holds(u) \cap Holds(t) = {} /\ NULL \notin Holds(u)
  BY HeldApart DEF PmlInvariant, Holds
<1>3. \A x \in Holds(u) : mem'[x] = mem[x]
  BY <1>1, <1>2 DEF OthersKept
<1>4. Current(u)' = Current(u) /\ (Current(u) # NULL => Current(u) \in Holds(u))
  BY DEF Current, Others, Holds
<1> QED
  BY <1>2, <1>3, <1>4 DEF Held

LEMMA HeldStep ==
    ASSUME PmlInvariant, fault = "none", NEW t \in Threads, OthersKept(t), Others(t),
           pc[t] \in {"idle", "release"} \/ mem' = mem
    PROVE  HeldNow' = [HeldNow EXCEPT ![t] = Held(t)']
<1>1. \A u \in Threads \ {t} : Held(u)' = Held(u)
  BY OthersHold
<1> QED
  BY <1>1 DEF HeldNow

-----------------------------------------------------------------------------
(* What the store may do, said of what the clients have. *)

LEMMA StoreGets ==
    ASSUME NEW t \in Threads, Held(t) = NULL, NEW n \in 0..MaxSize, NEW b \in {"any", "zero"},
           HeldNow' = [HeldNow EXCEPT ![t] = Filled(n, b)]
    PROVE  Store!Next
<1>1. Filled(n, b) = Store!Bytes(n, b)
  BY DEF Filled, Store!Bytes
<1>2. Store!Get(t)
  BY <1>1 DEF Store!Get, HeldNow, Held
<1> QED
  BY <1>2 DEF Store!Next

LEMMA StoreWrites ==
    ASSUME NEW t \in Threads, Held(t) # NULL,
           HeldNow' = [HeldNow EXCEPT ![t] = Filled(Len(Held(t)), "data")]
    PROVE  Store!Next
<1>1. Filled(Len(Held(t)), "data") = Store!Bytes(Len(Held(t)), "data") /\ HeldNow[t] = Held(t)
  BY DEF Filled, Store!Bytes, HeldNow
<1>2. Store!Write(t)
  BY <1>1 DEF Store!Write, HeldNow, Held
<1> QED
  BY <1>2 DEF Store!Next

LEMMA StoreResizes ==
    ASSUME NEW t \in Threads, Held(t) # NULL, NEW n \in 0..MaxSize,
           HeldNow' = [HeldNow EXCEPT ![t] = Copied(n, Held(t))]
    PROVE  Store!Next
<1>1. Copied(n, Held(t)) = Store!Resized(n, Held(t)) /\ HeldNow[t] = Held(t)
  BY DEF Copied, Store!Resized, HeldNow
<1>2. Store!Resize(t)
  BY <1>1 DEF Store!Resize, HeldNow, Held
<1> QED
  BY <1>2 DEF Store!Next

LEMMA StorePuts ==
    ASSUME NEW t \in Threads, HeldNow' = [HeldNow EXCEPT ![t] = NULL]
    PROVE  Store!Next
<1>1. Store!Put(t)
  BY DEF Store!Put, HeldNow, Held
<1> QED
  BY <1>1 DEF Store!Next

-----------------------------------------------------------------------------
(* What a thread knows of the block its call has got. *)

CopyMade(t) ==
    fault = "none" /\ pc[t] = "release" /\ out[t] # NULL =>
        op[t].size <= MaxSize /\ mem[out[t]].data = Copied(op[t].size, mem[ptr[t]].data)

LargeEnough(t) ==
    pc[t] # "idle" /\ out[t] # NULL => asserted \/ Len(mem[out[t]].data) >= op[t].size

LEMMA OutHeld ==
    ASSUME NEW u \in Threads, pc[u] # "idle", out[u] # NULL,
           pc[u] \in {"release", "own_report", "report"}
    PROVE  out[u] \in Holds(u)
  BY DEF Holds, Current

(* The others' calls know as much after a thread's step as before. *)
LEMMA KnownStays ==
    ASSUME PmlInvariant, fault = "none", NEW t \in Threads, OthersKept(t), Others(t),
           pc[t] \in {"idle", "release"} \/ mem' = mem, asserted => asserted'
    PROVE  /\ MovedCopy /\ CopyMade(t)' => MovedCopy'
           /\ Sized /\ LargeEnough(t)' => Sized'
<1>1. ASSUME NEW u \in Threads \ {t}
      PROVE  /\ pc'[u] = pc[u] /\ op'[u] = op[u] /\ out'[u] = out[u] /\ ptr'[u] = ptr[u]
             /\ pc[u] # "idle" /\ out[u] # NULL => mem'[out[u]] = mem[out[u]]
             /\ pc[u] = "release" /\ ptr[u] # NULL => mem'[ptr[u]] = mem[ptr[u]]
  <2>1. \A x \in Holds(u) : mem'[x] = mem[x]
    BY OthersHold
  <2>2. pc[u] # "idle" => pc[u] \in {"release", "own_report", "report"}
    BY DEF PmlInvariant, TypeOK
  <2>3. pc[u] = "release" /\ ptr[u] # NULL => ptr[u] \in Holds(u)
    BY DEF Holds, Current
  <2> QED
    BY <2>1, <2>2, <2>3, OutHeld DEF Others
<1>2. \A u \in Threads : pc[u] = "release" /\ out[u] # NULL => ptr[u] # NULL
  BY DEF PmlInvariant, Moved
<1>3. ASSUME MovedCopy, CopyMade(t)' PROVE MovedCopy'
  BY <1>1, <1>2, <1>3 DEF MovedCopy, CopyMade
<1>4. ASSUME Sized, LargeEnough(t)' PROVE Sized'
  BY <1>1, <1>4 DEF Sized, LargeEnough
<1> QED
  BY <1>3, <1>4

-----------------------------------------------------------------------------
(* The calls. *)

(* A 32-bit size_t: the 64-bit product is exact (malloc.c:241). *)
WideEnough ==
    /\ \A n \in Sizes \cup Counts : n < SizeLimit
    /\ SizeLimit * SizeLimit <= WideLimit

(* A step of a thread is one of the store or none, and keeps what calls    *)
(* know of their blocks.                                                   *)
Kept ==
    /\ Store!Next \/ HeldNow' = HeldNow
    /\ MovedCopy'
    /\ WideEnough /\ Sized => Sized'

(* A call that asks an arena for a first block. *)
LEMMA FirstBlock ==
    ASSUME PmlInvariant, MovedCopy, NEW t \in Threads, Idle(t), ptr[t] = NULL, ptr' = ptr,
           NEW alloc, NEW arena, NEW a \in Offered, NEW type,
           NEW n \in 0..MaxSize, NEW byte \in {"any", "zero"}, NEW size,
           NEW next \in {"own_report", "report"},
           Calls(t, type, size, alloc, a, next),
           mem' = With(mem, a, arena, Filled(n, byte)),
           asserted => asserted', WideEnough /\ a # NULL => asserted' \/ n >= size
    PROVE  Kept
<1>1. TypeOK /\ fault = "none" /\ pc[t] = "idle" /\ Current(t) = NULL
  BY DEF PmlInvariant, Idle, Current
<1>2. OthersKept(t) /\ (a # NULL => mem'[a].data = Filled(n, byte))
  BY <1>1, Placed DEF OthersKept
<1>3. /\ Others(t) /\ op'[t].size = size /\ out'[t] = a /\ pc'[t] = next /\ ptr'[t] = NULL
  BY <1>1, CallsOthers
<1>4. Held(t) = NULL /\ Held(t)' = IF a = NULL THEN NULL ELSE Filled(n, byte)
  BY <1>1, <1>2, <1>3 DEF Held, Current
<1>5. HeldNow' = [HeldNow EXCEPT ![t] = Held(t)']
  BY <1>1, <1>2, <1>3, HeldStep
<1>6. Store!Next \/ HeldNow' = HeldNow
  <2>1. CASE a = NULL
    BY <2>1, <1>4, <1>5 DEF HeldNow
  <2>2. CASE a # NULL
    BY <2>2, <1>4, <1>5, StoreGets
  <2> QED
    BY <2>1, <2>2
<1>7. Len(Filled(n, byte)) = n
  BY FilledFacts, SizeAssumption DEF Byte
<1>8. CopyMade(t)' /\ (WideEnough => LargeEnough(t)')
  BY <1>2, <1>3, <1>7 DEF CopyMade, LargeEnough
<1> QED
  BY <1>1, <1>2, <1>3, <1>6, <1>8, KnownStays DEF Kept

LEMMA MallocInStore ==
    ASSUME PmlInvariant, MovedCopy, NEW t \in Threads, NEW size \in Sizes, NEW alloc,
           pml_malloc(t, size, alloc)
    PROVE  Kept
<1>1. PICK a \in Offered :
        /\ mem' = With(mem, a, Table(alloc).malloc, Filled(size, "any"))
        /\ Calls(t, "MALLOC", size, alloc, a, "report")
  BY DEF pml_malloc
<1>2. Idle(t) /\ ptr[t] = NULL /\ ptr' = ptr /\ asserted' = asserted
  BY DEF pml_malloc
<1>3. size \in 0..MaxSize /\ size >= size
  BY PmlAssumption, SizeAssumption
<1> QED
  BY <1>1, <1>2, <1>3, FirstBlock

LEMMA CallocInStore ==
    ASSUME PmlInvariant, MovedCopy, NEW t \in Threads, NEW size \in Sizes, NEW count \in Counts,
           NEW alloc, pml_calloc(t, count, size, alloc)
    PROVE  Kept
<1> DEFINE total == count * size
<1>1. PICK a \in Offered :
        /\ mem' = With(mem, a, Table(alloc).calloc, Filled(total, "zero"))
        /\ Calls(t, "CALLOC", total, alloc, a, "report")
        /\ total < SizeLimit \/ a = NULL
  BY DEF pml_calloc, Offered
<1>2. Idle(t) /\ ptr[t] = NULL /\ ptr' = ptr /\ asserted' = asserted
  BY DEF pml_calloc
<1>3. total \in Nat /\ (total < SizeLimit => total <= MaxSize)
  BY PmlAssumption, SizeAssumption
<1> HIDE DEF total
<1>4. CASE total < SizeLimit
  <2>1. total \in 0..MaxSize /\ total >= total
    BY <1>3, <1>4, SizeAssumption
  <2> QED
    BY <1>1, <1>2, <2>1, FirstBlock
<1>5. CASE a = NULL
  <2>1. mem' = With(mem, a, Table(alloc).calloc, Filled(0, "zero"))
    BY <1>1, <1>5 DEF With
  <2>2. 0 \in 0..MaxSize
    BY SizeAssumption
  <2> QED
    BY <1>1, <1>2, <1>5, <2>1, <2>2, FirstBlock
<1> QED
  BY <1>1, <1>4, <1>5

LEMMA EmulateCallocInStore ==
    ASSUME PmlInvariant, MovedCopy, NEW t \in Threads, NEW size \in Sizes, NEW count \in Counts,
           NEW alloc, pml_emulate_calloc(t, count, size, alloc)
    PROVE  Kept
<1> DEFINE total == count * size
           bytes == Product(count, size)
<1>1. PICK a \in Offered :
        /\ mem' = With(mem, a, Table(alloc).malloc, Filled(bytes, "zero"))
        /\ Calls(t, "CALLOC", total, alloc, a, "own_report")
  BY DEF pml_emulate_calloc
<1>2. /\ Idle(t) /\ ptr[t] = NULL /\ ptr' = ptr
      /\ asserted' = (asserted \/ Overflows(count, size))
  BY DEF pml_emulate_calloc
<1>3. total \in Nat /\ bytes = total % SizeLimit
  BY PmlAssumption DEF Product
<1>4. bytes \in 0..MaxSize
  <2> HIDE DEF total, bytes
  <2>1. bytes \in Nat
    BY <1>3, PmlAssumption
  <2> QED
    BY <2>1, SizeAssumption DEF bytes
<1>5. WideEnough => asserted' \/ bytes >= total
  <2> SUFFICES ASSUME WideEnough PROVE Overflows(count, size) \/ bytes >= total
    BY <1>2
  <2>1. count < SizeLimit /\ size < SizeLimit /\ count \in Nat /\ size \in Nat
    BY PmlAssumption DEF WideEnough
  <2>2. total < SizeLimit * SizeLimit
    BY <2>1, PmlAssumption
  <2>3. total < WideLimit
    BY <1>3, <2>2, PmlAssumption DEF WideEnough
  <2>4. Overflows(count, size) <=> bytes < total % WideLimit
    BY DEF Overflows
  <2> HIDE DEF total, bytes
  <2>5. total % WideLimit = total /\ bytes \in Nat
    BY <1>3, <1>4, <2>3, PmlAssumption
  <2> QED
    BY <1>3, <2>4, <2>5
<1>6. asserted => asserted'
  BY <1>2 DEF PmlInvariant, TypeOK
<1> HIDE DEF total, bytes
<1> QED
  BY <1>1, <1>2, <1>4, <1>5, <1>6, FirstBlock

(* pml_free puts the block back. *)
LEMMA FreeInStore ==
    ASSUME PmlInvariant, MovedCopy, NEW t \in Threads, pml_free(t)
    PROVE  Kept
<1>1. /\ TypeOK /\ fault = "none" /\ pc[t] = "idle" /\ ptr[t] \in Maybe(Addr)
      /\ mem' = Without(mem, ptr[t]) /\ ptr' = [ptr EXCEPT ![t] = NULL]
      /\ Calls(t, "FREE", 0, via[t], NULL, "report") /\ asserted' = asserted
  BY DEF PmlInvariant, TypeOK, Idle, pml_free
<1>2. OthersKept(t) /\ Others(t) /\ out'[t] = NULL /\ pc'[t] = "report"
  <2>1. \A x \in Live : x # ptr[t] => mem'[x] = mem[x]
    BY <1>1, Removed
  <2>2. Others(t) /\ out'[t] = NULL /\ pc'[t] = "report"
    BY <1>1, CallsOthers
  <2> QED
    BY <2>1, <2>2 DEF OthersKept
<1>3. ptr'[t] = NULL
  BY <1>1 DEF TypeOK
<1>4. Held(t)' = NULL
  BY <1>2, <1>3 DEF Held, Current
<1>5. Store!Next
  BY <1>1, <1>2, <1>4, HeldStep, StorePuts
<1> QED
  BY <1>1, <1>2, <1>5, KnownStays DEF Kept, CopyMade, LargeEnough

(* A client that has a block has bytes, none at NULL. *)
LEMMA BlockHeld ==
    ASSUME PmlInvariant, fault = "none", NEW t \in Threads, NEW x \in Holds(t)
    PROVE  x \in Live /\ mem[x].data \in Seq(Byte) /\ mem[x].data # NULL
<1>1. x \in Live
  BY HeldApart DEF PmlInvariant
<1>2. mem[x] \in Block
  BY <1>1 DEF PmlInvariant, TypeOK, Live, Maybe
<1> QED
  BY <1>1, <1>2, SizeAssumption DEF Block

LEMMA WriteInStore ==
    ASSUME PmlInvariant, MovedCopy, NEW t \in Threads, Write(t)
    PROVE  Kept
<1> DEFINE x == ptr[t]
<1>1. /\ TypeOK /\ fault = "none" /\ pc[t] = "idle" /\ x # NULL
      /\ mem' = [mem EXCEPT ![x].data = Filled(Len(@), "data")]
      /\ UNCHANGED <<pc, op, out, ptr, via, asserted, fault>>
  BY DEF PmlInvariant, Idle, Write, threadVars
<1>2. x \in Holds(t) /\ Current(t) = x
  BY <1>1 DEF Holds, Current
<1>3. x \in Live /\ mem[x].data \in Seq(Byte) /\ mem[x].data # NULL
  BY <1>1, <1>2, BlockHeld
<1>4. OthersKept(t) /\ Others(t)
  BY <1>1 DEF OthersKept, Others, TypeOK, Live
<1>5. mem'[x].data = Filled(Len(mem[x].data), "data")
  <2>1. x \in Addr /\ mem[x] \in Block
    BY <1>1, <1>3 DEF Live, TypeOK, Maybe
  <2> QED
    BY <1>1, <2>1 DEF Block, TypeOK
<1> HIDE DEF x
<1>6. Held(t) = mem[x].data /\ Held(t)' = Filled(Len(mem[x].data), "data")
  BY <1>1, <1>2, <1>5 DEF Held, Current
<1>7. Store!Next
  BY <1>1, <1>3, <1>4, <1>6, HeldStep, StoreWrites
<1>8. CopyMade(t)' /\ LargeEnough(t)'
  BY <1>1 DEF CopyMade, LargeEnough
<1> QED
  BY <1>1, <1>4, <1>7, <1>8, KnownStays DEF Kept

(* pml_realloc makes a first block or changes the size of the one there is. *)
LEMMA ReallocInStore ==
    ASSUME PmlInvariant, MovedCopy, NEW t \in Threads, NEW size \in Sizes, NEW alloc,
           pml_realloc(t, size, alloc)
    PROVE  Kept
<1> DEFINE old == ptr[t]
           arena == Table(alloc).realloc
           data == IF old = NULL THEN Filled(size, "any") ELSE Copied(size, mem[old].data)
           freed == Without(mem, old)
<1>1. /\ TypeOK /\ fault = "none" /\ pc[t] = "idle" /\ old \in Maybe(Addr)
      /\ ptr' = ptr /\ asserted' = asserted /\ Current(t) = old
  BY DEF PmlInvariant, TypeOK, Idle, pml_realloc, Current
<1>2. PICK a \in Offered \cup {old} :
        /\ mem' = IF a = NULL THEN mem ELSE With(freed, a, arena, data)
        /\ Calls(t, "REALLOC", size, alloc, a, "report")
  BY DEF pml_realloc
<1>3. size \in 0..MaxSize /\ size \in Nat
  BY PmlAssumption, SizeAssumption
<1>4. Others(t) /\ op'[t].size = size /\ out'[t] = a /\ pc'[t] = "report" /\ ptr'[t] = old
  BY <1>1, <1>2, CallsOthers
<1>5. old # NULL => old \in Live /\ mem[old].data \in Seq(Byte) /\ mem[old].data # NULL
  <2>1. old # NULL => old \in Holds(t)
    BY <1>1 DEF Holds
  <2> QED
    BY <1>1, <2>1, BlockHeld
<1>6. CopyMade(t)'
  BY <1>4 DEF CopyMade
<1>7. CASE a = NULL
  <2>1. mem' = mem /\ Held(t)' = Held(t) /\ OthersKept(t)
    BY <1>1, <1>2, <1>4, <1>7 DEF Held, Current, OthersKept
  <2>2. HeldNow' = HeldNow
    BY <1>1, <1>4, <2>1, HeldStep DEF HeldNow
  <2>3. LargeEnough(t)'
    BY <1>4, <1>7 DEF LargeEnough
  <2> QED
    BY <1>1, <1>4, <1>6, <2>1, <2>2, <2>3, KnownStays DEF Kept
<1>8. CASE a # NULL
  <2>1. a \in Addr /\ (a = old \/ a \notin Live)
    BY <1>1, <1>8, PmlAssumption DEF Offered, Maybe, Live
  <2>2. Len(data) = size /\ (old # NULL => data = Copied(size, mem[old].data))
        /\ (old = NULL => data = Filled(size, "any"))
    BY <1>3, <1>5, FilledFacts, CopiedFacts DEF Byte
  <2>3. freed \in [Addr -> Maybe(Block)] /\ \A x \in Live : x # old => freed[x] = mem[x]
    BY <1>1, WithoutFacts DEF TypeOK, Live
  <2> HIDE DEF data, freed, arena
  <2>4. mem' = [freed EXCEPT ![a] = [arena |-> arena, data |-> data]]
    BY <1>2, <1>8 DEF With
  <2>5. mem'[a].data = data /\ \A x \in Addr : x # a => mem'[x] = freed[x]
    BY <2>1, <2>3, <2>4
  <2>6. OthersKept(t)
    BY <2>1, <2>3, <2>5 DEF OthersKept, Live
  <2>7. Held(t)' = data /\ Held(t) = IF old = NULL THEN NULL ELSE mem[old].data
    BY <1>1, <1>4, <1>8, <2>5 DEF Held, Current
  <2>8. HeldNow' = [HeldNow EXCEPT ![t] = data]
    BY <1>1, <1>4, <2>6, <2>7, HeldStep
  <2>9. Store!Next
    <3>1. CASE old = NULL
      BY <1>3, <2>2, <2>7, <2>8, <3>1, StoreGets
    <3>2. CASE old # NULL
      BY <1>3, <1>5, <2>2, <2>7, <2>8, <3>2, StoreResizes
    <3> QED
      BY <3>1, <3>2
  <2>10. LargeEnough(t)'
    BY <1>3, <1>4, <2>2, <2>5 DEF LargeEnough
  <2> QED
    BY <1>1, <1>4, <1>6, <2>6, <2>9, <2>10, KnownStays DEF Kept
<1> QED
  BY <1>7, <1>8

(* Its emulation changes nothing for the client yet, and knows the copy. *)
LEMMA EmulateReallocInStore ==
    ASSUME PmlInvariant, MovedCopy, NEW t \in Threads, NEW size \in Sizes, NEW alloc,
           pml_emulate_realloc(t, size, alloc)
    PROVE  Kept
<1> DEFINE old == IF ptr[t] = NULL THEN <<>> ELSE mem[ptr[t]].data
           data == Copied(size, old)
<1>1. /\ TypeOK /\ fault = "none" /\ pc[t] = "idle" /\ Current(t) = ptr[t]
      /\ ptr' = ptr /\ asserted' = asserted
  BY DEF PmlInvariant, Idle, pml_emulate_realloc, Current
<1>2. PICK a \in Offered :
        /\ mem' = With(mem, a, Table(alloc).malloc, data)
        /\ \/ Dies(a # NULL /\ ptr[t] = NULL)
           \/ a # NULL /\ size > Len(old) /\ Dies(TRUE)
        /\ Calls(t, "REALLOC", size, alloc, a, "release")
  BY DEF pml_emulate_realloc, Offered
<1>3. size \in Nat /\ size <= MaxSize
  BY PmlAssumption, SizeAssumption
<1>4. Others(t) /\ op'[t].size = size /\ out'[t] = a /\ pc'[t] = "release" /\ ptr'[t] = ptr[t]
  BY <1>1, <1>2, CallsOthers
<1>5. ptr[t] # NULL => ptr[t] \in Live /\ mem[ptr[t]].data \in Seq(Byte)
  <2>1. ptr[t] # NULL => ptr[t] \in Holds(t)
    BY <1>1 DEF Holds
  <2> QED
    BY <1>1, <2>1, BlockHeld
<1>6. old \in Seq(Byte)
  BY <1>5
<1>7. Len(data) = size /\ (ptr[t] # NULL => data = Copied(size, mem[ptr[t]].data))
  <2>1. ptr[t] # NULL => data = Copied(size, mem[ptr[t]].data)
    OBVIOUS
  <2> HIDE DEF old
  <2> QED
    BY <1>3, <1>6, <2>1, CopiedFacts
<1> HIDE DEF data, old
<1>8. (\A x \in Live : mem'[x] = mem[x]) /\ (a # NULL => mem'[a].data = data)
  BY <1>1, <1>2, Placed
<1>9. OthersKept(t) /\ Held(t)' = Held(t)
  BY <1>1, <1>4, <1>5, <1>8 DEF OthersKept, Held, Current
<1>10. HeldNow' = HeldNow
  BY <1>1, <1>4, <1>9, HeldStep DEF HeldNow
<1>11. CopyMade(t)'
  BY <1>1, <1>2, <1>3, <1>4, <1>5, <1>7, <1>8 DEF CopyMade, Dies
<1>12. LargeEnough(t)'
  BY <1>3, <1>4, <1>7, <1>8 DEF LargeEnough
<1> QED
  BY <1>1, <1>4, <1>9, <1>10, <1>11, <1>12, KnownStays DEF Kept

(* When the old block goes, the client's block changes to the copy. *)
LEMMA EmulationFreesInStore ==
    ASSUME PmlInvariant, MovedCopy, NEW t \in Threads, EmulationFrees(t)
    PROVE  Kept
<1>1. /\ TypeOK /\ Moved /\ fault = "none" /\ pc[t] = "release" /\ Current(t) = ptr[t]
      /\ mem' = Without(mem, Outgrown(t)) /\ pc' = [pc EXCEPT ![t] = "own_report"]
      /\ UNCHANGED <<op, out, ptr, via, asserted>>
  BY DEF PmlInvariant, EmulationFrees, Current
<1>2. Others(t) /\ pc'[t] = "own_report"
  BY <1>1 DEF Others, TypeOK
<1>3. CASE out[t] = NULL
  <2>1. mem' = mem /\ Held(t)' = Held(t) /\ OthersKept(t)
    BY <1>1, <1>2, <1>3 DEF Outgrown, Without, Held, Current, OthersKept
  <2>2. HeldNow' = HeldNow
    BY <1>1, <1>2, <2>1, HeldStep DEF HeldNow
  <2>3. CopyMade(t)' /\ LargeEnough(t)'
    BY <1>1, <1>2, <1>3 DEF CopyMade, LargeEnough
  <2> QED
    BY <1>1, <1>2, <2>1, <2>2, <2>3, KnownStays DEF Kept
<1>4. CASE out[t] # NULL
  <2>1. ptr[t] # NULL /\ out[t] # ptr[t] /\ ptr[t] \in Maybe(Addr) /\ Outgrown(t) = ptr[t]
    BY <1>1, <1>4 DEF Moved, TypeOK, Outgrown
  <2>2. ptr[t] \in Holds(t) /\ out[t] \in Holds(t)
    BY <1>1, <1>4, <2>1 DEF Holds
  <2>3. out[t] \in Live /\ mem[ptr[t]].data # NULL
    BY <1>1, <2>2, BlockHeld
  <2>4. \A x \in Live : x # ptr[t] => mem'[x] = mem[x]
    BY <1>1, <2>1, Removed
  <2>5. OthersKept(t) /\ mem'[out[t]] = mem[out[t]]
    BY <2>1, <2>3, <2>4 DEF OthersKept
  <2>6. op[t].size \in 0..MaxSize /\ mem[out[t]].data = Copied(op[t].size, mem[ptr[t]].data)
    <3>1. op[t] \in Op
      BY <1>1 DEF TypeOK, Maybe
    <3> QED
      BY <1>1, <1>4, <3>1 DEF MovedCopy, Op
  <2>7. Held(t) = mem[ptr[t]].data /\ Held(t)' = Copied(op[t].size, Held(t))
    BY <1>1, <1>2, <1>4, <2>1, <2>5, <2>6 DEF Held, Current
  <2>8. Store!Next
    BY <1>1, <1>2, <2>3, <2>5, <2>6, <2>7, HeldStep, StoreResizes
  <2>9. CopyMade(t)' /\ (Sized => LargeEnough(t)')
    BY <1>1, <1>2, <1>4, <2>5 DEF CopyMade, LargeEnough, Sized
  <2> QED
    BY <1>1, <1>2, <2>5, <2>8, <2>9, KnownStays DEF Kept
<1> QED
  BY <1>3, <1>4

LEMMA ReportsInStore ==
    ASSUME PmlInvariant, MovedCopy, NEW t \in Threads, EmulationReports(t) \/ ReportAndReturn(t)
    PROVE  Kept
<1>1. /\ TypeOK /\ fault = "none" /\ mem' = mem /\ asserted' = asserted
      /\ pc[t] \in {"own_report", "report"} /\ OthersKept(t)
  BY DEF PmlInvariant, EmulationReports, ReportAndReturn, OthersKept
<1>2. Others(t) /\ Held(t)' = Held(t)
  <2>1. CASE EmulationReports(t)
    BY <1>1, <2>1 DEF EmulationReports, Others, Held, Current, TypeOK
  <2>2. CASE ReportAndReturn(t)
    BY <1>1, <2>2 DEF ReportAndReturn, Others, Held, Current, TypeOK
  <2> QED
    BY <2>1, <2>2
<1>3. HeldNow' = HeldNow
  BY <1>1, <1>2, HeldStep DEF HeldNow
<1>4. CopyMade(t)' /\ (Sized => LargeEnough(t)')
  <2>1. CASE EmulationReports(t)
    BY <1>1, <2>1 DEF EmulationReports, CopyMade, LargeEnough, Sized, TypeOK
  <2>2. CASE ReportAndReturn(t)
    BY <1>1, <2>2 DEF ReportAndReturn, CopyMade, LargeEnough, TypeOK
  <2> QED
    BY <2>1, <2>2
<1> QED
  BY <1>1, <1>2, <1>3, <1>4, KnownStays DEF Kept

(* Steps that leave memory and the calls alone. *)
LEMMA RestInStore ==
    ASSUME PmlInvariant, MovedCopy, UNCHANGED <<mem, threadVars>>,
           fault' = fault \/ fault' = "undefined", asserted => asserted'
    PROVE  Kept
<1>1. HeldNow' = HeldNow
  BY DEF HeldNow, Held, Current, threadVars
<1>2. MovedCopy'
  BY DEF MovedCopy, threadVars
<1>3. Sized => Sized'
  BY DEF Sized, threadVars
<1> QED
  BY <1>1, <1>2, <1>3 DEF Kept

-----------------------------------------------------------------------------
LEMMA StepInStore == PmlInvariant /\ MovedCopy /\ [Next]_vars => Kept
<1> SUFFICES ASSUME PmlInvariant, MovedCopy, [Next]_vars PROVE Kept
  OBVIOUS
<1>1. CASE SetStep
  <2>1. UNCHANGED <<mem, threadVars>> /\ fault' = fault /\ asserted' = asserted
    BY <1>1 DEF SetStep, set_hook, set_debug_hook
  <2> QED
    BY <2>1, RestInStore
<1>2. ASSUME NEW t \in Threads, ThreadStep(t) PROVE Kept
  <2>1. ASSUME NEW alloc, NEW size \in Sizes,
               \/ pml_malloc(t, size, alloc)
               \/ \E count \in Counts :
                     pml_calloc(t, count, size, alloc) \/ pml_emulate_calloc(t, count, size, alloc)
               \/ pml_realloc(t, size, alloc) \/ pml_emulate_realloc(t, size, alloc)
        PROVE  Kept
    BY <2>1, MallocInStore, CallocInStore, EmulateCallocInStore, ReallocInStore, EmulateReallocInStore
  <2>2. ASSUME NEW alloc, MissingHook(t, alloc) PROVE Kept
    <3>1. UNCHANGED <<mem, threadVars>> /\ fault' = "undefined" /\ asserted' = TRUE
      BY <2>2 DEF MissingHook
    <3> QED
      BY <3>1, RestInStore
  <2>3. CASE pml_free(t)
    BY <2>3, FreeInStore
  <2>4. CASE Write(t)
    BY <2>4, WriteInStore
  <2>5. CASE EmulationFrees(t) \/ EmulationReports(t) \/ ReportAndReturn(t)
    BY <2>5, EmulationFreesInStore, ReportsInStore
  <2> QED
    BY <1>2, <2>1, <2>2, <2>3, <2>4, <2>5 DEF ThreadStep
<1>3. CASE UNCHANGED vars
  <2>1. UNCHANGED <<mem, threadVars>> /\ fault' = fault /\ asserted' = asserted
    BY <1>3 DEF vars
  <2> QED
    BY <2>1, RestInStore
<1> QED
  BY <1>1, <1>2, <1>3 DEF Next

LEMMA StoreInit == Init => Store!Init /\ MovedCopy /\ Sized
<1> SUFFICES ASSUME Init PROVE Store!Init /\ MovedCopy /\ Sized
  OBVIOUS
<1>1. Store!Init
  BY DEF Init, Store!Init, Current
<1>2. MovedCopy /\ Sized
  BY DEF Init, MovedCopy, Sized
<1> QED
  BY <1>1, <1>2

LEMMA MovedCopyHolds == Spec => []MovedCopy
<1>1. PmlInvariant /\ MovedCopy /\ [Next]_vars => MovedCopy'
  BY StepInStore DEF Kept
<1> QED
  BY <1>1, StoreInit, PmlInvariantHolds, PTL DEF Spec

(* To its client pml is a store of blocks, for any number of threads, any  *)
(* hooks, allocators and sizes: a block keeps what was written to it until *)
(* its own thread resizes or frees it, resizing keeps what fits, and a     *)
(* failed call changes nothing (malloc.c:173-291, malloc.h:7-8).           *)
THEOREM ImplementsStoreHolds == Spec => ImplementsStore
<1>1. Init => Store!Init
  BY StoreInit
<1>2. PmlInvariant /\ MovedCopy /\ [Next]_vars =>
        [Store!Next]_([t \in Threads |-> IF Current(t) = NULL THEN NULL ELSE mem[Current(t)].data])
  BY StepInStore DEF Kept, HeldNow, Held
<1> QED
  BY <1>1, <1>2, PmlInvariantHolds, MovedCopyHolds, PTL DEF Spec, ImplementsStore, Store!Spec

(* A block is as large as it was asked for, or the assertion has failed,   *)
(* where the 64-bit product of two numbers of type size_t is exact: on a   *)
(* platform of 32 bits (malloc.c:241-242).                                 *)
THEOREM SizeOrAssertHolds == WideEnough => (Spec => []SizeOrAssert)
<1> SUFFICES ASSUME WideEnough PROVE Spec => []SizeOrAssert
  OBVIOUS
<1>1. PmlInvariant /\ MovedCopy /\ Sized /\ [Next]_vars => Sized'
  BY StepInStore DEF Kept
<1>2. Sized => SizeOrAssert
  BY DEF Sized, SizeOrAssert
<1> QED
  BY <1>1, <1>2, StoreInit, PmlInvariantHolds, MovedCopyHolds, PTL DEF Spec

-----------------------------------------------------------------------------
(* The account of the debug hook. *)

(* If one thread owes another amount, the total changes by the difference. *)
LEMMA TotalStep ==
    ASSUME NEW D, NEW E, NEW t \in Threads, D[t] \in -2..2, E[t] \in -2..2,
           \A u \in Threads \ {t} : E[u] = D[u]
    PROVE  Total(D) \in Int /\ Total(E) = Total(D) + E[t] - D[t]
<1> DEFINE Who(f, n) == {u \in Threads : f[u] = n}
           Of(f, n) == Cardinality(Who(f, n))
           Rest(n) == {u \in Threads \ {t} : D[u] = n}
           r(n) == Cardinality(Rest(n))
<1>1. ASSUME NEW n PROVE IsFiniteSet(Rest(n)) /\ r(n) \in Nat
  BY ThreadAssumption, FS_Subset, FS_CardinalityType, FS_RemoveElement
<1>2. ASSUME NEW n PROVE /\ Of(D, n) = r(n) + (IF D[t] = n THEN 1 ELSE 0)
                         /\ Of(E, n) = r(n) + (IF E[t] = n THEN 1 ELSE 0)
  <2>1. Who(D, n) = IF D[t] = n THEN Rest(n) \cup {t} ELSE Rest(n)
    OBVIOUS
  <2>2. Who(E, n) = IF E[t] = n THEN Rest(n) \cup {t} ELSE Rest(n)
    OBVIOUS
  <2>3. Cardinality(Rest(n) \cup {t}) = r(n) + 1
    <3>1. t \notin Rest(n)
      OBVIOUS
    <3> HIDE DEF Rest
    <3> QED
      BY <1>1, <3>1, FS_AddElement
  <2> HIDE DEF Who, Rest
  <2> QED
    BY <1>1, <2>1, <2>2, <2>3
<1>3. /\ Total(D) = 2 * Of(D, 2) + Of(D, 1) - Of(D, -1) - 2 * Of(D, -2)
      /\ Total(E) = 2 * Of(E, 2) + Of(E, 1) - Of(E, -1) - 2 * Of(E, -2)
  BY DEF Total
<1> HIDE DEF Of, Rest, r
<1> DEFINE p2 == r(2)  p1 == r(1)  m1 == r(-1)  m2 == r(-2)
           d == D[t]  e == E[t]
<1>4. p2 \in Nat /\ p1 \in Nat /\ m1 \in Nat /\ m2 \in Nat /\ d \in -2..2 /\ e \in -2..2
  BY <1>1
<1>5. /\ Of(D, 2) = p2 + (IF d = 2 THEN 1 ELSE 0) /\ Of(E, 2) = p2 + (IF e = 2 THEN 1 ELSE 0)
      /\ Of(D, 1) = p1 + (IF d = 1 THEN 1 ELSE 0) /\ Of(E, 1) = p1 + (IF e = 1 THEN 1 ELSE 0)
      /\ Of(D, -1) = m1 + (IF d = -1 THEN 1 ELSE 0) /\ Of(E, -1) = m1 + (IF e = -1 THEN 1 ELSE 0)
      /\ Of(D, -2) = m2 + (IF d = -2 THEN 1 ELSE 0) /\ Of(E, -2) = m2 + (IF e = -2 THEN 1 ELSE 0)
  BY <1>2
<1> HIDE DEF p2, p1, m1, m2, d, e
<1>6. ASSUME NEW k \in -2..2
      PROVE  2 * (IF k = 2 THEN 1 ELSE 0) + (IF k = 1 THEN 1 ELSE 0)
               - (IF k = -1 THEN 1 ELSE 0) - 2 * (IF k = -2 THEN 1 ELSE 0) = k
  <2>1. k \in {-2, -1, 0, 1, 2}
    OBVIOUS
  <2> QED
    BY <2>1
<1>7. \A w, x, y, z \in Nat, k \in -2..2 :
        2 * (w + (IF k = 2 THEN 1 ELSE 0)) + (x + (IF k = 1 THEN 1 ELSE 0))
          - (y + (IF k = -1 THEN 1 ELSE 0)) - 2 * (z + (IF k = -2 THEN 1 ELSE 0))
        = 2 * w + x - y - 2 * z + k
  BY <1>6
<1>8. Total(D) = 2 * p2 + p1 - m1 - 2 * m2 + d /\ Total(E) = 2 * p2 + p1 - m1 - 2 * m2 + e
  BY <1>3, <1>4, <1>5, <1>7
<1> QED
  <2>1. Total(D) \in Int /\ Total(E) = Total(D) + e - d
    BY <1>4, <1>8
  <2> QED
    BY <2>1 DEF d, e

(* Nobody owes anything. *)
LEMMA TotalNone ==
    ASSUME NEW D, \A u \in Threads : D[u] = 0
    PROVE  Total(D) = 0
<1>1. \A n \in {2, 1, -1, -2} : {u \in Threads : D[u] = n} = {}
  OBVIOUS
<1> QED
  BY <1>1, FS_EmptySet DEF Total

LEMMA OwesRange ==
    TypeOK /\ Emulating /\ fault = "none" => \A t \in Threads, a \in Addr : Owes(t, a) \in -2..2
<1> SUFFICES ASSUME TypeOK, Emulating, fault = "none", NEW t \in Threads, NEW a \in Addr
             PROVE  Owes(t, a) \in -2..2
  OBVIOUS
<1>1. Weight(t) \in {1, 2}
  BY DEF Weight
<1>2. Counted(t, a) \in -2..2 /\ (Weight(t) = 1 => Counted(t, a) \in -1..1)
  BY <1>1 DEF Counted
<1>3. pc[t] \in {"idle", "release", "own_report", "report"}
  BY DEF TypeOK
<1> QED
  BY <1>2, <1>3 DEF Owes, Emulating

LEMMA OwesRangeNext ==
    (TypeOK /\ Emulating /\ fault = "none")' => (\A t \in Threads, a \in Addr : Owes(t, a) \in -2..2)'
  BY OwesRange, PTL

(* A step of one thread keeps the account, if what becomes of a block, of  *)
(* what is written down and of what is owed is the same.                   *)
LEMMA LedgerStep ==
    ASSUME TypeOK, Emulating, TypeOK', Emulating', Accounted, fault = "none",
           NEW t \in Threads, Others(t), hooks' = hooks, debug' = debug,
           \A a \in Addr :
              IF debug THEN balance'[a] + Owes(t, a)' - Worth(a)' = balance[a] + Owes(t, a) - Worth(a)
                       ELSE balance'[a] = balance[a]
    PROVE  Accounted'
<1> SUFFICES ASSUME fault' = "none", NEW a \in Addr
             PROVE  balance'[a] = IF debug THEN Worth(a)' - Total(OwedTo(a))' ELSE 0
  BY DEF Accounted
<1>1. balance[a] = IF debug THEN Worth(a) - Total(OwedTo(a)) ELSE 0
  BY DEF Accounted
<1>2. CASE ~debug
  BY <1>1, <1>2
<1>3. CASE debug
  <2> DEFINE D == OwedTo(a)
             E == OwedTo(a)'
  <2>1. D[t] = Owes(t, a) /\ E[t] = Owes(t, a)'
    BY DEF OwedTo
  <2>2. Owes(t, a) \in -2..2 /\ Owes(t, a)' \in -2..2
    BY OwesRange, OwesRangeNext
  <2>3. \A u \in Threads \ {t} : E[u] = D[u]
    <3>1. \A u \in Threads \ {t} : Owes(u, a)' = Owes(u, a)
      BY DEF Others, Owes, Counted, Info, Came, Went, Weight, Table
    <3> QED
      BY <3>1 DEF OwedTo
  <2>4. Total(D) \in Int /\ Total(E) = Total(D) + Owes(t, a)' - Owes(t, a)
    <3> HIDE DEF D, E
    <3>1. Total(D) \in Int /\ Total(E) = Total(D) + E[t] - D[t]
      BY <2>1, <2>2, <2>3, TotalStep
    <3> QED
      BY <2>1, <3>1
  <2>5. Total(OwedTo(a))' = Total(E)
    BY DEF Total
  <2>6. balance[a] \in Int /\ balance'[a] \in Int /\ Worth(a) \in Int /\ Worth(a)' \in Int
    BY DEF TypeOK, Worth
  <2>7. balance'[a] + Owes(t, a)' - Worth(a)' = balance[a] + Owes(t, a) - Worth(a)
    BY <1>3
  <2>8. balance[a] = Worth(a) - Total(D)
    BY <1>1, <1>3
  <2> HIDE DEF D, E
  <2>9. balance'[a] = Worth(a)' - Total(E)
    BY <2>2, <2>4, <2>6, <2>7, <2>8
  <2> QED
    BY <1>3, <2>5, <2>9
<1> QED
  BY <1>2, <1>3


-----------------------------------------------------------------------------
LEMMA EmulatingStep ==
    ASSUME Emulating, fault = "none", NEW t \in Threads, Others(t), hooks' = hooks,
           pc'[t] \in {"release", "own_report"} => op'[t].type # "FREE" /\ Weight(t)' = 1,
           pc'[t] = "release" => op'[t].given = ptr'[t] /\ op'[t].type = "REALLOC"
    PROVE  Emulating'
<1> SUFFICES ASSUME NEW u \in Threads \ {t}
             PROVE  /\ pc'[u] \in {"release", "own_report"} => op'[u].type # "FREE" /\ Weight(u)' = 1
                    /\ pc'[u] = "release" => op'[u].given = ptr'[u] /\ op'[u].type = "REALLOC"
  BY DEF Emulating
<1> QED
  BY DEF Emulating, Others, Weight, Table

(* What a call that begins has still to report. *)
LEMMA CallOwes ==
    ASSUME TypeOK, NEW t \in Threads, NEW type \in {"MALLOC", "FREE", "CALLOC", "REALLOC"},
           NEW size, NEW alloc, NEW a, NEW next,
           type \in {"MALLOC", "CALLOC"} => ptr[t] = NULL,
           type = "FREE" => a = NULL,
           Calls(t, type, size, alloc, a, next)
    PROVE  /\ pc'[t] = next /\ out'[t] = a
           /\ op'[t].type = type /\ op'[t].given = ptr[t]
           /\ Weight(t)' = IF \/ type = "CALLOC" /\ Table(alloc).calloc = Emulate
                              \/ type = "REALLOC" /\ Table(alloc).realloc = Emulate THEN 1 ELSE 2
           /\ next = "report" =>
                 \A x \in Addr :
                    Owes(t, x)' = (IF x = a THEN Weight(t)' ELSE 0)
                                - (IF (type = "FREE" \/ a # NULL) /\ x = ptr[t] THEN Weight(t)' ELSE 0)
           /\ hooks' = hooks /\ debug' = debug /\ balance' = balance
<1>1. /\ op' = [op EXCEPT ![t] = [type |-> type, size |-> size, given |-> ptr[t]]]
      /\ via' = [via EXCEPT ![t] = alloc] /\ out' = [out EXCEPT ![t] = a]
      /\ pc' = [pc EXCEPT ![t] = next] /\ hooks' = hooks /\ debug' = debug /\ balance' = balance
  BY DEF Calls
<1>2. op'[t].type = type /\ op'[t].given = ptr[t] /\ via'[t] = alloc /\ out'[t] = a /\ pc'[t] = next
  BY <1>1 DEF TypeOK
<1>3. Weight(t)' = IF \/ type = "CALLOC" /\ Table(alloc).calloc = Emulate
                      \/ type = "REALLOC" /\ Table(alloc).realloc = Emulate THEN 1 ELSE 2
  BY <1>1, <1>2 DEF Weight, Table
<1>4. ASSUME next = "report", NEW x \in Addr
      PROVE  Owes(t, x)' = (IF x = a THEN Weight(t)' ELSE 0)
                         - (IF (type = "FREE" \/ a # NULL) /\ x = ptr[t] THEN Weight(t)' ELSE 0)
  <2>1. x # NULL
    BY PmlAssumption
  <2>2. Counted(t, x)' = (IF x = a THEN Weight(t)' ELSE 0)
                       - (IF (type = "FREE" \/ a # NULL) /\ x = ptr[t] THEN Weight(t)' ELSE 0)
    BY <1>2, <2>1 DEF Counted, Info, Came, Went
  <2> QED
    BY <1>2, <1>4, <2>2 DEF Owes
<1> QED
  BY <1>1, <1>2, <1>3, <1>4

(* What a block is worth when it comes, and when it goes. *)
LEMMA Granted ==
    ASSUME PmlInvariant, PmlInvariant', fault' = "none", NEW t \in Threads,
           NEW m \in [Addr -> Maybe(Block)], NEW a \in Maybe(Addr), NEW arena, NEW data,
           mem' = With(m, a, arena, data),
           out'[t] = a, pc'[t] \in {"release", "own_report", "report"}
    PROVE  \A x \in Addr : Worth(x)' = IF x = a THEN 2 ELSE IF m[x] = NULL THEN 0 ELSE 2
<1>1. a # NULL => mem'[a] # NULL
  BY DEF PmlInvariant, BlocksHeld, Holds, Current
<1>2. \A x \in Addr : x # a => mem'[x] = m[x]
  BY DEF With
<1> QED
  BY <1>1, <1>2, PmlAssumption DEF Worth

LEMMA Discarded ==
    ASSUME TypeOK, NEW a \in Maybe(Addr), mem' = Without(mem, a), a # NULL => a \in Live
    PROVE  \A x \in Addr : Worth(x)' = Worth(x) - IF x = a THEN 2 ELSE 0
<1>1. CASE a = NULL
  BY <1>1, PmlAssumption DEF Without, Worth
<1>2. CASE a # NULL
  BY <1>2, PmlAssumption DEF Without, Worth, TypeOK, Maybe, Live
<1> QED
  BY <1>1, <1>2

(* A first block, granted at an address that was not in use. *)
LEMMA FirstInLedger ==
    ASSUME PmlInvariant, PmlInvariant', Emulating, Accounted, fault' = "none",
           NEW t \in Threads, Idle(t), ptr[t] = NULL, ptr' = ptr,
           NEW alloc, NEW a \in Offered, NEW data, NEW arena,
           NEW type \in {"MALLOC", "CALLOC"}, NEW size,
           NEW next \in {"own_report", "report"},
           Calls(t, type, size, alloc, a, next),
           mem' = With(mem, a, arena, data),
           next = "own_report" <=> type = "CALLOC" /\ Table(alloc).calloc = Emulate
    PROVE  Emulating' /\ Accounted'
<1>1. TypeOK /\ TypeOK' /\ fault = "none" /\ pc[t] = "idle"
  BY DEF PmlInvariant, Idle
<1>2. /\ pc'[t] = next /\ out'[t] = a /\ op'[t].type = type /\ op'[t].given = NULL
      /\ Weight(t)' = IF next = "own_report" THEN 1 ELSE 2
      /\ hooks' = hooks /\ debug' = debug /\ balance' = balance
  BY <1>1, CallOwes
<1>3. Others(t)
  BY <1>1, CallsOthers
<1>4. Emulating'
  BY <1>1, <1>2, <1>3, EmulatingStep
<1>5. a \in Maybe(Addr) /\ (a # NULL => mem[a] = NULL)
  BY DEF Offered, Maybe
<1>6. \A x \in Addr : Worth(x)' = Worth(x) + IF x = a THEN 2 ELSE 0
  <2>1. \A x \in Addr : Worth(x)' = IF x = a THEN 2 ELSE IF mem[x] = NULL THEN 0 ELSE 2
    BY <1>1, <1>2, <1>5, Granted DEF TypeOK
  <2> QED
    BY <1>5, <2>1, PmlAssumption DEF Worth
<1>7. \A x \in Addr : Counted(t, x)' = IF x = a THEN Weight(t)' ELSE 0
  BY <1>2, PmlAssumption DEF Counted, Info, Came, Went
<1>8. \A x \in Addr : Owes(t, x) = 0 /\ Owes(t, x)' = IF x = a THEN 2 ELSE 0
  <2>1. \A x \in Addr : Owes(t, x) = 0
    BY <1>1 DEF Owes
  <2>2. CASE next = "report"
    BY <1>2, <1>7, <2>1, <2>2 DEF Owes
  <2>3. CASE next = "own_report"
    BY <1>2, <1>7, <2>1, <2>3 DEF Owes
  <2> QED
    BY <2>2, <2>3
<1>9. \A x \in Addr : balance'[x] + Owes(t, x)' - Worth(x)' = balance[x] + Owes(t, x) - Worth(x)
  <2>1. \A x \in Addr : balance[x] \in Int /\ Worth(x) \in Int
    BY <1>1 DEF TypeOK, Worth
  <2> QED
    BY <1>2, <1>6, <1>8, <2>1
<1> QED
  BY <1>1, <1>2, <1>3, <1>4, <1>9, LedgerStep

LEMMA MallocInLedger ==
    ASSUME PmlInvariant, PmlInvariant', Emulating, Accounted, fault' = "none",
           NEW t \in Threads, NEW size, NEW alloc, pml_malloc(t, size, alloc)
    PROVE  Emulating' /\ Accounted'
<1>1. Idle(t) /\ ptr[t] = NULL /\ ptr' = ptr
  BY DEF pml_malloc
<1>2. PICK a \in Offered :
        /\ mem' = With(mem, a, Table(alloc).malloc, Filled(size, "any"))
        /\ Calls(t, "MALLOC", size, alloc, a, "report")
  BY DEF pml_malloc
<1> QED
  BY <1>1, <1>2, FirstInLedger

LEMMA CallocInLedger ==
    ASSUME PmlInvariant, PmlInvariant', Emulating, Accounted, fault' = "none",
           NEW t \in Threads, NEW size, NEW count, NEW alloc, pml_calloc(t, count, size, alloc)
    PROVE  Emulating' /\ Accounted'
<1>1. Idle(t) /\ ptr[t] = NULL /\ ptr' = ptr /\ Table(alloc).calloc # Emulate
  BY PmlAssumption DEF pml_calloc
<1>2. PICK a \in Offered :
        /\ mem' = With(mem, a, Table(alloc).calloc, Filled(count * size, "zero"))
        /\ Calls(t, "CALLOC", count * size, alloc, a, "report")
  BY DEF pml_calloc, Offered
<1> QED
  BY <1>1, <1>2, FirstInLedger

LEMMA EmulateCallocInLedger ==
    ASSUME PmlInvariant, PmlInvariant', Emulating, Accounted, fault' = "none",
           NEW t \in Threads, NEW size, NEW count, NEW alloc, pml_emulate_calloc(t, count, size, alloc)
    PROVE  Emulating' /\ Accounted'
<1>1. Idle(t) /\ ptr[t] = NULL /\ ptr' = ptr /\ Table(alloc).calloc = Emulate
  BY DEF pml_emulate_calloc
<1>2. PICK a \in Offered :
        /\ mem' = With(mem, a, Table(alloc).malloc, Filled(Product(count, size), "zero"))
        /\ Calls(t, "CALLOC", count * size, alloc, a, "own_report")
  BY DEF pml_emulate_calloc
<1> QED
  BY <1>1, <1>2, FirstInLedger

(* A block freed is no more, and its report is still to come. *)
LEMMA FreeInLedger ==
    ASSUME PmlInvariant, PmlInvariant', Emulating, Accounted, NEW t \in Threads, pml_free(t)
    PROVE  Emulating' /\ Accounted'
<1>1. /\ TypeOK /\ TypeOK' /\ fault = "none" /\ pc[t] = "idle" /\ ptr[t] \in Maybe(Addr)
      /\ mem' = Without(mem, ptr[t]) /\ ptr' = [ptr EXCEPT ![t] = NULL]
      /\ Calls(t, "FREE", 0, via[t], NULL, "report")
  BY DEF PmlInvariant, pml_free, Idle, TypeOK
<1>2. /\ pc'[t] = "report"
      /\ \A x \in Addr : Owes(t, x)' = (IF x = NULL THEN 2 ELSE 0) - (IF x = ptr[t] THEN 2 ELSE 0)
      /\ hooks' = hooks /\ debug' = debug /\ balance' = balance
  BY <1>1, CallOwes
<1>3. Others(t)
  BY <1>1, CallsOthers
<1>4. Emulating'
  BY <1>1, <1>2, <1>3, EmulatingStep
<1>5. \A x \in Addr : Worth(x)' = Worth(x) - IF x = ptr[t] THEN 2 ELSE 0
  <2>1. ptr[t] # NULL => ptr[t] \in Live
    BY <1>1, HeldApart DEF PmlInvariant, Holds, Current
  <2> QED
    BY <1>1, <2>1, Discarded
<1>6. \A x \in Addr : balance'[x] + Owes(t, x)' - Worth(x)' = balance[x] + Owes(t, x) - Worth(x)
  <2>1. \A x \in Addr : balance[x] \in Int /\ Worth(x) \in Int /\ Owes(t, x) = 0 /\ x # NULL
    BY <1>1, PmlAssumption DEF TypeOK, Worth, Owes
  <2> QED
    BY <1>2, <1>5, <2>1
<1> QED
  BY <1>1, <1>2, <1>3, <1>4, <1>6, LedgerStep

(* One that is moved goes and comes, and both are still to be reported. *)
LEMMA ReallocInLedger ==
    ASSUME PmlInvariant, PmlInvariant', Emulating, Accounted, fault' = "none",
           NEW t \in Threads, NEW size, NEW alloc, pml_realloc(t, size, alloc)
    PROVE  Emulating' /\ Accounted'
<1> DEFINE old == ptr[t]
           arena == Table(alloc).realloc
           data == IF old = NULL THEN Filled(size, "any") ELSE Copied(size, mem[old].data)
           freed == Without(mem, old)
<1>1. /\ TypeOK /\ TypeOK' /\ fault = "none" /\ pc[t] = "idle" /\ old \in Maybe(Addr) /\ ptr' = ptr
      /\ arena # Emulate
  BY PmlAssumption DEF PmlInvariant, TypeOK, pml_realloc, Idle
<1>2. PICK a \in Offered \cup {old} :
        /\ mem' = IF a = NULL THEN mem ELSE With(freed, a, arena, data)
        /\ Calls(t, "REALLOC", size, alloc, a, "report")
  BY DEF pml_realloc
<1>3. /\ pc'[t] = "report" /\ out'[t] = a
      /\ \A x \in Addr : Owes(t, x)' = (IF x = a THEN 2 ELSE 0)
                                       - (IF a # NULL /\ x = old THEN 2 ELSE 0)
      /\ hooks' = hooks /\ debug' = debug /\ balance' = balance
  BY <1>1, <1>2, CallOwes
<1>4. Others(t)
  BY <1>1, <1>2, CallsOthers
<1>5. Emulating'
  BY <1>1, <1>3, <1>4, EmulatingStep
<1>6. (old # NULL => old \in Live) /\ a \in Maybe(Addr) /\ (a \in Live => a = old)
  <2>1. old # NULL => old \in Live
    BY <1>1, HeldApart DEF PmlInvariant, Holds, Current
  <2> QED
    BY <1>1, <2>1, PmlAssumption DEF Offered, Maybe, Live
<1>7. \A x \in Addr : Worth(x)' = IF a = NULL THEN Worth(x)
                                 ELSE IF x = a THEN 2 ELSE IF x = old THEN 0 ELSE Worth(x)
  <2>1. CASE a = NULL
    BY <1>2, <2>1 DEF Worth
  <2>2. CASE a # NULL
    <3>1. /\ freed \in [Addr -> Maybe(Block)]
          /\ \A x \in Addr : freed[x] # NULL <=> x \in Live \ {old}
      <4>1. mem \in [Addr -> Maybe(Block)]
        BY <1>1 DEF TypeOK
      <4>2. freed \in [Addr -> Maybe(Block)] /\ {y \in Addr : freed[y] # NULL} = Live \ {old}
        BY <1>1, <4>1, WithoutFacts DEF Live
      <4> HIDE DEF freed
      <4> QED
        BY <4>2
    <3>2. mem' = With(freed, a, arena, data)
      BY <1>2, <2>2
    <3> HIDE DEF freed, arena, data
    <3>3. \A x \in Addr : Worth(x)' = IF x = a THEN 2 ELSE IF freed[x] = NULL THEN 0 ELSE 2
      BY <1>3, <1>6, <3>1, <3>2, Granted
    <3> QED
      BY <2>2, <3>1, <3>3 DEF Worth, Live
  <2> QED
    BY <2>1, <2>2
<1>8. \A x \in Addr : balance'[x] + Owes(t, x)' - Worth(x)' = balance[x] + Owes(t, x) - Worth(x)
  <2>1. \A x \in Addr : /\ balance[x] \in Int /\ Worth(x) \in Int /\ Owes(t, x) = 0 /\ x # NULL
                       /\ Worth(x) = IF x \in Live THEN 2 ELSE 0
    BY <1>1, PmlAssumption DEF TypeOK, Worth, Owes, Live
  <2> QED
    BY <1>3, <1>6, <1>7, <2>1
<1> QED
  BY <1>1, <1>3, <1>4, <1>5, <1>8, LedgerStep

(* Its emulation has the new block first, and owes nothing of the old one. *)
LEMMA EmulateReallocInLedger ==
    ASSUME PmlInvariant, PmlInvariant', Emulating, Accounted, fault' = "none",
           NEW t \in Threads, NEW size, NEW alloc, pml_emulate_realloc(t, size, alloc)
    PROVE  Emulating' /\ Accounted'
<1> DEFINE data == Copied(size, IF ptr[t] = NULL THEN <<>> ELSE mem[ptr[t]].data)
<1>1. /\ TypeOK /\ TypeOK' /\ fault = "none" /\ pc[t] = "idle" /\ ptr' = ptr
      /\ Table(alloc).realloc = Emulate
  BY DEF PmlInvariant, Idle, pml_emulate_realloc
<1>2. PICK a \in Offered :
        /\ mem' = With(mem, a, Table(alloc).malloc, data)
        /\ Calls(t, "REALLOC", size, alloc, a, "release")
  BY DEF pml_emulate_realloc, Offered
<1> HIDE DEF data
<1>3. /\ pc'[t] = "release" /\ out'[t] = a /\ op'[t].type = "REALLOC" /\ op'[t].given = ptr[t]
      /\ Weight(t)' = 1 /\ hooks' = hooks /\ debug' = debug /\ balance' = balance
  BY <1>1, <1>2, CallOwes
<1>4. Others(t)
  BY <1>1, <1>2, CallsOthers
<1>5. Emulating'
  BY <1>1, <1>3, <1>4, EmulatingStep
<1>6. a \in Maybe(Addr) /\ (a # NULL => mem[a] = NULL)
  BY DEF Offered, Maybe
<1>7. \A x \in Addr : Worth(x)' = Worth(x) + IF x = a THEN 2 ELSE 0
  <2>1. \A x \in Addr : Worth(x)' = IF x = a THEN 2 ELSE IF mem[x] = NULL THEN 0 ELSE 2
    BY <1>1, <1>2, <1>3, <1>6, Granted DEF TypeOK
  <2> QED
    BY <1>6, <2>1, PmlAssumption DEF Worth
<1>8. \A x \in Addr : Owes(t, x) = 0 /\ Owes(t, x)' = IF x = a THEN 2 ELSE 0
  BY <1>1, <1>3 DEF Owes
<1>9. \A x \in Addr : balance'[x] + Owes(t, x)' - Worth(x)' = balance[x] + Owes(t, x) - Worth(x)
  <2>1. \A x \in Addr : balance[x] \in Int /\ Worth(x) \in Int
    BY <1>1 DEF TypeOK, Worth
  <2> QED
    BY <1>3, <1>7, <1>8, <2>1
<1> QED
  BY <1>1, <1>3, <1>4, <1>5, <1>9, LedgerStep

LEMMA EmulationFreesInLedger ==
    ASSUME PmlInvariant, PmlInvariant', Emulating, Accounted, NEW t \in Threads, EmulationFrees(t)
    PROVE  Emulating' /\ Accounted'
<1>1. /\ TypeOK /\ TypeOK' /\ fault = "none" /\ pc[t] = "release"
      /\ mem' = Without(mem, Outgrown(t)) /\ pc' = [pc EXCEPT ![t] = "own_report"]
      /\ UNCHANGED <<hooks, debug, op, out, ptr, via, balance>>
  BY DEF PmlInvariant, EmulationFrees
<1>2. Others(t) /\ pc'[t] = "own_report"
  BY <1>1 DEF Others, TypeOK
<1>3. /\ Weight(t)' = 1 /\ Weight(t) = 1 /\ op[t].type = "REALLOC" /\ op[t].given = ptr[t]
  BY <1>1 DEF Emulating, Weight, Table
<1>4. Emulating'
  BY <1>1, <1>2, <1>3, EmulatingStep
<1>5. \A x \in Addr : Worth(x)' = Worth(x) - IF x = Outgrown(t) THEN 2 ELSE 0
  <2>1. Outgrown(t) \in Maybe(Addr)
    BY <1>1 DEF Outgrown, TypeOK, Maybe
  <2>2. Outgrown(t) # NULL => Outgrown(t) \in Holds(t)
    BY <1>1 DEF Outgrown, Holds, Current
  <2>3. Outgrown(t) # NULL => Outgrown(t) \in Live
    BY <1>1, <2>2, HeldApart DEF PmlInvariant
  <2> QED
    BY <1>1, <2>1, <2>3, Discarded
<1>6. \A x \in Addr : Owes(t, x) = IF x = out[t] THEN 2 ELSE 0
  BY <1>1 DEF Owes
<1>7. \A x \in Addr : Owes(t, x)' = (IF x = out[t] THEN 2 ELSE 0) - IF x = Outgrown(t) THEN 2 ELSE 0
  <2>1. \A x \in Addr : Counted(t, x)' = (IF x = out[t] THEN 1 ELSE 0) - IF x = Outgrown(t) THEN 1 ELSE 0
    BY <1>1, <1>3, PmlAssumption DEF Counted, Info, Came, Went, Outgrown
  <2> QED
    BY <1>2, <2>1 DEF Owes
<1>8. \A x \in Addr : balance'[x] + Owes(t, x)' - Worth(x)' = balance[x] + Owes(t, x) - Worth(x)
  <2>1. \A x \in Addr : balance[x] \in Int /\ Worth(x) \in Int
    BY <1>1 DEF TypeOK, Worth
  <2> QED
    BY <1>1, <1>5, <1>6, <1>7, <2>1
<1> QED
  BY <1>1, <1>2, <1>4, <1>8, LedgerStep

(* What is reported is written down and owed no more. *)
LEMMA ReportInLedger ==
    ASSUME PmlInvariant, PmlInvariant', Emulating, Emulating', Accounted,
           NEW t \in Threads, fault = "none", debug_hook(t), Others(t),
           UNCHANGED <<mem, hooks, debug>>,
           \A x \in Addr : Owes(t, x)' = Owes(t, x) - Counted(t, x)
    PROVE  Accounted'
<1>1. TypeOK /\ TypeOK'
  BY DEF PmlInvariant
<1>2. ASSUME NEW x \in Addr
      PROVE  IF debug THEN balance'[x] + Owes(t, x)' - Worth(x)' = balance[x] + Owes(t, x) - Worth(x)
                      ELSE balance'[x] = balance[x]
  <2>1. /\ balance[x] \in Int /\ Worth(x) \in Int /\ Worth(x)' = Worth(x)
        /\ Counted(t, x) \in Int /\ Owes(t, x) \in Int
    <3>1. Weight(t) \in Int
      BY DEF Weight
    <3>2. Counted(t, x) \in Int
      BY <3>1 DEF Counted
    <3>3. Owes(t, x) \in Int
      BY <1>1, OwesRange
    <3> QED
      BY <1>1, <3>2, <3>3 DEF TypeOK, Worth
  <2>2. balance'[x] = IF debug THEN balance[x] + Counted(t, x) ELSE balance[x]
    BY DEF debug_hook
  <2> QED
    BY <2>1, <2>2
<1> QED
  BY <1>1, <1>2, LedgerStep

LEMMA EmulationReportsInLedger ==
    ASSUME PmlInvariant, PmlInvariant', Emulating, Accounted, NEW t \in Threads, EmulationReports(t)
    PROVE  Emulating' /\ Accounted'
<1>1. /\ TypeOK /\ fault = "none" /\ pc[t] = "own_report" /\ debug_hook(t)
      /\ pc' = [pc EXCEPT ![t] = "report"]
      /\ UNCHANGED <<mem, hooks, debug, op, out, ptr, via>>
  BY DEF PmlInvariant, EmulationReports
<1>2. Others(t) /\ pc'[t] = "report"
  BY <1>1 DEF Others, TypeOK
<1>3. Emulating'
  BY <1>1, <1>2, EmulatingStep
<1>4. Weight(t) = 1 /\ \A x \in Addr : Counted(t, x)' = Counted(t, x)
  BY <1>1 DEF Emulating, Counted, Info, Came, Went, Weight, Table
<1>5. \A x \in Addr : Owes(t, x)' = Owes(t, x) - Counted(t, x)
  <2>1. \A x \in Addr : Counted(t, x) \in Int
    BY <1>4 DEF Counted
  <2>2. \A x \in Addr : Owes(t, x) = 2 * Counted(t, x) /\ Owes(t, x)' = Counted(t, x)
    BY <1>1, <1>2, <1>4 DEF Owes
  <2> QED
    BY <2>1, <2>2
<1> QED
  BY <1>1, <1>2, <1>3, <1>5, ReportInLedger

LEMMA ReturnInLedger ==
    ASSUME PmlInvariant, PmlInvariant', Emulating, Accounted, NEW t \in Threads, ReportAndReturn(t)
    PROVE  Emulating' /\ Accounted'
<1>1. /\ TypeOK /\ fault = "none" /\ pc[t] = "report" /\ debug_hook(t)
      /\ UNCHANGED <<mem, hooks, debug>>
  BY DEF PmlInvariant, ReportAndReturn
<1>2. Others(t) /\ pc'[t] = "idle"
  BY <1>1 DEF Others, TypeOK, ReportAndReturn
<1>3. Emulating'
  BY <1>1, <1>2, EmulatingStep
<1>4. \A x \in Addr : Owes(t, x)' = Owes(t, x) - Counted(t, x)
  <2>1. \A x \in Addr : Counted(t, x) \in Int
    BY DEF Counted, Weight
  <2>2. \A x \in Addr : Owes(t, x) = Counted(t, x) /\ Owes(t, x)' = 0
    BY <1>1, <1>2 DEF Owes
  <2> QED
    BY <2>1, <2>2
<1> QED
  BY <1>1, <1>2, <1>3, <1>4, ReportInLedger

(* A step that changes no call, and neither frees nor allocates. *)
LEMMA RestInLedger ==
    ASSUME Emulating, Accounted, fault' = "none" => fault = "none",
           UNCHANGED <<hooks, debug, pc, op, out, ptr, via, balance>>,
           \A x \in Addr : Worth(x)' = Worth(x)
    PROVE  Emulating' /\ Accounted'
<1>1. Emulating'
  BY DEF Emulating, Weight, Table
<1>2. \A x \in Addr : OwedTo(x)' = OwedTo(x)
  BY DEF OwedTo, Owes, Counted, Info, Came, Went, Weight, Table
<1>3. Accounted'
  BY <1>2 DEF Accounted, Total
<1> QED
  BY <1>1, <1>3

LEMMA WriteInLedger ==
    ASSUME PmlInvariant, PmlInvariant', Emulating, Accounted, NEW t \in Threads, Write(t)
    PROVE  Emulating' /\ Accounted'
<1>1. /\ TypeOK /\ fault = "none" /\ ptr[t] # NULL /\ pc[t] = "idle"
      /\ mem' = [mem EXCEPT ![ptr[t]].data = Filled(Len(@), "data")]
      /\ UNCHANGED <<hooks, debug, pc, op, out, ptr, via, balance, fault>>
  BY DEF PmlInvariant, Idle, Write, threadVars
<1>2. ptr[t] \in Live /\ ptr[t] \in {y \in Addr : mem'[y] # NULL}
  BY <1>1, HeldApart DEF PmlInvariant, BlocksHeld, Holds, Current, Live
<1>3. \A x \in Addr : x # ptr[t] => mem'[x] = mem[x]
  BY <1>1
<1>4. \A x \in Addr : Worth(x)' = Worth(x)
  BY <1>2, <1>3 DEF Worth, Live
<1> QED
  BY <1>1, <1>4, RestInLedger

(* Hooks change while no call runs, so nothing is owed for one. *)
LEMMA SetInLedger ==
    ASSUME PmlInvariant, Emulating, Accounted, fault = "none",
           \A u \in Threads : pc[u] = "idle",
           UNCHANGED <<mem, pc, balance>>,
           debug' = debug \/ \A u \in Threads : ptr[u] = NULL
    PROVE  Emulating' /\ Accounted'
<1>1. Emulating'
  BY DEF Emulating
<1>2. ASSUME NEW x \in Addr PROVE Total(OwedTo(x)) = 0 /\ Total(OwedTo(x))' = 0
  <2>1. \A u \in Threads : Owes(u, x) = 0 /\ Owes(u, x)' = 0
    BY DEF Owes
  <2>2. Total(OwedTo(x)) = 0
    BY <2>1, TotalNone DEF OwedTo
  <2>3. OwedTo(x)' = OwedTo(x)
    BY <2>1 DEF OwedTo
  <2> QED
    BY <2>2, <2>3 DEF Total
<1>3. \A x \in Addr : balance[x] = IF debug THEN Worth(x) ELSE 0
  <2>1. \A x \in Addr : Worth(x) \in Int
    BY DEF Worth
  <2> QED
    BY <1>2, <2>1 DEF Accounted
<1>4. debug' = debug \/ \A x \in Addr : Worth(x) = 0
  <2>1. (\A u \in Threads : ptr[u] = NULL) => \A u \in Threads : Holds(u) = {}
    BY DEF Holds, Current
  <2>2. (\A u \in Threads : Holds(u) = {}) => \A x \in Addr : mem[x] = NULL
    BY DEF PmlInvariant, BlocksHeld
  <2> QED
    BY <2>1, <2>2 DEF Worth
<1>5. \A x \in Addr : balance'[x] = IF debug' THEN Worth(x)' - Total(OwedTo(x))' ELSE 0
  <2>1. \A x \in Addr : Worth(x) \in Int /\ Worth(x)' = Worth(x)
    BY DEF Worth
  <2> QED
    BY <1>2, <1>3, <1>4, <2>1
<1> QED
  BY <1>1, <1>5 DEF Accounted

-----------------------------------------------------------------------------
LEMMA LedgerInit == Init => Emulating /\ Accounted
<1> SUFFICES ASSUME Init PROVE Emulating /\ Accounted
  OBVIOUS
<1>1. debug = FALSE /\ balance = [a \in Addr |-> 0] /\ pc = [t \in Threads |-> "idle"]
  BY DEF Init
<1> QED
  BY <1>1 DEF Emulating, Accounted

LEMMA LedgerNext ==
    PmlInvariant /\ Emulating /\ Accounted /\ [Next]_vars => Emulating' /\ Accounted'
<1> SUFFICES ASSUME PmlInvariant, Emulating, Accounted, [Next]_vars PROVE Emulating' /\ Accounted'
  OBVIOUS
<1>1. PmlInvariant'
  BY PmlStep
<1>2. CASE SetStep
  <2>1. /\ fault = "none" /\ (\A u \in Threads : pc[u] = "idle")
        /\ UNCHANGED <<mem, pc, balance>>
        /\ debug' = debug \/ \A u \in Threads : ptr[u] = NULL
    BY <1>2 DEF SetStep, set_hook, set_debug_hook, Quiet, threadVars
  <2> QED
    BY <2>1, SetInLedger
<1>3. ASSUME NEW t \in Threads, ThreadStep(t) PROVE Emulating' /\ Accounted'
  <2>1. CASE fault' # "none"
    BY <2>1 DEF Accounted, Emulating
  <2>2. CASE fault' = "none"
    <3>1. ASSUME NEW alloc, NEW size,
                 \/ pml_malloc(t, size, alloc)
                 \/ \E count \in Counts :
                       pml_calloc(t, count, size, alloc) \/ pml_emulate_calloc(t, count, size, alloc)
                 \/ pml_realloc(t, size, alloc) \/ pml_emulate_realloc(t, size, alloc)
          PROVE  Emulating' /\ Accounted'
      BY <1>1, <2>2, <3>1, MallocInLedger, CallocInLedger, EmulateCallocInLedger,
         ReallocInLedger, EmulateReallocInLedger
    <3>2. ASSUME NEW alloc, MissingHook(t, alloc) PROVE FALSE
      BY <2>2, <3>2 DEF MissingHook
    <3>3. CASE pml_free(t)
      BY <1>1, <3>3, FreeInLedger
    <3>4. CASE Write(t)
      BY <1>1, <3>4, WriteInLedger
    <3>5. CASE EmulationFrees(t)
      BY <1>1, <3>5, EmulationFreesInLedger
    <3>6. CASE EmulationReports(t)
      BY <1>1, <3>6, EmulationReportsInLedger
    <3>7. CASE ReportAndReturn(t)
      BY <1>1, <3>7, ReturnInLedger
    <3> QED
      BY <1>3, <3>1, <3>2, <3>3, <3>4, <3>5, <3>6, <3>7 DEF ThreadStep
  <2> QED
    BY <2>1, <2>2
<1>4. CASE UNCHANGED vars
  <2>1. /\ fault' = fault /\ UNCHANGED <<hooks, debug, pc, op, out, ptr, via, balance>>
        /\ \A x \in Addr : Worth(x)' = Worth(x)
    BY <1>4 DEF vars, threadVars, Worth
  <2> QED
    BY <2>1, RestInLedger
<1> QED
  BY <1>2, <1>3, <1>4 DEF Next

(* The account of a debug hook is right whenever no call runs, for any     *)
(* number of threads and whichever of their calls report once and twice,   *)
(* also when a report comes after its address is another thread's          *)
(* (malloc.c:176-177, 192-193, 288; malloc.h:10).                          *)
THEOREM LedgerExactHolds == Spec => []LedgerExact
<1>1. Emulating /\ Accounted => LedgerExact
  <2> SUFFICES ASSUME Accounted, debug, fault = "none", \A t \in Threads : pc[t] = "idle",
                      NEW a \in Addr
               PROVE  balance[a] = IF mem[a] = NULL THEN 0 ELSE 2
    BY DEF LedgerExact
  <2>1. \A t \in Threads : Owes(t, a) = 0
    BY DEF Owes
  <2>2. Total(OwedTo(a)) = 0
    BY <2>1, TotalNone DEF OwedTo
  <2> QED
    BY <2>2 DEF Accounted, Worth
<1> QED
  BY <1>1, LedgerInit, LedgerNext, PmlInvariantHolds, PTL DEF Spec

=============================================================================
