-------------------------------- MODULE Pml ---------------------------------
(***************************************************************************)
(* pml/malloc.c: calls of pml_malloc, pml_free, pml_calloc and pml_realloc *)
(* by several threads, routed to the global hooks or to the hooks of an    *)
(* allocator, and the debug hook that hears of each of them.  The library  *)
(* takes no lock: other threads run between the call of a hook and the     *)
(* report to the debug hook.  Hooks are the user's code: they manage an    *)
(* arena, in one step, as a thread-safe malloc does.                       *)
(***************************************************************************)
EXTENDS Integers, Sequences

CONSTANTS
    Threads, Addr, Arenas,
    Allocators,     \* name -> its hooks, as pml_init_allocator set them
    NULL,
    Libc,           \* the arena of the default hooks
    Emulate,        \* the hook pml_emulate_calloc or pml_emulate_realloc
    Choices,        \* which global hook -> what a client may set it to
    Sizes, Counts,  \* what threads ask for
    SizeLimit,      \* SIZE_MAX + 1: size_t counts modulo this
    WideLimit       \* UINT64_MAX + 1, more than SizeLimit where size_t is shorter

(* An allocator's calloc and realloc may be missing. *)
Hooks == [malloc: Arenas, free: Arenas,
          calloc: Arenas \cup {Emulate, NULL}, realloc: Arenas \cup {Emulate, NULL}]

Byte == {"any", "zero", "data"}
Block == [arena: Arenas, data: Seq(Byte)]
Maybe(set) == set \cup {NULL}

(* DebugHookType of the call, the bytes it asks for, the pointer it is given. *)
Op == [type: {"MALLOC", "FREE", "CALLOC", "REALLOC"}, size: Nat, given: Maybe(Addr)]

ASSUME PmlAssumption ==
    /\ NULL \notin Addr \cup Arenas \cup Block \cup Op \cup DOMAIN Allocators
    /\ Emulate \notin Arenas /\ Emulate # NULL /\ Libc \in Arenas
    /\ Allocators \in [DOMAIN Allocators -> Hooks]
    /\ Choices \in [{"malloc", "free", "calloc", "realloc"} -> SUBSET (Arenas \cup {Emulate, NULL})]
    /\ Emulate \notin Choices["malloc"] \cup Choices["free"]
    /\ Sizes \subseteq Nat /\ Counts \subseteq Nat
    /\ SizeLimit \in Nat \ {0} /\ WideLimit \in Nat \ {0} /\ SizeLimit <= WideLimit

VARIABLES
    mem,        \* address -> the block there, or NULL
    hooks,      \* s_pml_malloc_hook and so on
    debug,      \* is a debug hook installed?
    pc,         \* thread -> where it is
    op,         \* thread -> the call it makes
    out,        \* thread -> the pointer its call will return
    ptr, via,   \* thread -> the block it holds, and the allocator it is from
    balance,    \* what a debug hook makes of the reports, by address
    asserted,   \* has a PML_ASSERT failed?
    fault       \* "none", or "undefined" when the program died

threadVars == <<pc, op, out, ptr, via>>
vars == <<mem, hooks, debug, threadVars, balance, asserted, fault>>

TypeOK ==
    /\ mem \in [Addr -> Maybe(Block)]
    /\ hooks \in Hooks /\ hooks.calloc # NULL /\ hooks.realloc # NULL
    /\ debug \in BOOLEAN
    /\ pc \in [Threads -> {"idle", "release", "own_report", "report"}]
    /\ op \in [Threads -> Maybe(Op)]
    /\ \A t \in Threads : op[t] = NULL <=> pc[t] = "idle"
    /\ out \in [Threads -> Maybe(Addr)] /\ ptr \in [Threads -> Maybe(Addr)]
    /\ via \in [Threads -> Maybe(DOMAIN Allocators)]
    /\ balance \in [Addr -> Int]
    /\ asserted \in BOOLEAN
    /\ fault \in {"none", "undefined"}

Init ==
    /\ mem = [a \in Addr |-> NULL]
    /\ hooks = [malloc |-> Libc, free |-> Libc, calloc |-> Libc, realloc |-> Libc]
    /\ debug = FALSE
    /\ pc = [t \in Threads |-> "idle"] /\ op = [t \in Threads |-> NULL]
    /\ out = [t \in Threads |-> NULL]
    /\ ptr = [t \in Threads |-> NULL] /\ via = [t \in Threads |-> NULL]
    /\ balance = [a \in Addr |-> 0]
    /\ asserted = FALSE /\ fault = "none"

-----------------------------------------------------------------------------
(* Arenas. *)

Filled(n, byte) == [k \in 1..n |-> byte]

(* Variant of Copied: nothing is. *)
Copied_Nothing(n, data) == [k \in 1..n |-> "any"]

(* The first n bytes of a block, and what is beyond its end. *)
Copied(n, data) == [k \in 1..n |-> IF k <= Len(data) THEN data[k] ELSE "any"]

(* A request is granted at any unused address, also one freed just now. *)
Offered == {a \in Addr : mem[a] = NULL} \cup {NULL}

With(m, a, arena, data) ==
    IF a = NULL THEN m ELSE [m EXCEPT ![a] = [arena |-> arena, data |-> data]]

Without(m, a) == IF a = NULL THEN m ELSE [m EXCEPT ![a] = NULL]

(* Is a a block that an arena's free or realloc knows nothing of? *)
Foreign(a, arena) == a # NULL /\ (mem[a] = NULL \/ mem[a].arena # arena)

Dies(if) == fault' = IF if THEN "undefined" ELSE fault

-----------------------------------------------------------------------------
(* Hooks.  A client changes the global hooks, or starts to listen, while   *)
(* nothing depends on them; it calls through them when they fit together.  *)

Table(alloc) == IF alloc = NULL THEN hooks ELSE Allocators[alloc]

Paired(table) ==
    table.free = table.malloc /\ {table.calloc, table.realloc} \subseteq {table.malloc, Emulate, NULL}

Quiet == fault = "none" /\ \A t \in Threads : pc[t] = "idle" /\ (ptr[t] # NULL => via[t] # NULL)

(* Variant of Default: a null hook is stored as it is. *)
Default_None(hook) == hook
Default(hook) == IF hook = NULL THEN Libc ELSE hook

(* set_malloc_hook, set_free_hook, set_calloc_hook, set_realloc_hook *)
set_hook(which, hook) ==
    /\ Quiet
    /\ hooks' = [hooks EXCEPT ![which] = Default(hook)]
    /\ UNCHANGED <<mem, debug, threadVars, balance, asserted, fault>>

set_debug_hook(installed) ==
    /\ Quiet /\ \A t \in Threads : ptr[t] = NULL
    /\ debug' = installed
    /\ UNCHANGED <<mem, hooks, threadVars, balance, asserted, fault>>

-----------------------------------------------------------------------------
(* Calls. *)

Idle(t) == fault = "none" /\ pc[t] = "idle"

Calls(t, type, size, alloc, result, next) ==
    /\ op' = [op EXCEPT ![t] = [type |-> type, size |-> size, given |-> ptr[t]]]
    /\ via' = [via EXCEPT ![t] = alloc]
    /\ out' = [out EXCEPT ![t] = result]
    /\ pc' = [pc EXCEPT ![t] = next]
    /\ UNCHANGED <<hooks, debug, balance>>

pml_malloc(t, size, alloc) ==
    /\ Idle(t) /\ ptr[t] = NULL /\ Paired(Table(alloc))
    /\ \E a \in Offered :
          /\ mem' = With(mem, a, Table(alloc).malloc, Filled(size, "any"))
          /\ Calls(t, "MALLOC", size, alloc, a, "report")
    /\ UNCHANGED <<ptr, asserted, fault>>

(* The pointer may be null. *)
pml_free(t) ==
    /\ Idle(t)
    /\ mem' = Without(mem, ptr[t])
    /\ Dies(Foreign(ptr[t], Table(via[t]).free))
    /\ ptr' = [ptr EXCEPT ![t] = NULL]
    /\ Calls(t, "FREE", 0, via[t], NULL, "report")
    /\ UNCHANGED asserted

(* An arena's calloc fails if the product does not fit. *)
pml_calloc(t, count, size, alloc) ==
    LET arena == Table(alloc).calloc
        total == count * size
    IN  /\ Idle(t) /\ ptr[t] = NULL /\ Paired(Table(alloc))
        /\ arena \in Arenas
        /\ \E a \in IF total < SizeLimit THEN Offered ELSE {NULL} :
              /\ mem' = With(mem, a, arena, Filled(total, "zero"))
              /\ Calls(t, "CALLOC", total, alloc, a, "report")
        /\ UNCHANGED <<ptr, asserted, fault>>

Product(count, size) == (count * size) % SizeLimit

(* Variant of Overflows: the assertion tests the product with itself. *)
Overflows_Never(count, size) == FALSE

(* ! (bytes >= (uint64_t)count * size) *)
Overflows(count, size) == Product(count, size) < (count * size) % WideLimit

(* A failed assertion is reported, no more. *)
pml_emulate_calloc(t, count, size, alloc) ==
    LET bytes == Product(count, size)
    IN  /\ Idle(t) /\ ptr[t] = NULL /\ Paired(Table(alloc))
        /\ Table(alloc).calloc = Emulate
        /\ asserted' = (asserted \/ Overflows(count, size))
        /\ \E a \in Offered :
              /\ mem' = With(mem, a, Table(alloc).malloc, Filled(bytes, "zero"))
              /\ Calls(t, "CALLOC", count * size, alloc, a, "own_report")
        /\ UNCHANGED <<ptr, fault>>

(* An arena's realloc keeps the block where it is, moves it, or fails.     *)
(* What it makes of size 0 differs between C libraries and is not asked.   *)
pml_realloc(t, size, alloc) ==
    LET arena == Table(alloc).realloc
    IN  /\ Idle(t) /\ Paired(Table(alloc)) /\ (ptr[t] # NULL => alloc = via[t])
        /\ arena \in Arenas /\ size > 0
        /\ Dies(Foreign(ptr[t], arena))
        /\ \E a \in Offered \cup {ptr[t]} :
              /\ mem' = IF a = NULL THEN mem
                        ELSE With(Without(mem, ptr[t]), a, arena,
                                  IF ptr[t] = NULL THEN Filled(size, "any")
                                                   ELSE Copied(size, mem[ptr[t]].data))
              /\ Calls(t, "REALLOC", size, alloc, a, "report")
        /\ UNCHANGED <<ptr, asserted>>

(* A new block, if size > 0, that takes size bytes from the old one.  To   *)
(* copy from a null pointer is fatal; to read beyond the end of the old    *)
(* block may be fatal, or give any bytes.                                  *)
pml_emulate_realloc(t, size, alloc) ==
    LET old == IF ptr[t] = NULL THEN <<>> ELSE mem[ptr[t]].data
    IN  /\ Idle(t) /\ Paired(Table(alloc)) /\ (ptr[t] # NULL => alloc = via[t])
        /\ Table(alloc).realloc = Emulate
        /\ \E a \in IF size > 0 THEN Offered ELSE {NULL} :
              /\ mem' = With(mem, a, Table(alloc).malloc, Copied(size, old))
              /\ \/ Dies(a # NULL /\ ptr[t] = NULL)
                 \/ a # NULL /\ size > Len(old) /\ Dies(TRUE)
              /\ Calls(t, "REALLOC", size, alloc, a, "release")
        /\ UNCHANGED <<ptr, asserted>>

(* Variant of Outgrown: the old block is not freed. *)
Outgrown_Never(t) == NULL

(* The old block, to be freed if there is a new one. *)
Outgrown(t) == IF out[t] # NULL THEN ptr[t] ELSE NULL

(* Variant of FreeHook: the global one, whatever the allocator. *)
FreeHook_Global(t) == hooks.free
FreeHook(t) == Table(via[t]).free

EmulationFrees(t) ==
    /\ fault = "none" /\ pc[t] = "release"
    /\ mem' = Without(mem, Outgrown(t))
    /\ Dies(Foreign(Outgrown(t), FreeHook(t)))
    /\ pc' = [pc EXCEPT ![t] = "own_report"]
    /\ UNCHANGED <<hooks, debug, op, out, ptr, via, balance, asserted>>

(* A hook that is missing fails the assertion, and is called. *)
MissingHook(t, alloc) ==
    /\ Idle(t) /\ Paired(Table(alloc)) /\ (ptr[t] # NULL => alloc = via[t])
    /\ \/ ptr[t] = NULL /\ Table(alloc).calloc = NULL
       \/ Table(alloc).realloc = NULL
    /\ asserted' = TRUE /\ fault' = "undefined"
    /\ UNCHANGED <<mem, hooks, debug, threadVars, balance>>

-----------------------------------------------------------------------------
(* Variant of Info: a realloc does not report the pointer it was given. *)
Info_NoOld(t) ==
    [type |-> op[t].type,
     ptr  |-> IF op[t].type = "FREE" THEN op[t].given ELSE out[t],
     in   |-> NULL]

(* What the debug hook is told.  A free reports the pointer it was given   *)
(* as ptr, not as in.                                                      *)
Info(t) ==
    [type |-> op[t].type,
     ptr  |-> IF op[t].type = "FREE" THEN op[t].given ELSE out[t],
     in   |-> IF op[t].type = "REALLOC" THEN op[t].given ELSE NULL]

(* The debug hook is the user's: this one keeps an account of every        *)
(* address, two for a block.  It knows which calls an allocator emulates:  *)
(* these report themselves before pml_calloc and pml_realloc report them   *)
(* again, and count one each time.                                         *)
Weight(t) ==
    CASE op[t].type = "CALLOC"  /\ Table(via[t]).calloc = Emulate  -> 1
      [] op[t].type = "REALLOC" /\ Table(via[t]).realloc = Emulate -> 1
      [] OTHER -> 2

(* The block that a report says is there from now on, and the one that is  *)
(* not; a failed realloc keeps the one it was given.                       *)
Came(info) == IF info.type = "FREE" THEN NULL ELSE info.ptr

Went(info) ==
    CASE info.type = "FREE" -> info.ptr
      [] info.type = "REALLOC" /\ info.ptr # NULL -> info.in
      [] OTHER -> NULL

Counted(t, a) ==
    (IF a = Came(Info(t)) THEN Weight(t) ELSE 0) - (IF a = Went(Info(t)) THEN Weight(t) ELSE 0)

debug_hook(t) ==
    balance' = IF debug THEN [a \in Addr |-> balance[a] + Counted(t, a)] ELSE balance

EmulationReports(t) ==
    /\ fault = "none" /\ pc[t] = "own_report"
    /\ debug_hook(t)
    /\ pc' = [pc EXCEPT ![t] = "report"]
    /\ UNCHANGED <<mem, hooks, debug, op, out, ptr, via, asserted, fault>>

(* The block a thread has: from the hook that gave it on, the new one. *)
Current(t) == IF pc[t] \in {"own_report", "report"} /\ out[t] # NULL THEN out[t] ELSE ptr[t]

ReportAndReturn(t) ==
    /\ fault = "none" /\ pc[t] = "report"
    /\ debug_hook(t)
    /\ ptr' = [ptr EXCEPT ![t] = Current(t)]
    /\ via' = [via EXCEPT ![t] = IF Current(t) = NULL THEN NULL ELSE via[t]]
    /\ out' = [out EXCEPT ![t] = NULL] /\ op' = [op EXCEPT ![t] = NULL]
    /\ pc' = [pc EXCEPT ![t] = "idle"]
    /\ UNCHANGED <<mem, hooks, debug, asserted, fault>>

(* The client writes its block. *)
Write(t) ==
    /\ Idle(t) /\ ptr[t] # NULL
    /\ mem' = [mem EXCEPT ![ptr[t]].data = Filled(Len(@), "data")]
    /\ UNCHANGED <<hooks, debug, threadVars, balance, asserted, fault>>

-----------------------------------------------------------------------------
SetStep ==
    \/ \E which \in DOMAIN Choices : \E hook \in Choices[which] : set_hook(which, hook)
    \/ \E installed \in BOOLEAN : set_debug_hook(installed)

ThreadStep(t) ==
    \/ \E alloc \in Maybe(DOMAIN Allocators), size \in Sizes :
          \/ pml_malloc(t, size, alloc)
          \/ \E count \in Counts :
                pml_calloc(t, count, size, alloc) \/ pml_emulate_calloc(t, count, size, alloc)
          \/ pml_realloc(t, size, alloc) \/ pml_emulate_realloc(t, size, alloc)
    \/ \E alloc \in DOMAIN Allocators : MissingHook(t, alloc)
    \/ pml_free(t)
    \/ Write(t)
    \/ EmulationFrees(t) \/ EmulationReports(t) \/ ReportAndReturn(t)

Next == SetStep \/ \E t \in Threads : ThreadStep(t)

Spec == Init /\ [][Next]_vars

=============================================================================
