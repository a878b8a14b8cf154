----------------------------- MODULE NewProofs ------------------------------
(***************************************************************************)
(* What holds of pml_new and pml_delete for any threads, addresses,        *)
(* classes, allocators and sizes.                                          *)
(***************************************************************************)
EXTENDS NewProps, FiniteSetTheorems, TLAPS

(* The parts of a block. *)
LEMMA BlockFacts ==
    ASSUME TypeOK, NEW a \in Blocks
    PROVE  /\ a \in Addr /\ mem[a] \in Block /\ a # NULL
           /\ mem[a].objs \in Seq(Object) /\ mem[a].front \in Maybe(Nat) /\ mem[a].room \in Int
           /\ \A k \in Elements(a) : /\ ObjectAt(a, k) \in Object
                                     /\ ObjectAt(a, k).member \in Maybe(Addr)
                                     /\ ObjectAt(a, k).told \in Maybe(Allocators) \cup {Untold}
<1>1. mem[a] \in Block /\ a \in Addr /\ a # NULL
  BY NewAssumption DEF TypeOK, Blocks, Maybe
<1>2. mem[a].objs \in Seq(Object) /\ mem[a].front \in Maybe(Nat) /\ mem[a].room \in Int
  BY <1>1 DEF Block
<1>3. ASSUME NEW k \in Elements(a)
      PROVE  /\ ObjectAt(a, k) \in Object /\ ObjectAt(a, k).member \in Maybe(Addr)
             /\ ObjectAt(a, k).told \in Maybe(Allocators) \cup {Untold}
  <2>1. ObjectAt(a, k) \in Object
    BY <1>2 DEF Elements, ObjectAt
  <2> QED
    BY <2>1 DEF Object
<1> QED
  BY <1>1, <1>2, <1>3

(* The innermost call of a thread. *)
LEMMA TopFacts ==
    ASSUME TypeOK, NEW t \in Threads, stack[t] # <<>>
    PROVE  /\ stack[t] \in Seq(Frame) /\ Len(stack[t]) \in Nat \ {0}
           /\ DOMAIN stack[t] = 1..Len(stack[t]) /\ Len(stack[t]) \in DOMAIN stack[t]
           /\ Top(t) = stack[t][Len(stack[t])] /\ Top(t) \in Frame
           /\ Top(t).at \in Maybe(Addr) /\ Top(t).via \in Maybe(Allocators)
           /\ Top(t).count \in Nat /\ Top(t).i \in Nat
<1>1. stack[t] \in Seq(Frame)
  BY DEF TypeOK
<1>2. Len(stack[t]) \in Nat \ {0} /\ DOMAIN stack[t] = 1..Len(stack[t]) /\ Len(stack[t]) \in DOMAIN stack[t]
  BY <1>1
<1>3. Top(t) \in Frame
  BY <1>1, <1>2 DEF Top
<1> QED
  BY <1>1, <1>2, <1>3 DEF Top, Frame

(* The innermost call goes on, is the last of one more, or returns. *)
LEMMA BecomesFacts ==
    ASSUME TypeOK, NEW t \in Threads, stack[t] # <<>>, NEW frame \in Frame
    PROVE  /\ Becomes(t, frame) \in [Threads -> Seq(Frame)]
           /\ \A u \in Threads \ {t} : Becomes(t, frame)[u] = stack[u]
           /\ Len(Becomes(t, frame)[t]) = Len(stack[t])
           /\ DOMAIN Becomes(t, frame)[t] = DOMAIN stack[t]
           /\ Becomes(t, frame)[t][Len(stack[t])] = frame
           /\ \A d \in DOMAIN stack[t] : d # Len(stack[t]) => Becomes(t, frame)[t][d] = stack[t][d]
<1> DEFINE s == stack[t]
           b == SubSeq(s, 1, Len(s) - 1)
<1>1. s \in Seq(Frame) /\ Len(s) \in Nat \ {0} /\ DOMAIN s = 1..Len(s)
  BY TopFacts
<1>2. /\ b \in Seq(Frame) /\ Len(b) = Len(s) - 1
      /\ \A d \in 1..(Len(s) - 1) : b[d] = s[d]
  BY <1>1
<1>3. /\ Append(b, frame) \in Seq(Frame) /\ Len(Append(b, frame)) = Len(s)
      /\ Append(b, frame)[Len(s)] = frame
      /\ \A d \in 1..(Len(s) - 1) : Append(b, frame)[d] = s[d]
  BY <1>1, <1>2
<1>4. Becomes(t, frame) = [stack EXCEPT ![t] = Append(b, frame)]
  BY DEF Becomes, Below
<1>5. DOMAIN Append(b, frame) = 1..Len(s) /\ \A d \in DOMAIN s : d # Len(s) => d \in 1..(Len(s) - 1)
  BY <1>1, <1>3
<1> QED
  BY <1>1, <1>3, <1>4, <1>5 DEF TypeOK

LEMMA CalledFacts ==
    ASSUME TypeOK, NEW t \in Threads, NEW frame \in Frame
    PROVE  /\ Called(t, frame) \in [Threads -> Seq(Frame)]
           /\ \A u \in Threads \ {t} : Called(t, frame)[u] = stack[u]
           /\ Len(Called(t, frame)[t]) = Len(stack[t]) + 1
           /\ DOMAIN Called(t, frame)[t] = DOMAIN stack[t] \cup {Len(stack[t]) + 1}
           /\ Called(t, frame)[t][Len(stack[t]) + 1] = frame
           /\ \A d \in DOMAIN stack[t] : Called(t, frame)[t][d] = stack[t][d]
<1>1. stack[t] \in Seq(Frame)
  BY DEF TypeOK
<1>2. /\ Append(stack[t], frame) \in Seq(Frame)
      /\ Len(Append(stack[t], frame)) = Len(stack[t]) + 1
      /\ Append(stack[t], frame)[Len(stack[t]) + 1] = frame
      /\ \A d \in DOMAIN stack[t] : Append(stack[t], frame)[d] = stack[t][d]
      /\ DOMAIN Append(stack[t], frame) = DOMAIN stack[t] \cup {Len(stack[t]) + 1}
  BY <1>1
<1> QED
  BY <1>2 DEF Called, TypeOK

LEMMA ReturnedFacts ==
    ASSUME TypeOK, NEW t \in Threads, stack[t] # <<>>
    PROVE  /\ Returned(t) \in [Threads -> Seq(Frame)]
           /\ \A u \in Threads \ {t} : Returned(t)[u] = stack[u]
           /\ Len(Returned(t)[t]) = Len(stack[t]) - 1
           /\ DOMAIN Returned(t)[t] = DOMAIN stack[t] \ {Len(stack[t])}
           /\ \A d \in DOMAIN Returned(t)[t] : Returned(t)[t][d] = stack[t][d]
<1> DEFINE s == stack[t]
           b == SubSeq(s, 1, Len(s) - 1)
<1>1. s \in Seq(Frame) /\ Len(s) \in Nat \ {0} /\ DOMAIN s = 1..Len(s)
  BY TopFacts
<1>2. /\ b \in Seq(Frame) /\ Len(b) = Len(s) - 1
      /\ \A d \in 1..(Len(s) - 1) : b[d] = s[d]
  BY <1>1
<1>3. DOMAIN b = DOMAIN s \ {Len(s)} /\ \A d \in DOMAIN b : d \in 1..(Len(s) - 1)
  BY <1>1, <1>2
<1>4. Returned(t) = [stack EXCEPT ![t] = b]
  BY DEF Returned, Below
<1> QED
  BY <1>1, <1>2, <1>3, <1>4 DEF TypeOK

LEMMA ReturnedLeaves ==
    ASSUME TypeOK, NEW t \in Threads, stack[t] # <<>>, stack' = Returned(t)
    PROVE  /\ stack' \in [Threads -> Seq(Frame)] /\ Len(stack[t]) \notin DOMAIN stack'[t]
           /\ \A u \in Threads : /\ DOMAIN stack'[u] \subseteq DOMAIN stack[u]
                                  /\ \A d \in DOMAIN stack'[u] : stack'[u][d] = stack[u][d]
<1>1. stack' \in [Threads -> Seq(Frame)] /\ DOMAIN stack'[t] = DOMAIN stack[t] \ {Len(stack[t])}
  BY ReturnedFacts
<1>2. ASSUME NEW u \in Threads
      PROVE  /\ DOMAIN stack'[u] \subseteq DOMAIN stack[u]
             /\ \A d \in DOMAIN stack'[u] : stack'[u][d] = stack[u][d]
  <2>1. CASE u = t
    BY <1>1, <2>1, ReturnedFacts
  <2>2. CASE u # t
    <3>1. stack'[u] = stack[u]
      BY <2>2, ReturnedFacts
    <3> QED
      BY <3>1
  <2> QED
    BY <2>1, <2>2
<1> QED
  BY <1>1, <1>2

(* Changing one element of a block. *)
LEMMA SetObjectFacts ==
    ASSUME TypeOK, NEW a \in Blocks, NEW k \in Int, NEW obj, k \in Elements(a) => obj \in Object
    PROVE  /\ SetObject(a, k, obj) \in [Addr -> Maybe(Block)]
           /\ \A b \in Addr \ {a} : SetObject(a, k, obj)[b] = mem[b]
           /\ SetObject(a, k, obj)[a] # NULL
           /\ DOMAIN SetObject(a, k, obj)[a].objs = Elements(a)
           /\ k \in Elements(a) => SetObject(a, k, obj)[a].objs[k] = obj
           /\ \A l \in Elements(a) : l # k => SetObject(a, k, obj)[a].objs[l] = ObjectAt(a, l)
<1> DEFINE new == [mem[a] EXCEPT !.objs = [mem[a].objs EXCEPT ![k] = obj]]
<1>1. a \in Addr /\ mem[a] \in Block /\ mem[a].objs \in Seq(Object)
  BY BlockFacts
<1>2. [mem[a].objs EXCEPT ![k] = obj] \in Seq(Object)
  <2>1. mem[a].objs \in [1..Len(mem[a].objs) -> Object] /\ Len(mem[a].objs) \in Nat
    BY <1>1
  <2>2. [mem[a].objs EXCEPT ![k] = obj] \in [1..Len(mem[a].objs) -> Object]
    BY <2>1 DEF Elements
  <2> QED
    BY <2>1, <2>2
<1>3. new \in Block /\ new.objs = [mem[a].objs EXCEPT ![k] = obj]
  BY <1>1, <1>2 DEF Block
<1>4. SetObject(a, k, obj) = [mem EXCEPT ![a] = new]
  BY <1>1 DEF SetObject
<1>5. mem \in [Addr -> Maybe(Block)] /\ NULL \notin Block
  BY NewAssumption DEF TypeOK
<1>6. /\ DOMAIN new.objs = Elements(a) /\ (k \in Elements(a) => new.objs[k] = obj)
      /\ \A l \in Elements(a) : l # k => new.objs[l] = ObjectAt(a, l)
  BY <1>1, <1>3 DEF Elements, ObjectAt
<1>7. SetObject(a, k, obj)[a] = new /\ new # NULL
  BY <1>1, <1>3, <1>4, <1>5
<1> QED
  BY <1>1, <1>3, <1>4, <1>5, <1>6, <1>7 DEF Maybe

-----------------------------------------------------------------------------
(* What the steps do to the invariant, apart from where they stand.        *)

(* A step that changes no member, and takes back no allocator told. *)
MembersKept ==
    /\ mem' \in [Addr -> Maybe(Block)] /\ Blocks' = Blocks
    /\ \A b \in Blocks : /\ DOMAIN mem'[b].objs = Elements(b)
                         /\ \A k \in Elements(b) :
                               /\ mem'[b].objs[k].member = ObjectAt(b, k).member
                               /\ ObjectAt(b, k).told # Untold => mem'[b].objs[k].told # Untold

LEMMA SetObjectKeepsMembers ==
    ASSUME TypeOK, NEW a \in Blocks, NEW k \in Int, NEW obj, mem' = SetObject(a, k, obj),
           k \in Elements(a) => obj \in Object,
           k \in Elements(a) => obj.member = ObjectAt(a, k).member,
           k \in Elements(a) /\ ObjectAt(a, k).told # Untold => obj.told # Untold
    PROVE  MembersKept
<1>1. a \in Addr
  BY BlockFacts
<1>2. /\ mem' \in [Addr -> Maybe(Block)]
      /\ \A b \in Addr \ {a} : mem'[b] = mem[b]
      /\ mem'[a] # NULL /\ DOMAIN mem'[a].objs = Elements(a)
      /\ k \in Elements(a) => mem'[a].objs[k] = obj
      /\ \A l \in Elements(a) : l # k => mem'[a].objs[l] = ObjectAt(a, l)
  BY SetObjectFacts
<1>3. Blocks' = Blocks
  BY <1>1, <1>2 DEF Blocks
<1>4. ASSUME NEW b \in Blocks
      PROVE  /\ DOMAIN mem'[b].objs = Elements(b)
             /\ \A l \in Elements(b) : /\ mem'[b].objs[l].member = ObjectAt(b, l).member
                                       /\ ObjectAt(b, l).told # Untold => mem'[b].objs[l].told # Untold
  <2>1. CASE b = a
    <3>1. DOMAIN mem'[a].objs = Elements(a)
      BY <1>2
    <3>2. ASSUME NEW l \in Elements(a)
          PROVE  /\ mem'[a].objs[l].member = ObjectAt(a, l).member
                 /\ ObjectAt(a, l).told # Untold => mem'[a].objs[l].told # Untold
      <4>1. CASE l = k
        BY <1>2, <4>1
      <4>2. CASE l # k
        BY <1>2, <4>2
      <4> QED
        BY <4>1, <4>2
    <3> QED
      BY <2>1, <3>1, <3>2
  <2>2. CASE b # a
    BY <1>2, <2>2 DEF Elements, ObjectAt, Blocks
  <2> QED
    BY <2>1, <2>2
<1> QED
  BY <1>2, <1>3, <1>4 DEF MembersKept

(* No other owner has the block of a call. *)
LEMMA CallAlone ==
    ASSUME OneOwner, NEW t \in Threads, NEW d \in DOMAIN stack[t], stack[t][d].at # NULL
    PROVE  /\ \A p \in owned : p.at # stack[t][d].at
           /\ \A u \in Threads : \A e \in DOMAIN stack[u] :
                 stack[u][e].at = stack[t][d].at => u = t /\ e = d
           /\ \A b \in Blocks : \A k \in Elements(b) : ObjectAt(b, k).member # stack[t][d].at
BY DEF OneOwner

(* The innermost call goes on, with the block it has; what the debug hook  *)
(* heard of that block is what it should have by then.                     *)
LEMMA AdvanceKeeps ==
    ASSUME NewInvariant, NEW t \in Threads, stack[t] # <<>>, NEW frame \in Frame,
           frame.at = Top(t).at, frame.op = Top(t).op, Shape(frame),
           stack' = Becomes(t, frame), owned' = owned, MembersKept,
           tally' \in [Addr -> Int], objects' \in Int,
           \A a \in Addr : tally'[a] = IF a = Top(t).at THEN Due(frame) ELSE tally[a],
           checked' = checked, asserted' \in BOOLEAN, fault' \in Fault \cup {"none"}
    PROVE  NewInvariant'
<1> USE DEF NewInvariant
<1> DEFINE n == Len(stack[t])
<1>1. /\ n \in DOMAIN stack[t] /\ n \in Nat /\ Top(t) = stack[t][n] /\ DOMAIN stack[t] = 1..n
      /\ frame.at \in Maybe(Addr)
  BY TopFacts
<1>2. /\ stack' \in [Threads -> Seq(Frame)]
      /\ \A u \in Threads \ {t} : stack'[u] = stack[u]
      /\ Len(stack'[t]) = n /\ DOMAIN stack'[t] = DOMAIN stack[t] /\ stack'[t][n] = frame
      /\ \A d \in DOMAIN stack[t] : d # n => stack'[t][d] = stack[t][d]
  BY BecomesFacts
<1>3. /\ \A u \in Threads : DOMAIN stack'[u] = DOMAIN stack[u] /\ Len(stack'[u]) = Len(stack[u])
      /\ \A u \in Threads : \A d \in DOMAIN stack[u] :
            stack'[u][d].at = stack[u][d].at /\ stack'[u][d].op = stack[u][d].op
      /\ \A u \in Threads : \A d \in DOMAIN stack[u] :
            (u = t /\ d = n) \/ stack'[u][d] = stack[u][d]
  BY <1>1, <1>2
<1>4. TypeOK'
  BY <1>2 DEF TypeOK, MembersKept
<1>5. OneOwner'
  <2>1. \A p, q \in owned' : p.at = q.at => p = q
    BY DEF OneOwner
  <2>2. \A u, v \in Threads : \A d \in DOMAIN stack'[u], e \in DOMAIN stack'[v] :
           stack'[u][d].at # NULL /\ stack'[u][d].at = stack'[v][e].at => u = v /\ d = e
    BY <1>3 DEF OneOwner
  <2>3. \A b, c \in Blocks' : \A k \in DOMAIN mem'[b].objs, l \in DOMAIN mem'[c].objs :
           mem'[b].objs[k].member # NULL /\ mem'[b].objs[k].member = mem'[c].objs[l].member => b = c /\ k = l
    BY DEF OneOwner, MembersKept
  <2>4. \A p \in owned', u \in Threads : \A d \in DOMAIN stack'[u] : stack'[u][d].at # p.at
    BY <1>3 DEF OneOwner
  <2>5. \A p \in owned', b \in Blocks' : \A k \in DOMAIN mem'[b].objs : mem'[b].objs[k].member # p.at
    BY DEF OneOwner, MembersKept
  <2>6. \A u \in Threads, b \in Blocks' : \A d \in DOMAIN stack'[u], k \in DOMAIN mem'[b].objs :
           stack'[u][d].at # NULL => mem'[b].objs[k].member # stack'[u][d].at
    BY <1>3 DEF OneOwner, MembersKept
  <2> QED
    BY <2>1, <2>2, <2>3, <2>4, <2>5, <2>6 DEF OneOwner, ObjectAt, Elements
<1>6. Shapes'
  BY <1>2, <1>3 DEF Shapes, Shape, Headed
<1>7. Accounts'
  <2>1. Top(t).at # NULL => /\ \A p \in owned : p.at # Top(t).at
                            /\ \A u \in Threads : \A e \in DOMAIN stack[u] :
                                  stack[u][e].at = Top(t).at => u = t /\ e = n
                            /\ \A b \in Blocks : \A k \in Elements(b) : ObjectAt(b, k).member # Top(t).at
                            /\ Top(t).at \in Blocks
    BY <1>1, CallAlone DEF Accounts
  <2>2. Due(frame) \in {0, 1}
    BY DEF Due
  <2>3. \A a \in Addr : tally'[a] \in {0, 1} /\ (a \notin Blocks' => tally'[a] = 0)
    BY <2>1, <2>2, NewAssumption DEF Accounts, MembersKept
  <2>4. \A p \in owned' : p.at \in Blocks' /\ tally'[p.at] = 1
    <3> SUFFICES ASSUME NEW p \in owned PROVE p.at \in Blocks /\ tally'[p.at] = 1
      BY DEF MembersKept
    <3>1. p.at \in Blocks /\ p.at \in Addr /\ tally[p.at] = 1
      BY DEF Accounts, Blocks
    <3>2. p.at # NULL
      BY <3>1, NewAssumption
    <3> QED
      BY <2>1, <3>1, <3>2
  <2>5. ASSUME NEW u \in Threads, NEW d \in DOMAIN stack'[u], stack'[u][d].at # NULL
        PROVE  stack'[u][d].at \in Blocks' /\ tally'[stack'[u][d].at] = Due(stack'[u][d])
    <3>1. stack[u][d].at \in Blocks /\ stack[u][d].at \in Addr /\ tally[stack[u][d].at] = Due(stack[u][d])
      BY <1>3, <2>5 DEF Accounts, Blocks
    <3>2. CASE u = t /\ d = n
      BY <1>1, <1>2, <3>1, <3>2 DEF MembersKept
    <3>3. CASE ~(u = t /\ d = n)
      <4>1. stack[u][d].at # Top(t).at
        BY <1>3, <2>1, <2>5, <3>3
      <4> QED
        BY <1>3, <3>1, <3>3, <4>1 DEF MembersKept
    <3> QED
      BY <3>2, <3>3
  <2>6. ASSUME NEW b \in Blocks, NEW k \in Elements(b), ObjectAt(b, k).member # NULL
        PROVE  ObjectAt(b, k).member \in Blocks /\ tally'[ObjectAt(b, k).member] = 1
    <3>1. ObjectAt(b, k).member \in Blocks /\ ObjectAt(b, k).member \in Addr /\ tally[ObjectAt(b, k).member] = 1
      BY <2>6 DEF Accounts, Blocks
    <3>2. ObjectAt(b, k).member # Top(t).at
      BY <2>1, <2>6
    <3> QED
      BY <3>1, <3>2
  <2>7. \A b \in Blocks' : \A k \in DOMAIN mem'[b].objs :
           LET a == mem'[b].objs[k].member IN a # NULL => a \in Blocks' /\ tally'[a] = 1
    BY <2>6 DEF MembersKept
  <2> QED
    BY <2>3, <2>4, <2>5, <2>7 DEF Accounts, ObjectAt, Elements
<1>8. MembersTold'
  <2>1. \A b \in Blocks' : \A k \in DOMAIN mem'[b].objs :
           mem'[b].objs[k].member # NULL => mem'[b].objs[k].told # Untold
    BY DEF MembersTold, MembersKept
  <2>2. ASSUME NEW u \in Threads, NEW d \in DOMAIN stack'[u], d < Len(stack'[u]),
               stack'[u][d + 1].op \in {"new", "newa"}, stack'[u][d].at # NULL,
               stack'[u][d].i + 1 \in DOMAIN mem'[stack'[u][d].at].objs
        PROVE  mem'[stack'[u][d].at].objs[stack'[u][d].i + 1].told # Untold
    <3>1. d \in DOMAIN stack[u] /\ d < Len(stack[u])
      BY <1>3, <2>2
    <3>2. d + 1 \in DOMAIN stack[u] /\ stack'[u][d] = stack[u][d]
      <4>1. stack[u] \in Seq(Frame)
        BY DEF TypeOK
      <4> QED
        BY <1>1, <1>3, <3>1, <4>1
    <3>3. stack[u][d + 1].op \in {"new", "newa"} /\ stack[u][d].at \in Blocks
      BY <1>3, <2>2, <3>1, <3>2 DEF Accounts
    <3>4. stack[u][d].i + 1 \in Elements(stack[u][d].at)
      BY <2>2, <3>2, <3>3 DEF MembersKept
    <3>5. ObjectAt(stack[u][d].at, stack[u][d].i + 1).told # Untold
      BY <2>2, <3>1, <3>2, <3>3, <3>4 DEF MembersTold
    <3> QED
      BY <3>2, <3>3, <3>4, <3>5 DEF MembersKept
  <2>3. (\A b \in Blocks : \A k \in Elements(b) :
           ObjectAt(b, k).member # NULL => ObjectAt(b, k).told # Untold)'
    BY <2>1 DEF ObjectAt, Elements
  <2>4. (\A u \in Threads : \A d \in DOMAIN stack[u] :
           /\ d < Len(stack[u]) /\ stack[u][d + 1].op \in {"new", "newa"}
           /\ stack[u][d].at # NULL /\ stack[u][d].i + 1 \in Elements(stack[u][d].at)
           => ObjectAt(stack[u][d].at, stack[u][d].i + 1).told # Untold)'
    BY <2>2 DEF ObjectAt, Elements
  <2> QED
    BY <2>3, <2>4 DEF MembersTold
<1> QED
  BY <1>4, <1>5, <1>6, <1>7, <1>8

(* A call within the innermost one, which takes over the block it is about *)
(* from whoever had it; or nobody had it.                                  *)
LEMMA CallKeeps ==
    ASSUME NewInvariant, NEW t \in Threads, NEW frame \in Frame, Shape(frame),
           stack' = Called(t, frame), owned' \subseteq owned,
           mem' \in [Addr -> Maybe(Block)], Blocks' = Blocks \cup ({frame.at} \ {NULL}),
           \A b \in Blocks' : \A k \in DOMAIN mem'[b].objs :
              \/ mem'[b].objs[k].member = NULL /\ b \notin Blocks
              \/ /\ b \in Blocks /\ k \in Elements(b)
                 /\ mem'[b].objs[k].member \in {NULL, ObjectAt(b, k).member}
                 /\ ObjectAt(b, k).told # Untold => mem'[b].objs[k].told # Untold,
           UNCHANGED <<checked, ledger, asserted, fault>>,
           frame.at # NULL =>
              /\ \A p \in owned' : p.at # frame.at
              /\ \A u \in Threads : \A e \in DOMAIN stack[u] : stack[u][e].at # frame.at
              /\ \A b \in Blocks' : \A k \in DOMAIN mem'[b].objs : mem'[b].objs[k].member # frame.at
              /\ tally[frame.at] = Due(frame),
           stack[t] # <<>> /\ frame.op \in {"new", "newa"} =>
              (Top(t).at # NULL /\ Top(t).i + 1 \in Elements(Top(t).at)
                  => ObjectAt(Top(t).at, Top(t).i + 1).told # Untold)
    PROVE  NewInvariant'
<1> USE DEF NewInvariant
<1> DEFINE n == Len(stack[t])
<1>1. /\ stack' \in [Threads -> Seq(Frame)]
      /\ \A u \in Threads \ {t} : stack'[u] = stack[u]
      /\ Len(stack'[t]) = n + 1 /\ DOMAIN stack'[t] = DOMAIN stack[t] \cup {n + 1}
      /\ stack'[t][n + 1] = frame
      /\ \A d \in DOMAIN stack[t] : stack'[t][d] = stack[t][d]
  BY CalledFacts
<1>2. \A u \in Threads : \A d \in DOMAIN stack'[u] :
         \/ d \in DOMAIN stack[u] /\ stack'[u][d] = stack[u][d]
         \/ u = t /\ d = n + 1 /\ stack'[u][d] = frame
  BY <1>1
<1>3. UNCHANGED <<checked, tally, objects, asserted, fault>>
  BY DEF ledger
<1>4. TypeOK'
  BY <1>1, <1>3 DEF TypeOK
<1>5. Shapes'
  BY <1>2, <1>3 DEF Shapes, Shape, Headed
<1>6. OneOwner'
  <2>1. \A p, q \in owned' : p.at = q.at => p = q
    BY DEF OneOwner
  <2>2. \A u, v \in Threads : \A d \in DOMAIN stack'[u], e \in DOMAIN stack'[v] :
           stack'[u][d].at # NULL /\ stack'[u][d].at = stack'[v][e].at => u = v /\ d = e
    BY <1>2 DEF OneOwner
  <2>3. \A b, c \in Blocks' : \A k \in DOMAIN mem'[b].objs, l \in DOMAIN mem'[c].objs :
           mem'[b].objs[k].member # NULL /\ mem'[b].objs[k].member = mem'[c].objs[l].member => b = c /\ k = l
    BY DEF OneOwner
  <2>4. \A p \in owned', u \in Threads : \A d \in DOMAIN stack'[u] : stack'[u][d].at # p.at
    <3> SUFFICES ASSUME NEW p \in owned', NEW u \in Threads, NEW d \in DOMAIN stack'[u]
                 PROVE  stack'[u][d].at # p.at
      OBVIOUS
    <3>1. p \in owned /\ p.at \in Addr /\ p.at # NULL
      BY NewAssumption DEF TypeOK, Pointer
    <3> QED
      BY <1>2, <3>1 DEF OneOwner
  <2>5. \A p \in owned', b \in Blocks' : \A k \in DOMAIN mem'[b].objs : mem'[b].objs[k].member # p.at
    <3> SUFFICES ASSUME NEW p \in owned', NEW b \in Blocks', NEW k \in DOMAIN mem'[b].objs
                 PROVE  mem'[b].objs[k].member # p.at
      OBVIOUS
    <3>1. p \in owned /\ p.at \in Addr /\ p.at # NULL
      BY NewAssumption DEF TypeOK, Pointer
    <3> QED
      BY <3>1 DEF OneOwner
  <2>6. \A u \in Threads, b \in Blocks' : \A d \in DOMAIN stack'[u], k \in DOMAIN mem'[b].objs :
           stack'[u][d].at # NULL => mem'[b].objs[k].member # stack'[u][d].at
    <3> SUFFICES ASSUME NEW u \in Threads, NEW b \in Blocks', NEW d \in DOMAIN stack'[u],
                        NEW k \in DOMAIN mem'[b].objs, stack'[u][d].at # NULL
                 PROVE  mem'[b].objs[k].member # stack'[u][d].at
      OBVIOUS
    <3>1. CASE d \in DOMAIN stack[u] /\ stack'[u][d] = stack[u][d]
      BY <3>1 DEF OneOwner
    <3>2. CASE stack'[u][d] = frame
      BY <3>2
    <3> QED
      BY <1>2, <3>1, <3>2
  <2> QED
    BY <2>1, <2>2, <2>3, <2>4, <2>5, <2>6 DEF OneOwner, ObjectAt, Elements
<1>7. Accounts'
  <2>1. \A a \in Addr : tally'[a] \in {0, 1} /\ (a \notin Blocks' => tally'[a] = 0)
    BY <1>3 DEF Accounts
  <2>2. \A p \in owned' : p.at \in Blocks' /\ tally'[p.at] = 1
    BY <1>3 DEF Accounts
  <2>3. \A u \in Threads : \A d \in DOMAIN stack'[u] :
           stack'[u][d].at # NULL => stack'[u][d].at \in Blocks' /\ tally'[stack'[u][d].at] = Due(stack'[u][d])
    BY <1>2, <1>3 DEF Accounts
  <2>4. \A b \in Blocks' : \A k \in DOMAIN mem'[b].objs :
           LET a == mem'[b].objs[k].member IN a # NULL => a \in Blocks' /\ tally'[a] = 1
    BY <1>3 DEF Accounts
  <2> QED
    BY <2>1, <2>2, <2>3, <2>4 DEF Accounts, ObjectAt, Elements
<1>8. MembersTold'
  <2>1. \A b \in Blocks' : \A k \in DOMAIN mem'[b].objs :
           mem'[b].objs[k].member # NULL => mem'[b].objs[k].told # Untold
    BY DEF MembersTold
  <2>2. ASSUME NEW u \in Threads, NEW d \in DOMAIN stack'[u], d < Len(stack'[u]),
               stack'[u][d + 1].op \in {"new", "newa"}, stack'[u][d].at # NULL,
               stack'[u][d].i + 1 \in DOMAIN mem'[stack'[u][d].at].objs
        PROVE  mem'[stack'[u][d].at].objs[stack'[u][d].i + 1].told # Untold
    <3>1. stack[u] \in Seq(Frame) /\ stack'[u] \in Seq(Frame) /\ Len(stack[u]) \in Nat
      BY <1>1 DEF TypeOK
    <3>2. d \in DOMAIN stack[u] /\ stack'[u][d] = stack[u][d]
      BY <1>1, <1>2, <2>2, <3>1
    <3>3. stack[u][d].at \in Blocks /\ stack[u][d].at \in Blocks'
      BY <2>2, <3>2 DEF Accounts
    <3>4. stack[u][d].i + 1 \in Elements(stack[u][d].at)
      BY <2>2, <3>2, <3>3
    <3>5. ObjectAt(stack[u][d].at, stack[u][d].i + 1).told # Untold
      <4>1. CASE d < Len(stack[u])
        <5>1. d + 1 \in DOMAIN stack[u] /\ stack'[u][d + 1] = stack[u][d + 1]
          BY <1>1, <3>1, <3>2, <4>1
        <5> QED
          BY <2>2, <3>2, <3>4, <4>1, <5>1 DEF MembersTold
      <4>2. CASE ~(d < Len(stack[u]))
        <5>1. u = t /\ d = n /\ stack[t] # <<>>
          BY <1>1, <2>2, <3>1, <3>2, <4>2
        <5>2. Top(t) = stack[u][d] /\ frame.op \in {"new", "newa"}
          BY <1>1, <2>2, <5>1 DEF Top
        <5> QED
          BY <2>2, <3>2, <3>4, <5>1, <5>2
      <4> QED
        BY <4>1, <4>2
    <3> QED
      BY <2>2, <3>2, <3>3, <3>4, <3>5, SMTT(20)
  <2>3. (\A b \in Blocks : \A k \in Elements(b) :
           ObjectAt(b, k).member # NULL => ObjectAt(b, k).told # Untold)'
    BY <2>1 DEF ObjectAt, Elements
  <2>4. (\A u \in Threads : \A d \in DOMAIN stack[u] :
           /\ d < Len(stack[u]) /\ stack[u][d + 1].op \in {"new", "newa"}
           /\ stack[u][d].at # NULL /\ stack[u][d].i + 1 \in Elements(stack[u][d].at)
           => ObjectAt(stack[u][d].at, stack[u][d].i + 1).told # Untold)'
    BY <2>2 DEF ObjectAt, Elements
  <2> QED
    BY <2>3, <2>4 DEF MembersTold
<1> QED
  BY <1>4, <1>5, <1>6, <1>7, <1>8

(* The innermost call ends, or all calls of the thread do: the block of    *)
(* the innermost passes to the client, or to an object, is freed, or is    *)
(* left behind.                                                            *)
Ends(t, a) ==
    /\ stack[t] # <<>> /\ a = Top(t).at
    /\ stack' \in [Threads -> Seq(Frame)] /\ Len(stack[t]) \notin DOMAIN stack'[t]
    /\ \A u \in Threads : /\ DOMAIN stack'[u] \subseteq DOMAIN stack[u]
                           /\ \A d \in DOMAIN stack'[u] : stack'[u][d] = stack[u][d]
    /\ owned' \subseteq Pointer
    /\ \A p \in owned' : p \in owned \/ p.at = a
    /\ \A p, q \in owned' : p.at = a /\ q.at = a => p = q
    /\ mem' \in [Addr -> Maybe(Block)] /\ Blocks' \subseteq Blocks /\ Blocks \subseteq Blocks' \cup {a}
    /\ \A b \in Blocks' :
          /\ DOMAIN mem'[b].objs = Elements(b)
          /\ \A k \in Elements(b) :
                /\ \/ mem'[b].objs[k].member = ObjectAt(b, k).member
                   \/ mem'[b].objs[k].member = a /\ ObjectAt(b, k).told # Untold
                /\ ObjectAt(b, k).told # Untold => mem'[b].objs[k].told # Untold
    /\ a # NULL =>
          /\ \A b, c \in Blocks' : \A k \in DOMAIN mem'[b].objs, l \in DOMAIN mem'[c].objs :
                mem'[b].objs[k].member = a /\ mem'[c].objs[l].member = a => b = c /\ k = l
          /\ \A p \in owned', b \in Blocks' : \A k \in DOMAIN mem'[b].objs :
                ~(p.at = a /\ mem'[b].objs[k].member = a)
          /\ tally'[a] \in {0, 1} /\ (a \notin Blocks' => tally'[a] = 0)
          /\ \/ \E p \in owned' : p.at = a
             \/ \E b \in Blocks' : \E k \in DOMAIN mem'[b].objs : mem'[b].objs[k].member = a
             => a \in Blocks' /\ tally'[a] = 1
    /\ tally' \in [Addr -> Int] /\ objects' \in Int
    /\ \A b \in Addr \ {a} : tally'[b] = tally[b]
    /\ UNCHANGED <<checked, asserted, fault>>

LEMMA ReturnKeeps ==
    ASSUME NewInvariant, NEW t \in Threads, NEW a, Ends(t, a)
    PROVE  NewInvariant'
<1> USE DEF NewInvariant, Ends
<1> DEFINE n == Len(stack[t])
<1>1. n \in DOMAIN stack[t] /\ Top(t) = stack[t][n] /\ a \in Maybe(Addr)
  BY TopFacts
<1>2. a # NULL => /\ \A p \in owned : p.at # a
                  /\ \A u \in Threads : \A e \in DOMAIN stack[u] : stack[u][e].at = a => u = t /\ e = n
                  /\ \A b \in Blocks : \A k \in Elements(b) : ObjectAt(b, k).member # a
                  /\ a \in Blocks
  BY <1>1, CallAlone DEF Accounts
<1>3. a # NULL => \A u \in Threads : \A d \in DOMAIN stack'[u] : stack'[u][d].at # a
  BY <1>2
<1>4. \A p \in owned' : p.at # NULL
  BY NewAssumption DEF Pointer
<1>5. \A b \in Blocks' : \A k \in DOMAIN mem'[b].objs :
         /\ b \in Blocks /\ k \in Elements(b)
         /\ \/ mem'[b].objs[k].member = ObjectAt(b, k).member
            \/ mem'[b].objs[k].member = a
  OBVIOUS
<1>6. TypeOK'
  BY DEF TypeOK
<1>7. Shapes'
  BY DEF Shapes, Shape, Headed
<1>8. OneOwner'
  <2>1. \A p, q \in owned' : p.at = q.at => p = q
    BY <1>2, <1>4 DEF OneOwner
  <2>2. ASSUME NEW u \in Threads, NEW v \in Threads, NEW d \in DOMAIN stack'[u], NEW e \in DOMAIN stack'[v],
               stack'[u][d].at # NULL, stack'[u][d].at = stack'[v][e].at
        PROVE  u = v /\ d = e
    <3>1. /\ d \in DOMAIN stack[u] /\ stack'[u][d] = stack[u][d]
          /\ e \in DOMAIN stack[v] /\ stack'[v][e] = stack[v][e]
      OBVIOUS
    <3> QED
      BY <2>2, <3>1 DEF OneOwner
  <2>3. ASSUME NEW b \in Blocks', NEW c \in Blocks', NEW k \in DOMAIN mem'[b].objs,
               NEW l \in DOMAIN mem'[c].objs, mem'[b].objs[k].member # NULL,
               mem'[b].objs[k].member = mem'[c].objs[l].member
        PROVE  b = c /\ k = l
    <3>1. CASE mem'[b].objs[k].member = a
      <4>1. a # NULL /\ mem'[c].objs[l].member = a
        BY <2>3, <3>1
      <4> QED
        BY <3>1, <4>1
    <3>2. CASE mem'[b].objs[k].member # a
      <4>1. /\ b \in Blocks /\ k \in Elements(b) /\ c \in Blocks /\ l \in Elements(c)
            /\ ObjectAt(b, k).member # NULL /\ ObjectAt(b, k).member = ObjectAt(c, l).member
        BY <1>5, <2>3, <3>2
      <4> QED
        BY <4>1 DEF OneOwner
    <3> QED
      BY <3>1, <3>2
  <2>4. ASSUME NEW p \in owned', NEW u \in Threads, NEW d \in DOMAIN stack'[u]
        PROVE  stack'[u][d].at # p.at
    <3>1. CASE p.at = a
      BY <1>3, <1>4, <3>1
    <3>2. CASE p.at # a
      <4>1. p \in owned /\ d \in DOMAIN stack[u] /\ stack'[u][d] = stack[u][d]
        BY <3>2
      <4> QED
        BY <4>1 DEF OneOwner
    <3> QED
      BY <3>1, <3>2
  <2>5. ASSUME NEW p \in owned', NEW b \in Blocks', NEW k \in DOMAIN mem'[b].objs
        PROVE  mem'[b].objs[k].member # p.at
    <3>1. CASE p.at = a
      BY <1>4, <3>1
    <3>2. CASE p.at # a
      <4>1. p \in owned /\ b \in Blocks /\ k \in Elements(b)
        BY <1>5, <3>2
      <4>2. ObjectAt(b, k).member # p.at
        BY <4>1 DEF OneOwner
      <4> QED
        BY <1>5, <3>2, <4>2
    <3> QED
      BY <3>1, <3>2
  <2>6. ASSUME NEW u \in Threads, NEW b \in Blocks', NEW d \in DOMAIN stack'[u],
               NEW k \in DOMAIN mem'[b].objs, stack'[u][d].at # NULL
        PROVE  mem'[b].objs[k].member # stack'[u][d].at
    <3>1. CASE a = NULL \/ mem'[b].objs[k].member # a
      <4>1. /\ b \in Blocks /\ k \in Elements(b) /\ d \in DOMAIN stack[u]
            /\ stack[u][d].at = stack'[u][d].at
        BY <1>5
      <4>2. ObjectAt(b, k).member # stack'[u][d].at
        BY <2>6, <4>1 DEF OneOwner
      <4> QED
        BY <1>5, <2>6, <3>1, <4>2
    <3>2. CASE a # NULL /\ mem'[b].objs[k].member = a
      BY <1>3, <3>2
    <3> QED
      BY <3>1, <3>2
  <2> QED
    BY <2>1, <2>2, <2>3, <2>4, <2>5, <2>6 DEF OneOwner, ObjectAt, Elements
<1>9. Accounts'
  <2>1. \A b \in Addr : tally'[b] \in {0, 1} /\ (b \notin Blocks' => tally'[b] = 0)
    BY <1>1, NewAssumption DEF Accounts
  <2>2. ASSUME NEW p \in owned' PROVE p.at \in Blocks' /\ tally'[p.at] = 1
    <3>1. CASE p.at = a
      BY <1>4, <3>1
    <3>2. CASE p.at # a
      BY <3>2 DEF Accounts, Blocks
    <3> QED
      BY <3>1, <3>2
  <2>3. ASSUME NEW u \in Threads, NEW d \in DOMAIN stack'[u], stack'[u][d].at # NULL
        PROVE  stack'[u][d].at \in Blocks' /\ tally'[stack'[u][d].at] = Due(stack'[u][d])
    <3>1. stack[u][d].at \in Blocks /\ stack[u][d].at \in Addr /\ tally[stack[u][d].at] = Due(stack[u][d])
      BY <2>3 DEF Accounts, Blocks
    <3>2. stack'[u][d].at # a
      BY <1>3, <2>3
    <3> QED
      BY <3>1, <3>2
  <2>4. ASSUME NEW b \in Blocks', NEW k \in DOMAIN mem'[b].objs, mem'[b].objs[k].member # NULL
        PROVE  mem'[b].objs[k].member \in Blocks' /\ tally'[mem'[b].objs[k].member] = 1
    <3>1. CASE mem'[b].objs[k].member = a
      BY <2>4, <3>1
    <3>2. CASE mem'[b].objs[k].member # a
      <4>1. /\ b \in Blocks /\ k \in Elements(b) /\ mem'[b].objs[k].member = ObjectAt(b, k).member
        BY <1>5, <3>2
      <4>2. ObjectAt(b, k).member \in Blocks /\ ObjectAt(b, k).member \in Addr /\ tally[ObjectAt(b, k).member] = 1
        BY <2>4, <4>1 DEF Accounts, Blocks
      <4> QED
        BY <3>2, <4>1, <4>2
    <3> QED
      BY <3>1, <3>2
  <2> QED
    BY <2>1, <2>2, <2>3, <2>4 DEF Accounts, ObjectAt, Elements
<1>10. MembersTold'
  <2>1. ASSUME NEW b \in Blocks', NEW k \in DOMAIN mem'[b].objs, mem'[b].objs[k].member # NULL
        PROVE  mem'[b].objs[k].told # Untold
    <3>1. b \in Blocks /\ k \in Elements(b)
      BY <1>5
    <3>2. ObjectAt(b, k).told # Untold
      <4>1. CASE mem'[b].objs[k].member = ObjectAt(b, k).member
        BY <2>1, <3>1, <4>1 DEF MembersTold
      <4>2. CASE mem'[b].objs[k].member # ObjectAt(b, k).member
        BY <3>1, <4>2
      <4> QED
        BY <4>1, <4>2
    <3> QED
      BY <3>1, <3>2
  <2>2. ASSUME NEW u \in Threads, NEW d \in DOMAIN stack'[u], d < Len(stack'[u]),
               stack'[u][d + 1].op \in {"new", "newa"}, stack'[u][d].at # NULL,
               stack'[u][d].i + 1 \in DOMAIN mem'[stack'[u][d].at].objs
        PROVE  mem'[stack'[u][d].at].objs[stack'[u][d].i + 1].told # Untold
    <3>1. stack[u] \in Seq(Frame) /\ stack'[u] \in Seq(Frame)
      BY DEF TypeOK
    <3>2. /\ d \in DOMAIN stack[u] /\ stack'[u][d] = stack[u][d]
          /\ d + 1 \in DOMAIN stack'[u] /\ d + 1 \in DOMAIN stack[u] /\ stack'[u][d + 1] = stack[u][d + 1]
          /\ d < Len(stack[u])
      BY <2>2, <3>1
    <3>3. stack[u][d].at \in Blocks /\ stack[u][d].at \in Blocks'
      BY <1>3, <2>2, <3>2 DEF Accounts
    <3>4. stack[u][d].i + 1 \in Elements(stack[u][d].at)
      BY <2>2, <3>2, <3>3
    <3>5. ObjectAt(stack[u][d].at, stack[u][d].i + 1).told # Untold
      <4>1. stack[u][d].at # NULL /\ stack[u][d + 1].op \in {"new", "newa"}
        BY <2>2, <3>2
      <4> QED
        BY <3>2, <3>4, <4>1 DEF MembersTold
    <3>6. \A b \in Blocks' : \A k \in DOMAIN mem'[b].objs :
                 ObjectAt(b, k).told # Untold => mem'[b].objs[k].told # Untold
      OBVIOUS
    <3>7. stack[u][d].i + 1 \in DOMAIN mem'[stack[u][d].at].objs
      BY <2>2, <3>2
    <3> HIDE DEF NewInvariant, Ends
    <3> QED
      BY <3>2, <3>3, <3>5, <3>6, <3>7
  <2> HIDE DEF NewInvariant, Ends
  <2>3. (\A b \in Blocks : \A k \in Elements(b) :
           ObjectAt(b, k).member # NULL => ObjectAt(b, k).told # Untold)'
    BY <2>1 DEF ObjectAt, Elements
  <2>4. (\A u \in Threads : \A d \in DOMAIN stack[u] :
           /\ d < Len(stack[u]) /\ stack[u][d + 1].op \in {"new", "newa"}
           /\ stack[u][d].at # NULL /\ stack[u][d].i + 1 \in Elements(stack[u][d].at)
           => ObjectAt(stack[u][d].at, stack[u][d].i + 1).told # Untold)'
    BY <2>2 DEF ObjectAt, Elements
  <2> QED
    BY <2>3, <2>4 DEF MembersTold
<1> QED
  BY <1>6, <1>7, <1>8, <1>9, <1>10

-----------------------------------------------------------------------------
(* Every step keeps the invariant. *)

LEMMA RoomFacts ==
    ASSUME NEW op, NEW count \in Nat
    PROVE  (Bytes(op, count) - IF Headed(op) THEN SizeOfCount ELSE 0) \div SizeOfT \in Int
<1>1. Bytes(op, count) \in Int
  <2>1. SizeOfT * count + (IF Headed(op) THEN SizeOfCount ELSE 0) \in Int
    BY NewAssumption
  <2>2. SizeLimit \in Nat /\ SizeLimit > 0
    BY NewAssumption
  <2> QED
    BY <2>1, <2>2 DEF Bytes
<1>2. Bytes(op, count) - (IF Headed(op) THEN SizeOfCount ELSE 0) \in Int
  BY <1>1, NewAssumption
<1> QED
  BY <1>2, NewAssumption

(* A new block has no other owner, and has not been reported. *)
LEMMA AllocateKeeps ==
    ASSUME NewInvariant, NEW t \in Threads, NEW op \in {"new", "newa"}, NEW class \in Class,
           NEW count \in Nat, NEW via \in Maybe(Allocators), Allocate(t, op, class, count, via),
           stack[t] # <<>> =>
              (Top(t).at # NULL /\ Top(t).i + 1 \in Elements(Top(t).at)
                  => ObjectAt(Top(t).at, Top(t).i + 1).told # Untold)
    PROVE  NewInvariant'
<1> USE DEF NewInvariant
<1>1. PICK a \in {b \in Addr : mem[b] = NULL} \cup {NULL} :
         /\ mem' = IF a = NULL THEN mem
                   ELSE [mem EXCEPT ![a] =
                           [arena |-> via, class |-> class, front |-> NULL,
                            room  |-> (Bytes(op, count) - IF Headed(op) THEN SizeOfCount ELSE 0) \div SizeOfT,
                            objs  |-> [k \in 1..count |-> Raw]]]
         /\ stack' = Called(t, [op |-> op, via |-> via, at |-> a, count |-> count, i |-> 0,
                                pc |-> IF Headed(op) THEN "front" ELSE "tell"])
         /\ UNCHANGED <<checked, owned, ledger, asserted, fault>>
  BY DEF Allocate
<1> DEFINE block == [arena |-> via, class |-> class, front |-> NULL,
                     room  |-> (Bytes(op, count) - IF Headed(op) THEN SizeOfCount ELSE 0) \div SizeOfT,
                     objs  |-> [k \in 1..count |-> Raw]]
           frame == [op |-> op, via |-> via, at |-> a, count |-> count, i |-> 0,
                     pc |-> IF Headed(op) THEN "front" ELSE "tell"]
<1>2. a \in Maybe(Addr) /\ a \notin Blocks
  BY <1>1, NewAssumption DEF Maybe, Blocks
<1>3. frame \in Frame /\ Shape(frame) /\ Due(frame) = 0
  BY <1>2 DEF Frame, Shape, Due
<1>4. block \in Block /\ block.objs = [k \in 1..count |-> Raw]
  <2>1. [k \in 1..count |-> Raw] \in Seq(Object)
    <3>1. Raw \in Object
      BY DEF Raw, Object, Maybe
    <3> QED
      BY <3>1
  <2> QED
    BY <2>1, RoomFacts DEF Block, Maybe
<1> HIDE DEF block
<1>5. /\ mem' \in [Addr -> Maybe(Block)] /\ Blocks' = Blocks \cup ({a} \ {NULL})
      /\ \A b \in Blocks : mem'[b] = mem[b]
      /\ a # NULL => mem'[a] = block
  <2>1. CASE a = NULL
    BY <1>1, <2>1 DEF TypeOK, Blocks
  <2>2. CASE a # NULL
    <3>1. a \in Addr /\ mem' = [mem EXCEPT ![a] = block] /\ block # NULL
      BY <1>1, <1>4, <2>2, NewAssumption DEF block
    <3> QED
      BY <1>4, <2>2, <3>1 DEF TypeOK, Blocks, Maybe
  <2> QED
    BY <2>1, <2>2
<1>6. ASSUME NEW b \in Blocks', NEW k \in DOMAIN mem'[b].objs
      PROVE  /\ \/ mem'[b].objs[k].member = NULL /\ b \notin Blocks
                \/ /\ b \in Blocks /\ k \in Elements(b)
                   /\ mem'[b].objs[k].member \in {NULL, ObjectAt(b, k).member}
                   /\ ObjectAt(b, k).told # Untold => mem'[b].objs[k].told # Untold
             /\ a # NULL => mem'[b].objs[k].member # a
  <2>1. CASE b \in Blocks
    <3>1. k \in Elements(b) /\ mem'[b].objs[k] = ObjectAt(b, k)
      BY <1>5, <2>1 DEF Elements, ObjectAt
    <3>2. a # NULL => ObjectAt(b, k).member # a
      BY <1>2, <2>1, <3>1 DEF Accounts
    <3> QED
      BY <2>1, <3>1, <3>2
  <2>2. CASE b \notin Blocks
    <3>1. b = a /\ a # NULL
      BY <1>5, <2>2
    <3>2. mem'[b].objs[k] = Raw
      BY <1>4, <1>5, <3>1
    <3> QED
      BY <2>2, <3>2 DEF Raw
  <2> QED
    BY <2>1, <2>2
<1>7. a # NULL => /\ \A p \in owned' : p.at # a
                  /\ \A u \in Threads : \A e \in DOMAIN stack[u] : stack[u][e].at # a
                  /\ \A b \in Blocks' : \A k \in DOMAIN mem'[b].objs : mem'[b].objs[k].member # a
                  /\ tally[a] = 0
  BY <1>1, <1>2, <1>6 DEF Accounts, Maybe
<1>8. frame.at = a /\ frame.op = op /\ stack' = Called(t, frame) /\ owned' = owned
  BY <1>1
<1>9. Blocks' = Blocks \cup ({frame.at} \ {NULL})
  BY <1>5, <1>8
<1>10. frame.at # NULL =>
         /\ \A p \in owned' : p.at # frame.at
         /\ \A u \in Threads : \A e \in DOMAIN stack[u] : stack[u][e].at # frame.at
         /\ \A b \in Blocks' : \A k \in DOMAIN mem'[b].objs : mem'[b].objs[k].member # frame.at
         /\ tally[frame.at] = Due(frame)
  BY <1>3, <1>7, <1>8
<1>11. UNCHANGED <<checked, ledger, asserted, fault>>
  BY <1>1
<1>12. mem' \in [Addr -> Maybe(Block)] /\ owned' \subseteq owned
  BY <1>5, <1>8
<1> HIDE DEF frame
<1> QED
  BY <1>3, <1>6, <1>8, <1>9, <1>10, <1>11, <1>12, CallKeeps

(* A call past its null test has a block, with the account it should have. *)
LEMMA TopBlock ==
    ASSUME NewInvariant, NEW t \in Threads, stack[t] # <<>>
    PROVE  /\ Shape(Top(t))
           /\ Top(t).at # NULL => Top(t).at \in Blocks /\ tally[Top(t).at] = Due(Top(t))
           /\ \A frame : Due(frame) = Due(Top(t)) =>
                 \A a \in Addr : tally[a] = IF a = Top(t).at THEN Due(frame) ELSE tally[a]
<1>1. Len(stack[t]) \in DOMAIN stack[t] /\ Top(t) = stack[t][Len(stack[t])]
  BY TopFacts DEF NewInvariant
<1>2. Shape(Top(t))
  BY <1>1 DEF NewInvariant, Shapes
<1>3. Top(t).at # NULL => Top(t).at \in Blocks /\ tally[Top(t).at] = Due(Top(t))
  BY <1>1 DEF NewInvariant, Accounts
<1>4. NULL \notin Addr
  BY NewAssumption
<1> QED
  BY <1>2, <1>3, <1>4

LEMMA UnchangedKeeps ==
    ASSUME NewInvariant, UNCHANGED <<checked, mem, owned, stack, tally, objects, asserted>>,
           fault' \in Fault \cup {"none"}
    PROVE  NewInvariant'
<1> USE DEF NewInvariant
<1>1. TypeOK'
  BY DEF TypeOK
<1>2. OneOwner'
  BY DEF OneOwner, Blocks, Elements, ObjectAt
<1>3. Accounts'
  BY DEF Accounts, Due, Blocks, Elements, ObjectAt
<1>4. Shapes' /\ MembersTold'
  BY DEF Shapes, Shape, Headed, MembersTold, Blocks, Elements, ObjectAt
<1> QED
  BY <1>1, <1>2, <1>3, <1>4

LEMMA DiesKeeps ==
    ASSUME NewInvariant, NEW how \in Fault, Dies(how)
    PROVE  NewInvariant'
<1>1. UNCHANGED <<checked, mem, owned, stack, tally, objects, asserted>> /\ fault' \in Fault \cup {"none"}
  BY DEF Dies, ledger
<1> QED
  BY <1>1, UnchangedKeeps

LEMMA SameMembers ==
    ASSUME TypeOK, UNCHANGED mem
    PROVE  MembersKept
BY DEF TypeOK, MembersKept, Blocks, Elements, ObjectAt

LEMMA WriteCountKeeps ==
    ASSUME NewInvariant, NEW t \in Threads, WriteCount(t)
    PROVE  NewInvariant'
<1> DEFINE new == Top(t)
           next == [new EXCEPT !.pc = IF new.op = "newa" THEN "construct" ELSE "tell"]
           front == IF new.op = "newa" THEN new.count ELSE Single
<1>1. stack[t] # <<>> /\ new.pc = "front" /\ TypeOK
  BY DEF WriteCount, Runs, NewInvariant
<1>2. new \in Frame /\ new.at \in Maybe(Addr) /\ new.count \in Nat
  BY <1>1, TopFacts
<1>3. CASE \E how \in Fault : Dies(how)
  BY <1>3, DiesKeeps
<1>4. CASE /\ new.at # NULL /\ mem' = [mem EXCEPT ![new.at].front = front]
           /\ stack' = Becomes(t, next) /\ UNCHANGED <<checked, owned, ledger, asserted, fault>>
  <2>1. new.at \in Blocks /\ Shape(new)
    BY <1>1, <1>4, TopBlock
  <2>2. next \in Frame /\ next.at = new.at /\ next.op = new.op /\ Shape(next) /\ Due(next) = Due(new)
    BY <1>1, <1>2, <1>4, <2>1 DEF Frame, Shape, Due
  <2>3. front \in Maybe(Nat)
    BY <1>2, NewAssumption DEF Single, Maybe
  <2>4. new.at \in Addr /\ mem[new.at] \in Block
    BY <1>1, <2>1, BlockFacts
  <2>5. /\ mem' = [mem EXCEPT ![new.at] = [mem[new.at] EXCEPT !.front = front]]
        /\ [mem[new.at] EXCEPT !.front = front] \in Block
        /\ [mem[new.at] EXCEPT !.front = front].objs = mem[new.at].objs
    BY <1>4, <2>3, <2>4 DEF Block
  <2>6. MembersKept
    <3>1. mem' \in [Addr -> Maybe(Block)] /\ Blocks' = Blocks /\ \A b \in Blocks : mem'[b].objs = mem[b].objs
      BY <1>1, <2>4, <2>5, NewAssumption DEF TypeOK, Blocks, Maybe
    <3> QED
      BY <3>1 DEF MembersKept, Elements, ObjectAt
  <2>7. \A a \in Addr : tally'[a] = IF a = Top(t).at THEN Due(next) ELSE tally[a]
    BY <1>1, <1>4, <2>2, TopBlock DEF ledger
  <2> HIDE DEF next
  <2> QED
    BY <1>1, <1>4, <2>2, <2>6, <2>7, AdvanceKeeps DEF TypeOK, ledger
<1> QED
  BY <1>3, <1>4 DEF WriteCount, Fault

LEMMA TellAllocatorKeeps ==
    ASSUME NewInvariant, NEW t \in Threads, TellAllocator(t)
    PROVE  NewInvariant'
<1> DEFINE new == Top(t)
           next == [new EXCEPT !.pc = "construct", !.count = IF new.at = NULL THEN 0 ELSE 1]
<1>1. /\ stack[t] # <<>> /\ new.pc = "tell" /\ TypeOK
      /\ mem' = IF new.at # NULL /\ mem[new.at].class = "keeper"
                THEN SetObject(new.at, 1, Told(ObjectAt(new.at, 1), new.via)) ELSE mem
      /\ stack' = Becomes(t, next) /\ UNCHANGED <<checked, owned, ledger, asserted, fault>>
  BY DEF TellAllocator, Runs, NewInvariant
<1>2. new \in Frame /\ new.at \in Maybe(Addr) /\ new.via \in Maybe(Allocators)
  BY <1>1, TopFacts
<1>3. Shape(new) /\ (new.at # NULL => new.at \in Blocks)
  BY <1>1, TopBlock
<1>4. next \in Frame /\ next.at = new.at /\ next.op = new.op /\ Shape(next) /\ Due(next) = Due(new)
  BY <1>1, <1>2, <1>3 DEF Frame, Shape, Due
<1>5. MembersKept
  <2>1. CASE mem' = mem
    BY <1>1, <2>1, SameMembers
  <2>2. CASE new.at # NULL /\ mem' = SetObject(new.at, 1, Told(ObjectAt(new.at, 1), new.via))
    <3> DEFINE obj == ObjectAt(new.at, 1)
    <3>1. new.at \in Blocks
      BY <1>3, <2>2
    <3>2. 1 \in Elements(new.at) => /\ Told(obj, new.via) \in Object /\ Told(obj, new.via).member = obj.member
                                    /\ Told(obj, new.via).told = new.via
      <4>1. 1 \in Elements(new.at) => obj \in Object
        BY <1>1, <3>1, BlockFacts
      <4> QED
        BY <1>2, <4>1 DEF Told, Object
    <3>3. new.via # Untold
      BY <1>2, NewAssumption
    <3> QED
      BY <1>1, <2>2, <3>1, <3>2, <3>3, SetObjectKeepsMembers
  <2> QED
    BY <1>1, <2>1, <2>2
<1>6. \A a \in Addr : tally'[a] = IF a = Top(t).at THEN Due(next) ELSE tally[a]
  BY <1>1, <1>4, TopBlock DEF ledger
<1> HIDE DEF next
<1> QED
  BY <1>1, <1>4, <1>5, <1>6, AdvanceKeeps DEF TypeOK, ledger

(* A constructor and a destructor run only on a block. *)
LEMMA ElementBlock ==
    ASSUME NewInvariant, NEW t \in Threads, stack[t] # <<>>, Top(t).i < Top(t).count,
           Top(t).pc \in {"construct", "destroy"}
    PROVE  Top(t).at # NULL /\ Top(t).at \in Blocks
<1>1. Top(t).count \in Nat /\ Top(t).i \in Nat
  BY TopFacts DEF NewInvariant
<1>2. Shape(Top(t))
  BY TopBlock
<1>3. Top(t).at # NULL
  BY <1>1, <1>2 DEF Shape
<1> QED
  BY <1>3, TopBlock

LEMMA ConstructKeeps ==
    ASSUME NewInvariant, NEW t \in Threads, Construct(t)
    PROVE  NewInvariant'
<1> DEFINE a == Top(t).at
           k == Constructs(t)
           obj == ObjectAt(a, k)
           next == [Top(t) EXCEPT !.i = @ + 1]
<1>1. /\ stack[t] # <<>> /\ Top(t).pc = "construct" /\ Top(t).i < Top(t).count /\ TypeOK
      /\ mem' = SetObject(a, k, [obj EXCEPT !.life = "live"])
      /\ stack' = Becomes(t, next) /\ UNCHANGED <<checked, owned, ledger, asserted, fault>>
  BY DEF Construct, Constructing, Runs, NewInvariant
<1>2. Top(t) \in Frame /\ Top(t).i \in Nat
  BY <1>1, TopFacts
<1>3. Shape(Top(t)) /\ a # NULL /\ a \in Blocks /\ k \in Int
  BY <1>1, <1>2, TopBlock, ElementBlock DEF Constructs
<1>4. next \in Frame /\ next.at = a /\ next.op = Top(t).op /\ Shape(next) /\ Due(next) = Due(Top(t))
  BY <1>1, <1>2, <1>3 DEF Frame, Shape, Due
<1>5. k \in Elements(a) => /\ [obj EXCEPT !.life = "live"] \in Object
                           /\ [obj EXCEPT !.life = "live"].member = obj.member
                           /\ [obj EXCEPT !.life = "live"].told = obj.told
  <2>1. k \in Elements(a) => obj \in Object
    BY <1>1, <1>3, BlockFacts
  <2> QED
    BY <2>1 DEF Object
<1>6. MembersKept
  BY <1>1, <1>3, <1>5, SetObjectKeepsMembers
<1>7. \A b \in Addr : tally'[b] = IF b = Top(t).at THEN Due(next) ELSE tally[b]
  BY <1>1, <1>4, TopBlock DEF ledger
<1> HIDE DEF next
<1> QED
  BY <1>1, <1>4, <1>6, <1>7, AdvanceKeeps DEF TypeOK, ledger

LEMMA ConstructMemberKeeps ==
    ASSUME NewInvariant, NEW t \in Threads, ConstructMember(t)
    PROVE  NewInvariant'
<1>1. /\ stack[t] # <<>>
      /\ ObjectAt(Top(t).at, Constructs(t)).told \in Allocators
      /\ Allocate(t, "newa", "plain", 1, ObjectAt(Top(t).at, Constructs(t)).told)
  BY DEF ConstructMember, Constructing, Runs
<1>2. ObjectAt(Top(t).at, Top(t).i + 1).told # Untold
  BY <1>1, NewAssumption DEF Constructs, Maybe
<1> QED
  BY <1>1, <1>2, AllocateKeeps DEF Class, Maybe

LEMMA ConstructorThrowsKeeps ==
    ASSUME NewInvariant, NEW t \in Threads, ConstructorThrows(t)
    PROVE  NewInvariant'
<1> DEFINE a == Top(t).at
<1>1. /\ stack[t] # <<>> /\ Top(t).pc = "construct" /\ Top(t).i < Top(t).count /\ TypeOK
      /\ stack' = [stack EXCEPT ![t] = <<>>]
      /\ UNCHANGED <<checked, mem, owned, ledger, asserted, fault>>
  BY DEF ConstructorThrows, Constructing, Runs, NewInvariant
<1>2. a # NULL /\ a \in Blocks /\ tally[a] = Due(Top(t)) /\ Shape(Top(t))
  BY <1>1, ElementBlock, TopBlock
<1>3. /\ stack' \in [Threads -> Seq(Frame)] /\ Len(stack[t]) \notin DOMAIN stack'[t]
      /\ \A u \in Threads : /\ DOMAIN stack'[u] \subseteq DOMAIN stack[u]
                             /\ \A d \in DOMAIN stack'[u] : stack'[u][d] = stack[u][d]
  BY <1>1 DEF TypeOK
<1>4. /\ \A p \in owned : p.at # a
      /\ \A b \in Blocks : \A k \in Elements(b) : ObjectAt(b, k).member # a
  BY <1>1, <1>2, CallAlone, TopFacts DEF NewInvariant
<1>5. MembersKept /\ Blocks' = Blocks
  BY <1>1, SameMembers DEF MembersKept
<1>6. tally[a] \in {0, 1} /\ a \in Addr
  BY <1>2 DEF NewInvariant, Accounts, Blocks
<1>7. \A b \in Blocks' : \A k \in DOMAIN mem'[b].objs :
         /\ b \in Blocks /\ k \in Elements(b)
         /\ mem'[b].objs[k].member = ObjectAt(b, k).member /\ mem'[b].objs[k].member # a
  BY <1>4, <1>5 DEF MembersKept
<1>8. /\ owned' = owned /\ mem' = mem /\ tally' = tally /\ objects' = objects
      /\ UNCHANGED <<checked, asserted, fault>>
  BY <1>1 DEF ledger
<1>9. /\ owned' \subseteq Pointer /\ mem' \in [Addr -> Maybe(Block)]
      /\ tally' \in [Addr -> Int] /\ objects' \in Int
  BY <1>1, <1>8 DEF TypeOK
<1>10. \A b \in Blocks' :
         /\ DOMAIN mem'[b].objs = Elements(b)
         /\ \A k \in Elements(b) :
              /\ mem'[b].objs[k].member = ObjectAt(b, k).member
              /\ ObjectAt(b, k).told # Untold => mem'[b].objs[k].told # Untold
  BY <1>5 DEF MembersKept
<1>11. Ends(t, a)
  BY <1>1, <1>2, <1>3, <1>4, <1>5, <1>6, <1>7, <1>8, <1>9, <1>10 DEF Ends
<1> QED
  BY <1>11, ReturnKeeps

LEMMA ReportFacts ==
    ASSUME TypeOK, NEW a \in Maybe(Addr), NEW sign \in Int, NEW count \in Nat, Report(a, sign, count)
    PROVE  /\ tally' \in [Addr -> Int] /\ objects' \in Int
           /\ \A b \in Addr \ {a} : tally'[b] = tally[b]
           /\ a # NULL => tally'[a] = tally[a] + sign
<1>1. CASE a = NULL
  BY <1>1 DEF Report, TypeOK, ledger
<1>2. CASE a # NULL
  <2>1. a \in Addr /\ tally' = [tally EXCEPT ![a] = @ + sign] /\ tally[a] \in Int
    BY <1>2 DEF Report, Maybe, TypeOK
  <2>2. objects' \in Int
    <3>1. sign * count \in Int /\ objects \in Int
      BY DEF TypeOK
    <3> QED
      BY <1>2, <3>1 DEF Report
  <2> QED
    BY <2>1, <2>2 DEF TypeOK
<1> QED
  BY <1>1, <1>2

(* The client gets the pointer, or the object whose constructor called. *)
LEMMA ReturnNewKeeps ==
    ASSUME NewInvariant, NEW t \in Threads, ReturnNew(t)
    PROVE  NewInvariant'
<1> DEFINE new == Top(t)
           a == Top(t).at
           n == Len(stack[t])
           caller == stack[t][n - 1]
           ptr == [at |-> a, array |-> new.op = "newa", via |-> new.via]
<1>1. /\ stack[t] # <<>> /\ new.pc = "construct" /\ TypeOK
      /\ Report(a, 1, new.count) /\ stack' = Returned(t)
      /\ UNCHANGED <<checked, asserted, fault>>
  BY DEF ReturnNew, Runs, NewInvariant, Reported
<1>2. /\ n \in Nat \ {0} /\ n \in DOMAIN stack[t] /\ DOMAIN stack[t] = 1..n /\ new = stack[t][n]
      /\ new.count \in Nat /\ a \in Maybe(Addr) /\ new.via \in Maybe(Allocators)
      /\ stack[t] \in Seq(Frame)
  BY <1>1, TopFacts
<1>3. /\ Shape(new) /\ new.op \in {"new", "newa"} /\ Due(new) = 0
      /\ (a # NULL => a \in Blocks /\ a \in Addr /\ tally[a] = 0)
  BY <1>1, TopBlock DEF Shape, Due, Blocks
<1>4. /\ tally' \in [Addr -> Int] /\ objects' \in Int
      /\ \A b \in Addr \ {a} : tally'[b] = tally[b]
      /\ a # NULL => tally'[a] = 1
  <2>1. a # NULL => tally[a] = 0
    BY <1>3
  <2>2. ASSUME NEW b, NEW count, b \in Maybe(Addr), count \in Nat, Report(b, 1, count)
        PROVE  /\ tally' \in [Addr -> Int] /\ objects' \in Int
               /\ \A c \in Addr \ {b} : tally'[c] = tally[c]
               /\ b # NULL => tally'[b] = tally[b] + 1
    BY <1>1, <2>2, ReportFacts
  <2> QED
    BY <1>1, <1>2, <2>1, <2>2
<1>5. /\ stack' \in [Threads -> Seq(Frame)] /\ Len(stack[t]) \notin DOMAIN stack'[t]
      /\ \A u \in Threads : /\ DOMAIN stack'[u] \subseteq DOMAIN stack[u]
                             /\ \A d \in DOMAIN stack'[u] : stack'[u][d] = stack[u][d]
  BY <1>1, ReturnedLeaves
<1>6. a # NULL => /\ \A p \in owned : p.at # a
                  /\ \A b \in Blocks : \A k \in Elements(b) : ObjectAt(b, k).member # a
  BY <1>2, CallAlone DEF NewInvariant
<1>7. CASE n > 1
  <2> DEFINE c == caller.at
             k == caller.i + 1
             obj == [ObjectAt(c, k) EXCEPT !.member = a]
  <2>1. mem' = SetObject(c, k, obj) /\ owned' = owned
    BY <1>7 DEF ReturnNew
  <2>2. n - 1 \in DOMAIN stack[t] /\ caller \in Frame /\ c \in Maybe(Addr) /\ k \in Int
    <3>1. n - 1 \in DOMAIN stack[t]
      BY <1>2, <1>7
    <3>2. caller \in Frame
      BY <1>2, <3>1
    <3> HIDE DEF caller
    <3> QED
      BY <3>1, <3>2 DEF Frame
  <2>3. c # NULL => c \in Blocks
    BY <2>2 DEF NewInvariant, Accounts
  <2>4. c # NULL /\ k \in Elements(c) => ObjectAt(c, k).told # Untold
    <3>1. n - 1 < n /\ stack[t][(n - 1) + 1].op \in {"new", "newa"}
      BY <1>2, <1>3
    <3> QED
      BY <2>2, <3>1 DEF NewInvariant, MembersTold
  <2>5. c # NULL /\ k \in Elements(c) => /\ obj \in Object /\ obj.member = a
                                        /\ obj.told = ObjectAt(c, k).told
    <3>1. c # NULL /\ k \in Elements(c) => ObjectAt(c, k) \in Object
      BY <1>1, <2>3, BlockFacts
    <3> QED
      BY <1>2, <3>1 DEF Object
  <2>6. /\ mem' \in [Addr -> Maybe(Block)] /\ Blocks' = Blocks
        /\ \A b \in Blocks : DOMAIN mem'[b].objs = Elements(b)
        /\ \A b \in Blocks : \A l \in Elements(b) :
              \/ b = c /\ l = k /\ mem'[b].objs[l] = obj
              \/ ~(b = c /\ l = k) /\ mem'[b].objs[l] = ObjectAt(b, l)
    <3>1. CASE c = NULL
      <4>1. mem' = mem
        BY <1>1, <2>1, <3>1, NewAssumption DEF SetObject, TypeOK
      <4>2. c \notin Blocks
        BY <3>1, NewAssumption DEF Blocks
      <4> QED
        BY <1>1, <4>1, <4>2 DEF TypeOK, Blocks, Elements, ObjectAt
    <3>2. CASE c # NULL
      <4>1. c \in Blocks /\ c \in Addr
        BY <2>3, <3>2 DEF Blocks
      <4>2. /\ mem' \in [Addr -> Maybe(Block)]
            /\ \A b \in Addr \ {c} : mem'[b] = mem[b]
            /\ mem'[c] # NULL /\ DOMAIN mem'[c].objs = Elements(c)
            /\ k \in Elements(c) => mem'[c].objs[k] = obj
            /\ \A l \in Elements(c) : l # k => mem'[c].objs[l] = ObjectAt(c, l)
        <5> HIDE DEF obj, c, k
        <5>1. k \in Elements(c) => obj \in Object
          BY <2>5, <3>2
        <5>2. k \in Int
          BY <2>2 DEF k
        <5> QED
          BY <1>1, <2>1, <4>1, <5>1, <5>2, SetObjectFacts
      <4>3. Blocks' = Blocks
        BY <4>1, <4>2 DEF Blocks
      <4>4. \A b \in Blocks : b # c => mem'[b] = mem[b]
        BY <4>2 DEF Blocks
      <4> HIDE DEF obj, c, k
      <4> QED
        BY <4>2, <4>3, <4>4 DEF Elements, ObjectAt
    <3> QED
      BY <3>1, <3>2
  <2>7. ASSUME NEW b \in Blocks, NEW l \in Elements(b)
        PROVE  /\ \/ mem'[b].objs[l].member = ObjectAt(b, l).member
                  \/ mem'[b].objs[l].member = a /\ ObjectAt(b, l).told # Untold
               /\ ObjectAt(b, l).told # Untold => mem'[b].objs[l].told # Untold
               /\ a # NULL /\ mem'[b].objs[l].member = a => b = c /\ l = k
    <3>1. CASE b = c /\ l = k /\ mem'[b].objs[l] = obj
      <4>1. c # NULL
        BY <3>1, NewAssumption DEF Blocks
      <4> HIDE DEF obj, c, k
      <4> QED
        BY <2>4, <2>5, <2>7, <3>1, <4>1
    <3>2. CASE ~(b = c /\ l = k) /\ mem'[b].objs[l] = ObjectAt(b, l)
      BY <1>6, <3>2
    <3> QED
      BY <2>6, <3>1, <3>2
  <2>8. a # NULL => a \in Blocks' /\ tally'[a] = 1
    BY <1>3, <1>4, <2>6
  <2>9. a # NULL =>
          \A b, d \in Blocks' : \A l \in DOMAIN mem'[b].objs, m \in DOMAIN mem'[d].objs :
             mem'[b].objs[l].member = a /\ mem'[d].objs[m].member = a => b = d /\ l = m
    <3> HIDE DEF c, k, a
    <3> QED
      BY <2>6, <2>7
  <2>10. \A p \in owned' : p \in owned /\ (a # NULL => p.at # a) /\ p.at # NULL
    BY <1>1, <1>6, <2>1, NewAssumption DEF TypeOK, Pointer
  <2>11. \A b \in Blocks' :
          /\ DOMAIN mem'[b].objs = Elements(b)
          /\ \A l \in Elements(b) :
                /\ \/ mem'[b].objs[l].member = ObjectAt(b, l).member
                   \/ mem'[b].objs[l].member = a /\ ObjectAt(b, l).told # Untold
                /\ ObjectAt(b, l).told # Untold => mem'[b].objs[l].told # Untold
    BY <2>6, <2>7
  <2>12. owned' \subseteq Pointer
    BY <1>1, <2>1 DEF TypeOK
  <2>13. \A p \in owned' : p \in owned /\ p.at # a
    BY <2>10
  <2>14. UNCHANGED <<checked, asserted, fault>>
    BY <1>1
  <2>15. mem' \in [Addr -> Maybe(Block)] /\ Blocks' = Blocks /\ stack[t] # <<>>
    BY <1>1, <2>6
  <2> HIDE DEF c, k, obj, a
  <2>16. a = Top(t).at
    BY DEF a
  <2> QED
    <3>1. Ends(t, a)
      BY <1>4, <1>5, <2>8, <2>9, <2>11, <2>12, <2>13, <2>14, <2>15, <2>16 DEF Ends
    <3> QED
      BY <3>1, ReturnKeeps
<1>8. CASE ~(n > 1)
  <2>1. mem' = mem /\ owned' = IF a = NULL THEN owned ELSE owned \cup {ptr}
    BY <1>8 DEF ReturnNew
  <2>2. MembersKept /\ Blocks' = Blocks
    BY <1>1, <2>1, SameMembers DEF MembersKept
  <2>3. /\ mem' \in [Addr -> Maybe(Block)]
        /\ \A b \in Blocks' : /\ DOMAIN mem'[b].objs = Elements(b)
                              /\ \A l \in Elements(b) :
                                    /\ mem'[b].objs[l].member = ObjectAt(b, l).member
                                    /\ a # NULL => mem'[b].objs[l].member # a
                                    /\ ObjectAt(b, l).told # Untold => mem'[b].objs[l].told # Untold
    BY <1>6, <2>2 DEF MembersKept
  <2>4. a # NULL => ptr \in Pointer /\ ptr.at = a
    BY <1>2, NewAssumption DEF Pointer, Maybe
  <2>5. owned' \subseteq Pointer /\ \A p \in owned' : p \in owned \/ (p = ptr /\ a # NULL)
    BY <1>1, <2>1, <2>4 DEF TypeOK
  <2>6. \A p \in owned : p.at # NULL /\ p.at # a
    BY <1>1, <1>6, NewAssumption DEF TypeOK, Pointer
  <2>7. /\ \A p \in owned' : p \in owned \/ p.at = a
        /\ \A p, q \in owned' : p.at = a /\ q.at = a => p = q
    <3> HIDE DEF ptr, a
    <3> QED
      BY <2>4, <2>5, <2>6
  <2>8. a # NULL => a \in Blocks' /\ tally'[a] = 1
    BY <1>3, <1>4, <2>2
  <2>9. UNCHANGED <<checked, asserted, fault>> /\ stack[t] # <<>>
    BY <1>1
  <2> HIDE DEF ptr, a
  <2>10. a = Top(t).at
    BY DEF a
  <2>11. a # NULL => \A b \in Blocks' : \A l \in DOMAIN mem'[b].objs : mem'[b].objs[l].member # a
    BY <2>2, <2>3
  <2> QED
    <3>1. Ends(t, a)
      BY <1>4, <1>5, <2>2, <2>3, <2>5, <2>7, <2>8, <2>9, <2>10, <2>11 DEF Ends
    <3> QED
      BY <3>1, ReturnKeeps
<1> QED
  BY <1>7, <1>8

LEMMA DeleteFrameFacts ==
    ASSUME NEW array \in BOOLEAN, NEW a \in Addr, NEW via \in Maybe(Allocators)
    PROVE  /\ DeleteFrame(array, a, via) \in Frame /\ DeleteFrame(array, a, via).at = a
           /\ DeleteFrame(array, a, via).op \in {"delete", "deletea"}
           /\ Shape(DeleteFrame(array, a, via)) /\ Due(DeleteFrame(array, a, via)) = 1
<1>1. a # NULL
  BY NewAssumption
<1> QED
  BY <1>1 DEF DeleteFrame, Frame, Shape, Due, Maybe

LEMMA DeleteKeeps ==
    ASSUME NewInvariant, NEW t \in Threads, NEW p \in owned, NEW array \in BOOLEAN, pml_delete(t, p, array)
    PROVE  NewInvariant'
<1> DEFINE frame == DeleteFrame(array, p.at, p.via)
<1>1. /\ stack[t] = <<>> /\ owned' = owned \ {p} /\ stack' = Called(t, frame)
      /\ UNCHANGED <<checked, mem, ledger, asserted, fault>>
  BY DEF pml_delete, Calling
<1>2. TypeOK /\ p \in Pointer /\ p.at \in Addr /\ p.via \in Maybe(Allocators)
  BY DEF NewInvariant, TypeOK, Pointer
<1>3. frame \in Frame /\ frame.at = p.at /\ frame.op \in {"delete", "deletea"} /\ Shape(frame) /\ Due(frame) = 1
  BY <1>2, DeleteFrameFacts
<1>4. p.at \in Blocks /\ tally[p.at] = 1
  BY DEF NewInvariant, Accounts
<1>5. MembersKept
  BY <1>1, <1>2, SameMembers
<1>6. /\ mem' \in [Addr -> Maybe(Block)] /\ Blocks' = Blocks
      /\ \A b \in Blocks' : \A k \in DOMAIN mem'[b].objs :
            /\ b \in Blocks /\ k \in Elements(b)
            /\ mem'[b].objs[k].member = ObjectAt(b, k).member
            /\ ObjectAt(b, k).told # Untold => mem'[b].objs[k].told # Untold
  BY <1>5 DEF MembersKept
<1>7. /\ \A q \in owned' : q.at # p.at
      /\ \A u \in Threads : \A e \in DOMAIN stack[u] : stack[u][e].at # p.at
      /\ \A b \in Blocks' : \A k \in DOMAIN mem'[b].objs : mem'[b].objs[k].member # p.at
  BY <1>1, <1>6 DEF NewInvariant, OneOwner
<1> HIDE DEF frame
<1>8. Blocks' = Blocks \cup ({frame.at} \ {NULL})
  BY <1>3, <1>4, <1>6
<1>9. UNCHANGED <<checked, ledger, asserted, fault>> /\ owned' \subseteq owned
  BY <1>1
<1>10. \A b \in Blocks' : \A k \in DOMAIN mem'[b].objs :
              \/ mem'[b].objs[k].member = NULL /\ b \notin Blocks
              \/ /\ b \in Blocks /\ k \in Elements(b)
                 /\ mem'[b].objs[k].member \in {NULL, ObjectAt(b, k).member}
                 /\ ObjectAt(b, k).told # Untold => mem'[b].objs[k].told # Untold
  BY <1>6
<1> QED
  BY <1>1, <1>3, <1>4, <1>6, <1>7, <1>8, <1>9, <1>10, CallKeeps

LEMMA ReportDeleteKeeps ==
    ASSUME NewInvariant, NEW t \in Threads, ReportDelete(t)
    PROVE  NewInvariant'
<1> DEFINE a == Top(t).at
           next == IF Headed("delete") THEN [Top(t) EXCEPT !.pc = "read"]
                   ELSE [Top(t) EXCEPT !.pc = "destroy", !.count = 1]
<1>1. /\ stack[t] # <<>> /\ Top(t).pc = "report" /\ Top(t).op = "delete" /\ TypeOK
      /\ Report(a, -1, 1) /\ stack' = Becomes(t, next)
      /\ UNCHANGED <<checked, mem, owned, asserted, fault>>
  BY DEF ReportDelete, Runs, NewInvariant
<1>2. Top(t) \in Frame /\ a \in Maybe(Addr)
  BY <1>1, TopFacts
<1>3. Shape(Top(t)) /\ a # NULL /\ a \in Addr /\ tally[a] = 1
  BY <1>1, TopBlock DEF Shape, Due, Blocks
<1>4. next \in Frame /\ next.at = a /\ next.op = Top(t).op /\ Shape(next) /\ Due(next) = 0
  BY <1>1, <1>2, <1>3 DEF Frame, Shape, Due
<1>5. /\ tally' \in [Addr -> Int] /\ objects' \in Int
      /\ \A b \in Addr \ {a} : tally'[b] = tally[b]
      /\ tally'[a] = 0
  <2>1. -1 \in Int /\ 1 \in Nat
    OBVIOUS
  <2> DEFINE sign == -1
  <2> HIDE DEF sign
  <2>2. sign \in Int /\ Report(a, sign, 1)
    BY <1>1, <2>1 DEF sign
  <2>3. /\ tally' \in [Addr -> Int] /\ objects' \in Int
        /\ \A b \in Addr \ {a} : tally'[b] = tally[b]
        /\ tally'[a] = tally[a] + sign
    BY <1>1, <1>2, <1>3, <2>1, <2>2, ReportFacts
  <2> QED
    BY <1>3, <2>3 DEF sign
<1>6. \A b \in Addr : tally'[b] = IF b = Top(t).at THEN Due(next) ELSE tally[b]
  BY <1>4, <1>5
<1>7. MembersKept
  BY <1>1, SameMembers
<1> HIDE DEF next
<1> QED
  BY <1>1, <1>4, <1>5, <1>6, <1>7, AdvanceKeeps DEF TypeOK

LEMMA ReadCountKeeps ==
    ASSUME NewInvariant, NEW t \in Threads, ReadCount(t)
    PROVE  NewInvariant'
<1> DEFINE a == Top(t).at
           front == mem[a].front
           next == [Top(t) EXCEPT !.pc = "destroy", !.count = CountOf(front)]
<1>1. stack[t] # <<>> /\ Top(t).pc = "read" /\ TypeOK
  BY DEF ReadCount, Runs, NewInvariant
<1>2. CASE Dies("bounds")
  BY <1>2, DiesKeeps DEF Fault
<1>3. CASE /\ front # NULL /\ stack' = Becomes(t, next)
           /\ asserted' = (asserted \/ (checked /\ (front = Single <=> Top(t).op = "deletea")))
           /\ UNCHANGED <<checked, mem, owned, ledger, fault>>
  <2>1. Top(t) \in Frame
    BY <1>1, TopFacts
  <2>2. Shape(Top(t)) /\ a # NULL /\ a \in Blocks
    BY <1>1, TopBlock DEF Shape
  <2>3. CountOf(front) \in Nat
    <3>1. front \in Nat
      BY <1>1, <1>3, <2>2, BlockFacts DEF Maybe
    <3> QED
      BY <3>1 DEF CountOf
  <2>4. next \in Frame /\ next.at = a /\ next.op = Top(t).op /\ Shape(next) /\ Due(next) = Due(Top(t))
    BY <1>1, <2>1, <2>2, <2>3 DEF Frame, Shape, Due
  <2>5. \A b \in Addr : tally'[b] = IF b = Top(t).at THEN Due(next) ELSE tally[b]
    BY <1>1, <1>3, <2>4, TopBlock DEF ledger
  <2>6. MembersKept
    BY <1>1, <1>3, SameMembers
  <2>7. asserted' \in BOOLEAN
    BY <1>1, <1>3 DEF TypeOK
  <2> HIDE DEF next
  <2> QED
    BY <1>1, <1>3, <2>4, <2>5, <2>6, <2>7, AdvanceKeeps DEF TypeOK, ledger
<1> QED
  BY <1>2, <1>3 DEF ReadCount

LEMMA DestroyKeeps ==
    ASSUME NewInvariant, NEW t \in Threads, Destroy(t)
    PROVE  NewInvariant'
<1> DEFINE a == Top(t).at
           k == Victim(t)
           obj == ObjectAt(a, k)
           next == [Top(t) EXCEPT !.i = @ + 1]
<1>1. stack[t] # <<>> /\ Top(t).pc = "destroy" /\ Top(t).i < Top(t).count /\ TypeOK
  BY DEF Destroy, Destroying, Runs, NewInvariant
<1>2. CASE Dies("lifetime")
  BY <1>2, DiesKeeps DEF Fault
<1>3. CASE /\ Alive(a, k) /\ mem' = SetObject(a, k, [obj EXCEPT !.life = "dead"])
           /\ stack' = Becomes(t, next) /\ UNCHANGED <<checked, owned, ledger, asserted, fault>>
  <2>1. Top(t) \in Frame /\ Top(t).i \in Nat /\ Top(t).count \in Nat
    BY <1>1, TopFacts
  <2>2. Shape(Top(t)) /\ a # NULL /\ a \in Blocks /\ k \in Int /\ k \in Elements(a)
    BY <1>1, <1>3, <2>1, TopBlock, ElementBlock DEF Victim, Destroys, Alive, Elements
  <2>3. next \in Frame /\ next.at = a /\ next.op = Top(t).op /\ Shape(next) /\ Due(next) = Due(Top(t))
    BY <1>1, <2>1, <2>2 DEF Frame, Shape, Due
  <2>4. /\ [obj EXCEPT !.life = "dead"] \in Object
        /\ [obj EXCEPT !.life = "dead"].member = obj.member
        /\ [obj EXCEPT !.life = "dead"].told = obj.told
    <3>1. obj \in Object
      BY <1>1, <2>2, BlockFacts
    <3> QED
      BY <3>1 DEF Object
  <2>5. MembersKept
    BY <1>1, <1>3, <2>2, <2>4, SetObjectKeepsMembers
  <2>6. \A b \in Addr : tally'[b] = IF b = Top(t).at THEN Due(next) ELSE tally[b]
    BY <1>1, <1>3, <2>3, TopBlock DEF ledger
  <2> HIDE DEF next
  <2> QED
    BY <1>1, <1>3, <2>3, <2>5, <2>6, AdvanceKeeps DEF TypeOK, ledger
<1> QED
  BY <1>2, <1>3 DEF Destroy

LEMMA ReportDeleteaKeeps ==
    ASSUME NewInvariant, NEW t \in Threads, ReportDeletea(t)
    PROVE  NewInvariant'
<1> DEFINE a == Top(t).at
           next == [Top(t) EXCEPT !.pc = "free"]
           sign == -1
<1>1. /\ stack[t] # <<>> /\ Top(t).pc = "destroy" /\ Top(t).op = "deletea" /\ TypeOK
      /\ Report(a, sign, Top(t).count) /\ stack' = Becomes(t, next)
      /\ UNCHANGED <<checked, mem, owned, asserted, fault>>
  BY DEF ReportDeletea, Destroyed, Runs, NewInvariant
<1>2. Top(t) \in Frame /\ a \in Maybe(Addr) /\ Top(t).count \in Nat
  BY <1>1, TopFacts
<1>3. Shape(Top(t)) /\ a # NULL /\ a \in Addr /\ tally[a] = 1
  BY <1>1, TopBlock DEF Shape, Due, Blocks
<1>4. next \in Frame /\ next.at = a /\ next.op = Top(t).op /\ Shape(next) /\ Due(next) = 0
  BY <1>1, <1>2, <1>3 DEF Frame, Shape, Due
<1>5. /\ tally' \in [Addr -> Int] /\ objects' \in Int
      /\ \A b \in Addr \ {a} : tally'[b] = tally[b]
      /\ tally'[a] = 0
  <2>1. sign \in Int
    OBVIOUS
  <2> HIDE DEF sign
  <2>2. /\ tally' \in [Addr -> Int] /\ objects' \in Int
        /\ \A b \in Addr \ {a} : tally'[b] = tally[b]
        /\ tally'[a] = tally[a] + sign
    BY <1>1, <1>2, <1>3, <2>1, ReportFacts
  <2> QED
    BY <1>3, <2>2 DEF sign
<1>6. \A b \in Addr : tally'[b] = IF b = Top(t).at THEN Due(next) ELSE tally[b]
  BY <1>4, <1>5
<1>7. MembersKept
  BY <1>1, SameMembers
<1> HIDE DEF next
<1> QED
  BY <1>1, <1>4, <1>5, <1>6, <1>7, AdvanceKeeps DEF TypeOK

(* The member passes from the object to the call that deletes it. *)
LEMMA DestroyMemberKeeps ==
    ASSUME NewInvariant, NEW t \in Threads, DestroyMember(t)
    PROVE  NewInvariant'
<1> DEFINE a == Top(t).at
           k == Victim(t)
           obj == ObjectAt(a, k)
           m == obj.member
           bare == [obj EXCEPT !.member = NULL]
           frame == DeleteFrame(TRUE, m, obj.told)
<1>1. /\ stack[t] # <<>> /\ Top(t).pc = "destroy" /\ Top(t).i < Top(t).count /\ TypeOK
      /\ Alive(a, k) /\ m # NULL /\ mem' = SetObject(a, k, bare)
      /\ stack' = Called(t, frame) /\ UNCHANGED <<checked, owned, ledger, asserted, fault>>
  BY DEF DestroyMember, Destroying, Runs, NewInvariant
<1>2. a \in Blocks /\ k \in Elements(a) /\ k \in Int /\ a \in Addr
  <2>1. a \in Blocks /\ k \in Elements(a)
    BY <1>1, ElementBlock DEF Alive, Elements
  <2> QED
    BY <1>1, <2>1, BlockFacts DEF Elements
<1>3. /\ obj \in Object /\ m \in Blocks /\ m \in Addr /\ tally[m] = 1
      /\ obj.told \in Maybe(Allocators)
  <2>1. obj \in Object /\ obj.told \in Maybe(Allocators) \cup {Untold}
    BY <1>1, <1>2, BlockFacts
  <2>2. m \in Blocks /\ tally[m] = 1 /\ obj.told # Untold
    BY <1>1, <1>2 DEF NewInvariant, Accounts, MembersTold
  <2> QED
    BY <2>1, <2>2 DEF Blocks
<1>4. /\ frame \in Frame /\ frame.at = m /\ frame.op \in {"delete", "deletea"} /\ Shape(frame)
      /\ Due(frame) = 1
  <2> HIDE DEF m, obj
  <2> QED
    BY <1>3, DeleteFrameFacts
<1>5. bare \in Object /\ bare.member = NULL /\ bare.told = obj.told
  BY <1>3 DEF Object, Maybe
<1>6. /\ mem' \in [Addr -> Maybe(Block)] /\ Blocks' = Blocks
      /\ \A b \in Blocks : DOMAIN mem'[b].objs = Elements(b)
      /\ \A b \in Blocks : \A l \in Elements(b) :
            \/ b = a /\ l = k /\ mem'[b].objs[l] = bare
            \/ ~(b = a /\ l = k) /\ mem'[b].objs[l] = ObjectAt(b, l)
  <2> HIDE DEF bare
  <2>1. /\ mem' \in [Addr -> Maybe(Block)]
        /\ \A b \in Addr \ {a} : mem'[b] = mem[b]
        /\ mem'[a] # NULL /\ DOMAIN mem'[a].objs = Elements(a) /\ mem'[a].objs[k] = bare
        /\ \A l \in Elements(a) : l # k => mem'[a].objs[l] = ObjectAt(a, l)
    BY <1>1, <1>2, <1>5, SetObjectFacts
  <2>2. Blocks' = Blocks /\ \A b \in Blocks : b # a => mem'[b] = mem[b]
    BY <1>2, <2>1 DEF Blocks
  <2> HIDE DEF a, k
  <2> QED
    BY <2>1, <2>2 DEF Elements, ObjectAt
<1>7. /\ \A p \in owned' : p.at # m
      /\ \A u \in Threads : \A e \in DOMAIN stack[u] : stack[u][e].at # m
      /\ \A b \in Blocks : \A l \in Elements(b) : ~(b = a /\ l = k) => ObjectAt(b, l).member # m
  <2>1. \A p \in owned' : p.at # m
    BY <1>1, <1>2 DEF NewInvariant, OneOwner
  <2>2. \A u \in Threads : \A e \in DOMAIN stack[u] : stack[u][e].at # m
    BY <1>1, <1>2 DEF NewInvariant, OneOwner
  <2>3. ASSUME NEW b \in Blocks, NEW l \in Elements(b), ObjectAt(b, l).member = m
        PROVE  b = a /\ l = k
    BY <1>1, <1>2, <2>3 DEF NewInvariant, OneOwner
  <2> QED
    BY <2>1, <2>2, <2>3
<1>8. ASSUME NEW b \in Blocks', NEW l \in DOMAIN mem'[b].objs
      PROVE  /\ b \in Blocks /\ l \in Elements(b)
             /\ mem'[b].objs[l].member \in {NULL, ObjectAt(b, l).member}
             /\ ObjectAt(b, l).told # Untold => mem'[b].objs[l].told # Untold
             /\ mem'[b].objs[l].member # m
  <2>1. b \in Blocks /\ l \in Elements(b)
    BY <1>6
  <2>2. CASE b = a /\ l = k /\ mem'[b].objs[l] = bare
    <3> HIDE DEF bare
    <3> QED
      BY <1>1, <1>5, <2>1, <2>2
  <2>3. CASE ~(b = a /\ l = k) /\ mem'[b].objs[l] = ObjectAt(b, l)
    BY <1>7, <2>1, <2>3
  <2> QED
    BY <1>6, <2>1, <2>2, <2>3
<1>9. Blocks' = Blocks \cup ({frame.at} \ {NULL})
  <2> HIDE DEF frame, m
  <2> QED
    BY <1>1, <1>3, <1>4, <1>6
<1>10. UNCHANGED <<checked, ledger, asserted, fault>> /\ owned' \subseteq owned
  BY <1>1
<1>11. \A b \in Blocks' : \A l \in DOMAIN mem'[b].objs :
         \/ mem'[b].objs[l].member = NULL /\ b \notin Blocks
         \/ /\ b \in Blocks /\ l \in Elements(b)
            /\ mem'[b].objs[l].member \in {NULL, ObjectAt(b, l).member}
            /\ ObjectAt(b, l).told # Untold => mem'[b].objs[l].told # Untold
  BY <1>8
<1>12. frame.at # NULL =>
         /\ \A p \in owned' : p.at # frame.at
         /\ \A u \in Threads : \A e \in DOMAIN stack[u] : stack[u][e].at # frame.at
         /\ \A b \in Blocks' : \A l \in DOMAIN mem'[b].objs : mem'[b].objs[l].member # frame.at
         /\ tally[frame.at] = Due(frame)
  <2> HIDE DEF frame, m
  <2> QED
    BY <1>3, <1>4, <1>7, <1>8
<1>13. mem' \in [Addr -> Maybe(Block)] /\ stack' = Called(t, frame)
  BY <1>1, <1>6
<1> HIDE DEF frame
<1> QED
  BY <1>4, <1>9, <1>10, <1>11, <1>12, <1>13, CallKeeps

LEMMA FreeKeeps ==
    ASSUME NewInvariant, NEW t \in Threads, Free(t)
    PROVE  NewInvariant'
<1> DEFINE a == Top(t).at
<1>1. /\ stack[t] # <<>> /\ TypeOK
      /\ Top(t).pc = "free" \/ (Top(t).pc = "destroy" /\ Top(t).op = "delete")
  BY DEF Free, Destroyed, Runs, NewInvariant
<1>2. CASE Dies("pointer")
  BY <1>2, DiesKeeps DEF Fault
<1>3. CASE mem' = Freed(a) /\ stack' = Returned(t) /\ UNCHANGED <<checked, owned, ledger, asserted, fault>>
  <2>1. a # NULL /\ a \in Blocks /\ a \in Addr /\ tally[a] = 0
    BY <1>1, TopBlock DEF Shape, Due, Blocks
  <2>2. /\ stack' \in [Threads -> Seq(Frame)] /\ Len(stack[t]) \notin DOMAIN stack'[t]
        /\ \A u \in Threads : /\ DOMAIN stack'[u] \subseteq DOMAIN stack[u]
                               /\ \A d \in DOMAIN stack'[u] : stack'[u][d] = stack[u][d]
    BY <1>1, <1>3, ReturnedLeaves
  <2>3. /\ \A p \in owned : p.at # a
        /\ \A b \in Blocks : \A k \in Elements(b) : ObjectAt(b, k).member # a
    BY <1>1, <2>1, CallAlone, TopFacts DEF NewInvariant
  <2>4. /\ mem' \in [Addr -> Maybe(Block)] /\ Blocks' = Blocks \ {a}
        /\ \A b \in Blocks' : mem'[b] = mem[b]
    BY <1>1, <1>3, <2>1 DEF Freed, TypeOK, Blocks, Maybe
  <2>5. \A b \in Blocks' : /\ b \in Blocks /\ DOMAIN mem'[b].objs = Elements(b)
                           /\ \A k \in Elements(b) : mem'[b].objs[k] = ObjectAt(b, k)
    BY <2>4 DEF Elements, ObjectAt
  <2>6. \A b \in Blocks' : \A k \in DOMAIN mem'[b].objs : mem'[b].objs[k].member # a
    BY <2>3, <2>5
  <2>7. /\ owned' = owned /\ owned' \subseteq Pointer /\ tally' = tally /\ objects' = objects
        /\ tally' \in [Addr -> Int] /\ objects' \in Int /\ UNCHANGED <<checked, asserted, fault>>
    BY <1>1, <1>3 DEF TypeOK, ledger
  <2>8. Ends(t, a)
    <3> HIDE DEF a
    <3>1. a = Top(t).at
      BY DEF a
    <3> QED
      BY <1>1, <2>1, <2>2, <2>3, <2>4, <2>5, <2>6, <2>7, <3>1 DEF Ends
  <2> QED
    BY <2>8, ReturnKeeps
<1> QED
  BY <1>2, <1>3 DEF Free

LEMMA NewInit ==
    ASSUME Init
    PROVE  NewInvariant
<1>1. Blocks = {} /\ owned = {} /\ \A t \in Threads : DOMAIN stack[t] = {} /\ Len(stack[t]) = 0
  BY DEF Init, Blocks
<1>2. TypeOK
  <2>1. stack \in [Threads -> Seq(Frame)]
    BY DEF Init
  <2>2. mem \in [Addr -> Maybe(Block)] /\ owned \subseteq Pointer
    BY DEF Init, Maybe
  <2>3. tally \in [Addr -> Int] /\ objects \in Int
    BY DEF Init
  <2> QED
    BY <2>1, <2>2, <2>3 DEF Init, TypeOK
<1>3. OneOwner /\ Shapes /\ MembersTold
  BY <1>1 DEF OneOwner, Shapes, MembersTold
<1>4. Accounts
  BY <1>1 DEF Init, Accounts
<1> QED
  BY <1>2, <1>3, <1>4 DEF NewInvariant

LEMMA NewNext ==
    ASSUME NewInvariant, [Next]_vars
    PROVE  NewInvariant'
<1>1. ASSUME NEW t \in Threads, NewStep(t)
      PROVE  NewInvariant'
  <2>1. ASSUME NEW use \in Uses, pml_new(t, use.class, use.via)
        PROVE  NewInvariant'
    BY <2>1, AllocateKeeps, NewAssumption DEF pml_new, Calling
  <2>2. ASSUME NEW use \in Uses, NEW count \in Counts, pml_newa(t, use.class, count, use.via)
        PROVE  NewInvariant'
    BY <2>2, AllocateKeeps, NewAssumption DEF pml_newa, Calling
  <2>3. CASE ConstructCrashes(t)
    BY <2>3, DiesKeeps DEF ConstructCrashes, Fault
  <2> QED
    BY <1>1, <2>1, <2>2, <2>3, WriteCountKeeps, TellAllocatorKeeps, ConstructKeeps, ConstructMemberKeeps,
       ConstructorThrowsKeeps, ReturnNewKeeps DEF NewStep
<1>2. ASSUME NEW t \in Threads, DeleteStep(t)
      PROVE  NewInvariant'
  BY <1>2, DeleteKeeps, ReportDeleteKeeps, ReadCountKeeps, DestroyMemberKeeps, DestroyKeeps,
     ReportDeleteaKeeps, FreeKeeps DEF DeleteStep
<1>3. CASE UNCHANGED vars
  BY <1>3, UnchangedKeeps DEF vars, ledger, NewInvariant, TypeOK
<1> QED
  BY <1>1, <1>2, <1>3 DEF Next

(* The invariant holds of every program that calls pml_new and pml_delete  *)
(* of what it owns (malloc.h:258-269, 357-372, 470-498).                   *)
THEOREM NewInvariantHolds == Spec => []NewInvariant
<1> QED
  BY NewInit, NewNext, PTL DEF Spec

(* The variables keep their types: no count becomes negative and no deleted *)
(* member goes back to an allocator nobody told of (malloc.h:481-498).      *)
THEOREM NewTypeCorrect == Spec => []TypeOK
<1>1. NewInvariant => TypeOK
  BY DEF NewInvariant
<1> QED
  BY <1>1, NewInvariantHolds, PTL

(* What pml_new and pml_delete report of an address alternates between     *)
(* birth and death, for every program, also when threads reuse addresses   *)
(* (malloc.h:267, 369, 475, 495).                                          *)
THEOREM ReportsAlternateHolds == Spec => []ReportsAlternate
<1>1. NewInvariant => ReportsAlternate
  BY DEF NewInvariant, Accounts, ReportsAlternate, OwnedBy
<1> QED
  BY <1>1, NewInvariantHolds, PTL

-----------------------------------------------------------------------------
(* What a block is like follows from its owner: who the owners are.        *)

LEMMA OwnerFacts ==
    ASSUME NewInvariant
    PROVE  /\ \A p \in owned : p \in Pointer /\ p.at \in Blocks /\ p.at # NULL
           /\ \A t \in Threads : \A d \in DOMAIN stack[t] :
                 /\ stack[t][d] \in Frame /\ Shape(stack[t][d])
                 /\ stack[t][d].at # NULL => stack[t][d].at \in Blocks
           /\ \A b \in Blocks : \A k \in Elements(b) :
                 ObjectAt(b, k).member # NULL => ObjectAt(b, k).member \in Blocks
           /\ \A b \in Blocks : b \in Addr /\ b # NULL
<1>1. ASSUME NEW p \in owned PROVE p \in Pointer /\ p.at \in Blocks /\ p.at # NULL
  <2>1. p \in Pointer /\ p.at \in Blocks
    BY DEF NewInvariant, TypeOK, Accounts
  <2> QED
    BY <2>1, NewAssumption DEF Pointer
<1>2. ASSUME NEW t \in Threads, NEW d \in DOMAIN stack[t]
      PROVE  /\ stack[t][d] \in Frame /\ Shape(stack[t][d])
             /\ stack[t][d].at # NULL => stack[t][d].at \in Blocks
  <2>1. stack[t] \in Seq(Frame)
    BY DEF NewInvariant, TypeOK
  <2>2. stack[t][d] \in Frame
    BY <2>1
  <2> QED
    BY <2>2 DEF NewInvariant, Shapes, Accounts
<1>3. \A b \in Blocks : \A k \in Elements(b) :
         ObjectAt(b, k).member # NULL => ObjectAt(b, k).member \in Blocks
  BY DEF NewInvariant, Accounts
<1>4. \A b \in Blocks : b \in Addr /\ b # NULL
  BY NewAssumption DEF Blocks
<1> QED
  BY <1>1, <1>2, <1>3, <1>4

(* A build has checks or has not, for good. *)
LEMMA SameBuild ==
    ASSUME checked' = checked
    PROVE  /\ \A a : \A p \in owned' : Whole(mem'[a], p.array, p.via) => Whole(mem[a], p.array, p.via)'
           /\ \A u, d : AtWork(stack'[u][d], mem'[stack'[u][d].at]) => AtWork(stack[u][d], mem[stack[u][d].at])'
           /\ \A b, k : Whole(mem'[mem'[b].objs[k].member], TRUE, mem'[b].objs[k].told)
                           => Whole(mem[ObjectAt(b, k).member], TRUE, ObjectAt(b, k).told)'
<1>1. \A a : \A p \in owned' : Whole(mem'[a], p.array, p.via) => Whole(mem[a], p.array, p.via)'
  BY DEF Whole, Marked, AllIn
<1>2. \A u, d : AtWork(stack'[u][d], mem'[stack'[u][d].at]) => AtWork(stack[u][d], mem[stack[u][d].at])'
  <2> TAKE u, d
  <2>1. \A array : Marked(mem[stack[u][d].at], array)' <=> Marked(mem'[stack'[u][d].at], array)
    BY DEF Marked
  <2>2. Counted(stack[u][d], mem[stack[u][d].at])' <=> Counted(stack'[u][d], mem'[stack'[u][d].at])
    BY DEF Counted
  <2>3. Making(stack'[u][d], mem'[stack'[u][d].at]) => Making(stack[u][d], mem[stack[u][d].at])'
    BY <2>1 DEF Making, AllIn, Headed
  <2>4. Unmaking(stack'[u][d], mem'[stack'[u][d].at]) => Unmaking(stack[u][d], mem[stack[u][d].at])'
    BY <2>1, <2>2 DEF Unmaking, AllIn, Headed
  <2> QED
    BY <2>3, <2>4 DEF AtWork
<1>3. \A b, k : Whole(mem'[mem'[b].objs[k].member], TRUE, mem'[b].objs[k].told)
                   => Whole(mem[ObjectAt(b, k).member], TRUE, ObjectAt(b, k).told)'
  BY DEF Whole, Marked, AllIn, ObjectAt
<1> QED
  BY <1>1, <1>2, <1>3

(* A step changes the blocks in X.  Who keeps a block has one that is not  *)
(* in X; whoever else has one must have it in the state it should be in.   *)
OwnersChange(X) ==
    /\ checked' = checked
    /\ \A a \in Addr \ X : mem'[a] = mem[a]
    /\ \A a \in X \cap Blocks' : mem'[a].room < Single
    /\ \A p \in owned' :
          \/ p \in owned /\ p.at \notin X
          \/ Whole(mem'[p.at], p.array, p.via)
    /\ \A u \in Threads : \A d \in DOMAIN stack'[u] :
          \/ d \in DOMAIN stack[u] /\ stack'[u][d] = stack[u][d] /\ stack[u][d].at \notin X
          \/ stack'[u][d].at # NULL => AtWork(stack'[u][d], mem'[stack'[u][d].at])
    /\ \A b \in Blocks' : \A k \in DOMAIN mem'[b].objs :
          LET obj == mem'[b].objs[k]
          IN  obj.member # NULL =>
                 /\ obj.life # "dead"
                 /\ \/ /\ b \in Blocks /\ k \in Elements(b) /\ obj.member \notin X
                       /\ obj.member = ObjectAt(b, k).member /\ obj.told = ObjectAt(b, k).told
                    \/ Whole(mem'[obj.member], TRUE, obj.told)

LEMMA AsOwnedKept ==
    ASSUME NewInvariant, NewInvariant', AsOwned, NEW X, OwnersChange(X)
    PROVE  AsOwned'
<1> USE DEF OwnersChange
<1>1. \A a \in Blocks' : a \in Addr /\ (a \notin X => a \in Blocks /\ mem'[a] = mem[a])
  BY DEF Blocks
<1>2. ASSUME NEW p \in owned' PROVE Whole(mem[p.at], p.array, p.via)'
  <2>1. Whole(mem'[p.at], p.array, p.via)
    <3>1. CASE p \in owned /\ p.at \notin X
      <4>1. mem'[p.at] = mem[p.at]
        BY <3>1, OwnerFacts
      <4> QED
        BY <3>1, <4>1 DEF AsOwned
    <3> QED
      BY <3>1
  <2> QED
    BY <2>1, SameBuild
<1>3. ASSUME NEW u \in Threads, NEW d \in DOMAIN stack'[u], stack'[u][d].at # NULL
      PROVE  AtWork(stack[u][d], mem[stack[u][d].at])'
  <2>1. AtWork(stack'[u][d], mem'[stack'[u][d].at])
    <3>1. CASE d \in DOMAIN stack[u] /\ stack'[u][d] = stack[u][d] /\ stack[u][d].at \notin X
      <4>1. mem'[stack[u][d].at] = mem[stack[u][d].at]
        BY <1>3, <3>1, OwnerFacts
      <4> QED
        BY <1>3, <3>1, <4>1 DEF AsOwned
    <3> QED
      BY <1>3, <3>1
  <2> QED
    BY <2>1, SameBuild
<1>4. ASSUME NEW b \in Blocks', NEW k \in Elements(b)', ObjectAt(b, k).member' # NULL
      PROVE  ObjectAt(b, k).life' # "dead" /\ Whole(mem[ObjectAt(b, k).member], TRUE, ObjectAt(b, k).told)'
  <2> DEFINE obj == mem'[b].objs[k]
  <2>1. k \in DOMAIN mem'[b].objs /\ obj.member # NULL /\ ObjectAt(b, k)' = obj
    BY <1>4 DEF Elements, ObjectAt
  <2>2. obj.life # "dead"
    BY <2>1
  <2>3. Whole(mem'[obj.member], TRUE, obj.told)
    <3>1. CASE /\ b \in Blocks /\ k \in Elements(b) /\ obj.member \notin X
               /\ obj.member = ObjectAt(b, k).member /\ obj.told = ObjectAt(b, k).told
      <4>1. mem'[obj.member] = mem[obj.member]
        BY <2>1, <3>1, OwnerFacts
      <4> QED
        BY <2>1, <3>1, <4>1 DEF AsOwned, MembersWhole
    <3> QED
      BY <2>1, <3>1
  <2> QED
    BY <2>1, <2>2, <2>3, SameBuild
<1>5. MembersWhole'
  BY <1>4 DEF MembersWhole
<1>6. \A a \in Blocks' : mem'[a].room < Single
  BY <1>1 DEF AsOwned
<1> QED
  BY <1>2, <1>3, <1>5, <1>6 DEF AsOwned, Single

(* The calls around the innermost one stay what they are. *)
Stays(X, u, d, e) ==
    /\ d \in DOMAIN stack[u] /\ e \in DOMAIN stack[u]
    /\ stack'[u][d] = stack[u][d] /\ stack[u][d].at \notin X
    /\ stack'[u][e].op = stack[u][e].op /\ stack'[u][e].via = stack[u][e].via

ForElement(u, d, e) ==
    LET outer == stack'[u][d]
    IN  /\ outer.pc = "construct" /\ outer.i < outer.count
        /\ e = d + 1 => /\ mem'[outer.at].objs[outer.i + 1].member = NULL
                        /\ mem'[outer.at].objs[outer.i + 1].told = stack'[u][e].via
                        /\ stack'[u][e].op = "newa"

CallsKept(X) ==
    /\ \A a \in Addr \ X : mem'[a] = mem[a]
    /\ \A u \in Threads : \A d, e \in DOMAIN stack'[u] :
          d < e /\ stack'[u][e].op \in {"new", "newa"} => Stays(X, u, d, e) \/ ForElement(u, d, e)

LEMMA WithinKept ==
    ASSUME NewInvariant, Lives, NEW X, CallsKept(X)
    PROVE  \A u \in Threads : Within(u)'
<1> SUFFICES ASSUME NEW u \in Threads, NEW d \in DOMAIN stack'[u], NEW e \in DOMAIN stack'[u],
                    d < e, stack'[u][e].op \in {"new", "newa"}
             PROVE  ForElement(u, d, e)
  BY DEF Within, ObjectAt, ForElement
<1>1. CASE Stays(X, u, d, e)
  <2> DEFINE outer == stack[u][d]
  <2>1. /\ outer.pc = "construct" /\ outer.i < outer.count
        /\ e = d + 1 => /\ ObjectAt(outer.at, outer.i + 1).member = NULL
                        /\ ObjectAt(outer.at, outer.i + 1).told = stack[u][e].via
                        /\ stack[u][e].op = "newa"
    BY <1>1 DEF Within, Lives, Stays
  <2>2. outer \in Frame /\ Shape(outer) /\ (outer.at # NULL => outer.at \in Blocks)
    BY <1>1, OwnerFacts DEF Stays
  <2>3. outer.at # NULL
    BY <2>1, <2>2 DEF Shape, Frame
  <2>4. mem'[outer.at] = mem[outer.at]
    BY <1>1, <2>2, <2>3 DEF Blocks, CallsKept, Stays
  <2> QED
    BY <1>1, <2>1, <2>4 DEF ObjectAt, ForElement, Stays
<1> QED
  BY <1>1 DEF CallsKept

(* The innermost call goes on with its block, whose elements keep what     *)
(* they have.                                                              *)
SameMembersIn(a) ==
    /\ mem'[a] # NULL /\ DOMAIN mem'[a].objs = Elements(a) /\ mem'[a].room = mem[a].room
    /\ \A k \in Elements(a) :
          /\ mem'[a].objs[k].member = ObjectAt(a, k).member
          /\ ObjectAt(a, k).member # NULL =>
                mem'[a].objs[k].told = ObjectAt(a, k).told /\ mem'[a].objs[k].life # "dead"

LEMMA AdvanceLives ==
    ASSUME NewInvariant, NewInvariant', Lives, NEW t \in Threads, stack[t] # <<>>, NEW frame \in Frame,
           frame.at = Top(t).at, frame.op = Top(t).op, frame.via = Top(t).via,
           stack' = Becomes(t, frame), owned' = owned, checked' = checked,
           \A a \in Addr \ {Top(t).at} : mem'[a] = mem[a],
           Top(t).at # NULL => SameMembersIn(Top(t).at) /\ AtWork(frame, mem'[Top(t).at])
    PROVE  Lives'
<1> DEFINE n == Len(stack[t])  a0 == Top(t).at
<1>1. /\ n \in DOMAIN stack[t] /\ n \in Nat /\ Top(t) = stack[t][n] /\ DOMAIN stack[t] = 1..n
      /\ a0 # NULL => a0 \in Blocks
  BY TopFacts, OwnerFacts DEF NewInvariant
<1>2. /\ \A u \in Threads \ {t} : stack'[u] = stack[u]
      /\ DOMAIN stack'[t] = DOMAIN stack[t] /\ stack'[t][n] = frame
      /\ \A d \in DOMAIN stack[t] : d # n => stack'[t][d] = stack[t][d]
  BY BecomesFacts DEF NewInvariant
<1>3. a0 # NULL => /\ \A p \in owned : p.at # a0
                   /\ \A u \in Threads : \A e \in DOMAIN stack[u] : stack[u][e].at = a0 => u = t /\ e = n
                   /\ \A b \in Blocks : \A k \in Elements(b) : ObjectAt(b, k).member # a0
  BY <1>1, CallAlone DEF NewInvariant
<1>4. /\ \A u \in Threads : DOMAIN stack'[u] = DOMAIN stack[u]
      /\ \A u \in Threads : \A d \in DOMAIN stack[u] :
            \/ u = t /\ d = n /\ stack'[u][d] = frame
            \/ stack'[u][d] = stack[u][d] /\ ~(u = t /\ d = n)
      /\ \A u \in Threads : \A d \in DOMAIN stack[u] : stack'[u][d].at = stack[u][d].at
                                 /\ stack'[u][d].op = stack[u][d].op /\ stack'[u][d].via = stack[u][d].via
  BY <1>1, <1>2
<1>5. Blocks' = Blocks /\ \A b \in Blocks : b # a0 => mem'[b] = mem[b]
  <2>1. \A a \in Addr : a # a0 => mem'[a] = mem[a]
    OBVIOUS
  <2>2. a0 \in Addr => mem[a0] # NULL /\ mem'[a0] # NULL
    <3>1. a0 \in Addr => a0 # NULL /\ a0 \in Blocks
      BY <1>1, NewAssumption
    <3> QED
      BY <3>1 DEF Blocks, SameMembersIn
  <2> HIDE DEF a0
  <2> QED
    BY <2>1, <2>2 DEF Blocks
<1>6. \A b \in Blocks : /\ DOMAIN mem'[b].objs = Elements(b)
                        /\ \A k \in Elements(b) :
                              /\ mem'[b].objs[k].member = ObjectAt(b, k).member
                              /\ ObjectAt(b, k).member # NULL =>
                                    mem'[b].objs[k].told = ObjectAt(b, k).told /\ mem'[b].objs[k].life # "dead"
  <2>1. \A b \in Blocks : b = a0 => a0 # NULL /\ SameMembersIn(a0)
    BY OwnerFacts
  <2>2. \A b \in Blocks : \A k \in Elements(b) : ObjectAt(b, k).member # NULL => ObjectAt(b, k).life # "dead"
    BY DEF Lives, AsOwned, MembersWhole
  <2> HIDE DEF a0
  <2>3. \A b \in Blocks : b # a0 => /\ DOMAIN mem'[b].objs = Elements(b)
                                   /\ \A k \in Elements(b) : mem'[b].objs[k] = ObjectAt(b, k)
    BY <1>5 DEF Elements, ObjectAt
  <2> QED
    BY <2>1, <2>2, <2>3 DEF SameMembersIn
<1> HIDE DEF n, a0
<1>7. OwnersChange({a0} \ {NULL})
  <2>1. \A a \in Addr \ ({a0} \ {NULL}) : mem'[a] = mem[a]
    BY NewAssumption DEF a0
  <2>2. \A a \in ({a0} \ {NULL}) \cap Blocks' : mem'[a].room < Single
    BY <1>1 DEF a0, SameMembersIn, Lives, AsOwned
  <2>3. \A p \in owned' : p \in owned /\ p.at \notin {a0} \ {NULL}
    BY <1>3
  <2>4. \A u \in Threads : \A d \in DOMAIN stack'[u] :
          \/ d \in DOMAIN stack[u] /\ stack'[u][d] = stack[u][d] /\ stack[u][d].at \notin {a0} \ {NULL}
          \/ stack'[u][d].at # NULL => AtWork(stack'[u][d], mem'[stack'[u][d].at])
    BY <1>3, <1>4 DEF a0
  <2>5. ASSUME NEW b \in Blocks', NEW k \in DOMAIN mem'[b].objs, mem'[b].objs[k].member # NULL
        PROVE  /\ mem'[b].objs[k].life # "dead"
               /\ b \in Blocks /\ k \in Elements(b) /\ mem'[b].objs[k].member \notin {a0} \ {NULL}
               /\ mem'[b].objs[k].member = ObjectAt(b, k).member
               /\ mem'[b].objs[k].told = ObjectAt(b, k).told
    BY <1>3, <1>5, <1>6, <2>5
  <2> QED
    BY <2>1, <2>2, <2>3, <2>4, <2>5 DEF OwnersChange
<1>8. AsOwned'
  BY <1>7, AsOwnedKept DEF Lives
<1>9. \A u \in Threads : Within(u)'
  <2>1. ASSUME NEW u \in Threads, NEW d \in DOMAIN stack'[u], NEW e \in DOMAIN stack'[u],
               d < e, stack'[u][e].op \in {"new", "newa"}
        PROVE  Stays({a0} \ {NULL}, u, d, e)
    <3>1. ~(u = t /\ d = n)
      BY <1>1, <1>4, <2>1
    <3> QED
      BY <1>3, <1>4, <3>1 DEF Stays
  <2>2. \A a \in Addr \ ({a0} \ {NULL}) : mem'[a] = mem[a]
    BY <1>7 DEF OwnersChange
  <2>3. CallsKept({a0} \ {NULL})
    BY <2>1, <2>2 DEF CallsKept
  <2> QED
    BY <2>3, WithinKept
<1>10. NothingLost'
  <2> SUFFICES ASSUME NEW a \in Blocks PROVE HasOwner(a)' \/ Unfinished(a)'
    BY <1>5 DEF NothingLost
  <2>1. HasOwner(a) => HasOwner(a)'
    BY <1>4, <1>5, <1>6 DEF HasOwner, Elements, ObjectAt
  <2>2. Unfinished(a) /\ a # a0 => Unfinished(a)'
    BY <1>5 DEF Unfinished, Elements, ObjectAt
  <2>3. a = a0 => HasOwner(a)
    BY <1>1 DEF HasOwner, a0
  <2> QED
    BY <2>1, <2>2, <2>3 DEF Lives, NothingLost
<1> QED
  BY <1>8, <1>9, <1>10 DEF Lives

-----------------------------------------------------------------------------
(* The steps in which a call goes on.                                      *)

LEMMA UnderWay ==
    ASSUME NewInvariant, Lives, NEW t \in Threads, stack[t] # <<>>, Top(t).at # NULL
    PROVE  /\ Top(t).at \in Blocks /\ mem[Top(t).at] \in Block /\ AtWork(Top(t), mem[Top(t).at])
           /\ mem[Top(t).at].objs \in Seq(Object) /\ mem[Top(t).at].room < Single
           /\ mem[Top(t).at].front \in Maybe(Nat) /\ mem[Top(t).at].room \in Int
           /\ Len(mem[Top(t).at].objs) \in Nat /\ Elements(Top(t).at) = 1..Len(mem[Top(t).at].objs)
<1>1. Len(stack[t]) \in DOMAIN stack[t] /\ Top(t) = stack[t][Len(stack[t])]
  BY TopFacts DEF NewInvariant
<1>2. Top(t).at \in Blocks
  BY <1>1, OwnerFacts
<1>3. mem[Top(t).at] \in Block /\ mem[Top(t).at].objs \in Seq(Object)
      /\ mem[Top(t).at].front \in Maybe(Nat) /\ mem[Top(t).at].room \in Int
  BY <1>2, BlockFacts DEF NewInvariant
<1> QED
  BY <1>1, <1>2, <1>3 DEF Lives, AsOwned, Elements

LEMMA MembersStay ==
    ASSUME NewInvariant, Lives, mem' = mem, NEW a \in Blocks
    PROVE  SameMembersIn(a)
<1>1. mem[a] # NULL
  BY DEF Blocks
<1> QED
  BY <1>1 DEF SameMembersIn, Elements, ObjectAt, Lives, AsOwned, MembersWhole

(* One element of a block changes, and nothing else. *)
LEMMA ElementChanges ==
    ASSUME NewInvariant, Lives, NEW a \in Blocks, NEW k \in Elements(a), NEW obj \in Object,
           mem' = SetObject(a, k, obj)
    PROVE  /\ \A b \in Addr \ {a} : mem'[b] = mem[b]
           /\ mem'[a].arena = mem[a].arena /\ mem'[a].class = mem[a].class
           /\ mem'[a].front = mem[a].front /\ mem'[a].room = mem[a].room
           /\ Len(mem'[a].objs) = Len(mem[a].objs) /\ DOMAIN mem'[a].objs = Elements(a)
           /\ mem'[a].objs[k] = obj /\ mem'[a] # NULL
           /\ \A l \in Elements(a) : l # k => mem'[a].objs[l] = mem[a].objs[l]
           /\ obj.member = ObjectAt(a, k).member
                 /\ (obj.member # NULL => obj.told = ObjectAt(a, k).told /\ obj.life # "dead")
              => SameMembersIn(a)
<1>1. a \in Addr /\ mem[a] \in Block /\ mem[a].objs \in Seq(Object)
  BY BlockFacts DEF NewInvariant
<1>2. k \in Int
  BY <1>1 DEF Elements
<1>3. /\ \A b \in Addr \ {a} : mem'[b] = mem[b]
      /\ mem' \in [Addr -> Maybe(Block)]
      /\ mem'[a] # NULL /\ DOMAIN mem'[a].objs = Elements(a)
      /\ mem'[a].objs[k] = obj
      /\ \A l \in Elements(a) : l # k => mem'[a].objs[l] = ObjectAt(a, l)
  BY <1>2, SetObjectFacts DEF NewInvariant
<1>4. mem' = [mem EXCEPT ![a] = [mem[a] EXCEPT !.objs = [mem[a].objs EXCEPT ![k] = obj]]]
  BY DEF SetObject
<1>5. mem'[a] = [mem[a] EXCEPT !.objs = [mem[a].objs EXCEPT ![k] = obj]]
  BY <1>1, <1>4 DEF NewInvariant, TypeOK
<1>6. /\ mem'[a].arena = mem[a].arena /\ mem'[a].class = mem[a].class
      /\ mem'[a].front = mem[a].front /\ mem'[a].room = mem[a].room
  BY <1>1, <1>5 DEF Block
<1>7. Len(mem'[a].objs) = Len(mem[a].objs)
  <2>1. mem'[a] \in Block
    BY <1>1, <1>3 DEF Maybe
  <2>2. mem'[a].objs \in Seq(Object)
    BY <2>1 DEF Block
  <2> QED
    BY <1>1, <1>3, <2>2 DEF Elements
<1>8. ASSUME obj.member = ObjectAt(a, k).member,
             obj.member # NULL => obj.told = ObjectAt(a, k).told /\ obj.life # "dead"
      PROVE  SameMembersIn(a)
  <2>1. \A l \in Elements(a) : ObjectAt(a, l).member # NULL => ObjectAt(a, l).life # "dead"
    BY DEF Lives, AsOwned, MembersWhole
  <2>2. ASSUME NEW l \in Elements(a)
        PROVE  /\ mem'[a].objs[l].member = ObjectAt(a, l).member
               /\ ObjectAt(a, l).member # NULL =>
                     mem'[a].objs[l].told = ObjectAt(a, l).told /\ mem'[a].objs[l].life # "dead"
    BY <1>3, <1>8, <2>1
  <2> QED
    BY <1>3, <1>6, <2>2 DEF SameMembersIn
<1> QED
  BY <1>3, <1>6, <1>7, <1>8 DEF ObjectAt

LEMMA ConstructLives ==
    ASSUME NewInvariant, NewInvariant', Lives, NEW t \in Threads, Construct(t)
    PROVE  Lives'
<1> DEFINE a == Top(t).at
           k == Constructs(t)
           obj == ObjectAt(a, k)
           now == [obj EXCEPT !.life = "live"]
           next == [Top(t) EXCEPT !.i = @ + 1]
<1>1. /\ stack[t] # <<>> /\ Top(t).pc = "construct" /\ Top(t).i < Top(t).count /\ k <= mem[a].room
      /\ mem' = SetObject(a, k, now)
      /\ stack' = Becomes(t, next) /\ UNCHANGED <<checked, owned, ledger, asserted, fault>>
  BY DEF Construct, Constructing, Runs
<1>2. Top(t) \in Frame /\ Top(t).i \in Nat /\ Top(t).count \in Nat /\ k = Top(t).i + 1
  BY <1>1, TopFacts DEF NewInvariant, Constructs
<1>3. Shape(Top(t)) /\ a # NULL /\ a \in Blocks
  BY <1>1, <1>2, TopBlock, ElementBlock
<1>4. next \in Frame /\ next.at = a /\ next.op = Top(t).op /\ next.via = Top(t).via
      /\ next.pc = "construct" /\ next.count = Top(t).count /\ next.i = k
  BY <1>1, <1>2 DEF Frame
<1>5. Making(Top(t), mem[a]) /\ Top(t).op \in {"new", "newa"} /\ Elements(a) = 1..Top(t).count
      /\ Len(mem[a].objs) = Top(t).count
  BY <1>1, <1>3, UnderWay DEF AtWork, Shape, Making
<1>6. k \in Elements(a) /\ obj \in Object
  <2>1. k \in Elements(a)
    BY <1>1, <1>2, <1>5
  <2> QED
    BY <1>3, <2>1, BlockFacts DEF NewInvariant
<1>7. now \in Object /\ now.member = obj.member /\ now.told = obj.told /\ now.life = "live"
  BY <1>6 DEF Object
<1> HIDE DEF next, now, a, k, obj
<1>8. /\ \A b \in Addr \ {a} : mem'[b] = mem[b]
      /\ mem'[a].arena = mem[a].arena /\ mem'[a].class = mem[a].class
      /\ mem'[a].front = mem[a].front /\ mem'[a].room = mem[a].room
      /\ Len(mem'[a].objs) = Len(mem[a].objs) /\ DOMAIN mem'[a].objs = Elements(a)
      /\ mem'[a].objs[k] = now
      /\ \A l \in Elements(a) : l # k => mem'[a].objs[l] = mem[a].objs[l]
      /\ SameMembersIn(a)
  BY <1>1, <1>3, <1>6, <1>7, ElementChanges DEF obj
<1>9. Making(next, mem'[a])
  <2>1. AllIn(mem'[a], 1..next.i, "live")
    <3>1. \A l \in Elements(a) : l \in 1..Top(t).i => mem[a].objs[l].life = "live"
      BY <1>5 DEF Making, AllIn, Elements
    <3>2. \A l \in 1..k : l = k \/ l \in 1..Top(t).i
      BY <1>2
    <3> QED
      BY <1>2, <1>4, <1>7, <1>8, <3>1, <3>2 DEF AllIn
  <2>2. AllIn(mem'[a], (next.i + 1)..next.count, "raw")
    <3>1. \A l \in Elements(a) : l \in (Top(t).i + 1)..Top(t).count => mem[a].objs[l].life = "raw"
      BY <1>5 DEF Making, AllIn, Elements
    <3>2. \A l \in (k + 1)..Top(t).count : l # k /\ l \in (Top(t).i + 1)..Top(t).count
      BY <1>2
    <3> QED
      BY <1>4, <1>8, <3>1, <3>2 DEF AllIn
  <2>3. next.count = 1 => mem'[a].objs[1].told = mem[a].objs[1].told
    <3>1. 1 \in Elements(a) => mem'[a].objs[1].told = mem[a].objs[1].told
      BY <1>7, <1>8 DEF obj, ObjectAt
    <3> QED
      BY <1>4, <1>5, <3>1
  <2>4. \A array : Marked(mem[a], array) => Marked(mem'[a], array)
    BY <1>8 DEF Marked
  <2>5. next.count = Len(mem'[a].objs) /\ next.i <= next.count /\ next.i <= mem'[a].room
    BY <1>1, <1>2, <1>4, <1>5, <1>8
  <2> QED
    BY <1>1, <1>4, <1>5, <1>8, <2>1, <2>2, <2>3, <2>4, <2>5 DEF Making
<1> QED
  BY <1>1, <1>3, <1>4, <1>5, <1>8, <1>9, AdvanceLives DEF AtWork, a

LEMMA WriteCountLives ==
    ASSUME NewInvariant, NewInvariant', Lives, NEW t \in Threads, WriteCount(t), fault' = "none"
    PROVE  Lives'
<1> DEFINE new == Top(t)
           a == new.at
           next == [new EXCEPT !.pc = IF new.op = "newa" THEN "construct" ELSE "tell"]
           front == IF new.op = "newa" THEN new.count ELSE Single
           now == [mem[a] EXCEPT !.front = front]
<1>1. /\ stack[t] # <<>> /\ new.pc = "front" /\ a # NULL /\ ~(mem[a].room < 0)
      /\ mem' = [mem EXCEPT ![a].front = front]
      /\ stack' = Becomes(t, next) /\ UNCHANGED <<checked, owned, ledger, asserted, fault>>
  BY DEF WriteCount, Runs, Dies
<1>2. new \in Frame /\ new.i \in Nat /\ new.count \in Nat /\ Shape(new)
  BY <1>1, TopFacts, TopBlock DEF NewInvariant
<1>3. /\ a \in Blocks /\ mem[a] \in Block /\ Making(new, mem[a]) /\ new.op \in {"new", "newa"}
      /\ mem[a].objs \in Seq(Object) /\ mem[a].room \in Int
  BY <1>1, <1>2, UnderWay DEF AtWork, Shape
<1>4. /\ next \in Frame /\ next.at = a /\ next.op = new.op /\ next.via = new.via
      /\ next.count = new.count /\ next.i = new.i
      /\ next.pc = IF new.op = "newa" THEN "construct" ELSE "tell"
  BY <1>1, <1>2 DEF Frame
<1>5. /\ mem'[a] = now /\ now.arena = mem[a].arena /\ now.class = mem[a].class /\ now.room = mem[a].room
      /\ now.objs = mem[a].objs /\ now.front = front /\ \A b \in Addr \ {a} : mem'[b] = mem[b]
  <2>1. a \in Addr /\ mem \in [Addr -> Maybe(Block)]
    BY <1>3 DEF Blocks, NewInvariant, TypeOK
  <2>2. mem' = [mem EXCEPT ![a] = now]
    BY <1>1, <2>1
  <2>3. now.objs = mem[a].objs /\ now.front = front /\ now.arena = mem[a].arena /\ now.class = mem[a].class
        /\ now.room = mem[a].room
    BY <1>3 DEF Block
  <2> QED
    BY <2>1, <2>2, <2>3
<1>6. mem'[a] # NULL
  <2>1. front \in Maybe(Nat)
    BY <1>2, NewAssumption DEF Single, Maybe
  <2>2. now \in Block
    BY <1>3, <2>1 DEF Block
  <2> QED
    BY <1>5, <2>2, NewAssumption
<1> HIDE DEF now, next, a, front
<1>7. SameMembersIn(a)
  BY <1>3, <1>5, <1>6 DEF SameMembersIn, Elements, ObjectAt, Lives, AsOwned, MembersWhole
<1>8. Marked(mem'[a], new.op = "newa")
  BY <1>1, <1>3, <1>5 DEF Marked, Making, front, Headed
<1>9. Making(next, mem'[a])
  <2>1. AllIn(mem'[a], 1..next.i, "live") /\ AllIn(mem'[a], (next.i + 1)..next.count, "raw")
    BY <1>3, <1>4, <1>5 DEF Making, AllIn
  <2>2. next.i = 0 /\ next.count = Len(mem'[a].objs) /\ next.i <= mem'[a].room
        /\ \A k \in DOMAIN mem'[a].objs : mem'[a].objs[k].member = NULL
    BY <1>1, <1>3, <1>4, <1>5 DEF Making
  <2> QED
    BY <1>3, <1>4, <1>5, <1>8, <2>1, <2>2 DEF Making
<1> QED
  BY <1>1, <1>3, <1>4, <1>5, <1>7, <1>9, AdvanceLives DEF AtWork, a

LEMMA TellAllocatorLives ==
    ASSUME NewInvariant, NewInvariant', Lives, NEW t \in Threads, TellAllocator(t)
    PROVE  Lives'
<1> DEFINE new == Top(t)
           a == new.at
           obj == ObjectAt(a, 1)
           now == Told(obj, new.via)
           next == [new EXCEPT !.pc = "construct", !.count = IF a = NULL THEN 0 ELSE 1]
<1>1. /\ stack[t] # <<>> /\ new.pc = "tell"
      /\ mem' = IF a # NULL /\ mem[a].class = "keeper" THEN SetObject(a, 1, now) ELSE mem
      /\ stack' = Becomes(t, next) /\ UNCHANGED <<checked, owned, ledger, asserted, fault>>
  BY DEF TellAllocator, Runs
<1>2. new \in Frame /\ new.i \in Nat /\ new.count \in Nat /\ Shape(new) /\ new.via \in Maybe(Allocators)
  BY <1>1, TopFacts, TopBlock DEF NewInvariant
<1>3. next \in Frame /\ next.at = a /\ next.op = new.op /\ next.via = new.via
      /\ next.pc = "construct" /\ next.count = (IF a = NULL THEN 0 ELSE 1) /\ next.i = new.i
  BY <1>2 DEF Frame
<1>4. CASE a = NULL
  <2>1. mem' = mem
    BY <1>1, <1>4
  <2> HIDE DEF next
  <2> QED
    BY <1>1, <1>3, <1>4, <2>1, AdvanceLives
<1>5. CASE a # NULL
  <2>1. /\ a \in Blocks /\ Making(new, mem[a]) /\ new.op = "new" /\ Elements(a) = 1..Len(mem[a].objs)
        /\ Marked(mem[a], FALSE) /\ Len(mem[a].objs) = 1 /\ mem[a].room >= 1 /\ mem[a].room \in Int
        /\ next.i = 0 /\ next.count = 1 /\ mem[a].arena = new.via
    BY <1>1, <1>2, <1>3, <1>5, UnderWay DEF AtWork, Shape, Making
  <2>2. 1 \in Elements(a) /\ obj \in Object /\ obj.life = "raw" /\ obj.member = NULL
    <3>1. 1 \in Elements(a)
      BY <2>1
    <3>2. obj \in Object
      BY <2>1, <3>1, BlockFacts DEF NewInvariant
    <3> QED
      BY <1>1, <2>1, <3>1, <3>2 DEF Making, AllIn, Elements, ObjectAt
  <2>3. now \in Object /\ now.member = NULL /\ now.life = "raw" /\ now.told = new.via
    BY <1>2, <2>2 DEF Told, Object
  <2> HIDE DEF next, now
  <2>4. /\ \A b \in Addr \ {a} : mem'[b] = mem[b]
        /\ mem'[a].arena = mem[a].arena /\ mem'[a].class = mem[a].class
        /\ mem'[a].front = mem[a].front /\ mem'[a].room = mem[a].room
        /\ Len(mem'[a].objs) = Len(mem[a].objs) /\ DOMAIN mem'[a].objs = Elements(a)
        /\ mem'[a].objs[1].life = "raw" /\ SameMembersIn(a)
        /\ mem'[a].class = "keeper" => mem'[a].objs[1].told = new.via
    <3>1. CASE mem[a].class = "keeper"
      <4>1. mem' = SetObject(a, 1, now)
        BY <1>1, <1>5, <3>1
      <4> QED
        BY <2>1, <2>2, <2>3, <4>1, ElementChanges
    <3>2. CASE mem[a].class # "keeper"
      <4>1. mem' = mem
        BY <1>1, <3>2
      <4> QED
        BY <2>1, <2>2, <3>2, <4>1, MembersStay DEF Elements, ObjectAt
    <3> QED
      BY <3>1, <3>2
  <2>5. Making(next, mem'[a])
    <3>1. AllIn(mem'[a], 1..next.i, "live") /\ AllIn(mem'[a], (next.i + 1)..next.count, "raw")
      BY <2>1, <2>4 DEF AllIn
    <3>2. Marked(mem'[a], FALSE)
      BY <2>1, <2>4 DEF Marked
    <3>3. new.via # Untold
      BY <1>2, NewAssumption
    <3>4. next.count = Len(mem'[a].objs) /\ next.i <= next.count /\ next.i <= mem'[a].room
      BY <2>1, <2>4
    <3> QED
      BY <1>3, <2>1, <2>4, <3>1, <3>2, <3>3, <3>4 DEF Making
  <2> HIDE DEF a
  <2> QED
    BY <1>1, <1>3, <2>1, <2>4, <2>5, AdvanceLives DEF AtWork, a
<1> QED
  BY <1>4, <1>5

LEMMA ReportDeleteLives ==
    ASSUME NewInvariant, NewInvariant', Lives, NEW t \in Threads, ReportDelete(t)
    PROVE  Lives'
<1> DEFINE old == Top(t)
           a == old.at
           next == IF checked THEN [old EXCEPT !.pc = "read"] ELSE [old EXCEPT !.pc = "destroy", !.count = 1]
<1>1. /\ stack[t] # <<>> /\ old.pc = "report" /\ old.op = "delete"
      /\ stack' = Becomes(t, next) /\ UNCHANGED <<checked, mem, owned, asserted, fault>>
  BY DEF ReportDelete, Runs, Headed
<1>2. old \in Frame /\ old.i \in Nat /\ Shape(old)
  BY <1>1, TopFacts, TopBlock DEF NewInvariant
<1>3. a # NULL
  BY <1>1, <1>2 DEF Shape
<1>4. /\ a \in Blocks /\ Unmaking(old, mem[a]) /\ mem[a].front \in Maybe(Nat)
      /\ Len(mem[a].objs) \in Nat /\ Elements(a) = 1..Len(mem[a].objs)
  BY <1>1, <1>3, UnderWay DEF AtWork
<1>5. /\ next \in Frame /\ next.at = a /\ next.op = "delete" /\ next.via = old.via /\ next.i = old.i
      /\ IF checked THEN next.pc = "read" ELSE next.pc = "destroy" /\ next.count = 1
  BY <1>1, <1>2 DEF Frame
<1> HIDE DEF next, a
<1>6. Unmaking(next, mem[a])
  <2>1. /\ mem[a].arena = next.via /\ (Marked(mem[a], TRUE) \/ Marked(mem[a], FALSE))
        /\ Len(mem[a].objs) <= mem[a].room /\ AllIn(mem[a], DOMAIN mem[a].objs, "live") /\ next.i = 0
    BY <1>1, <1>4, <1>5 DEF Unmaking
  <2>2. ~checked => Counted(next, mem[a])
    BY <1>4, <1>5, <2>1, NewAssumption DEF Counted, Marked
  <2>3. ~checked => /\ AllIn(mem[a], 1..(next.count - next.i), "live")
                    /\ AllIn(mem[a], (next.count - next.i + 1)..next.count, "dead")
    BY <1>5, <2>1 DEF AllIn
  <2> QED
    <3>1. CASE checked
      BY <1>5, <2>1, <3>1 DEF Unmaking, Headed
    <3>2. CASE ~checked
      <4>1. next.pc = "destroy" /\ next.i <= next.count
        BY <1>5, <2>1, <3>2
      <4> QED
        BY <1>5, <2>1, <2>2, <2>3, <3>2, <4>1 DEF Unmaking
    <3> QED
      BY <3>1, <3>2
<1> QED
  BY <1>1, <1>4, <1>5, <1>6, MembersStay, AdvanceLives DEF AtWork, a

LEMMA ReadCountLives ==
    ASSUME NewInvariant, NewInvariant', Lives, NEW t \in Threads, ReadCount(t), fault' = "none"
    PROVE  Lives'
<1> DEFINE old == Top(t)
           a == old.at
           front == mem[a].front
           next == [old EXCEPT !.pc = "destroy", !.count = CountOf(front)]
<1>1. /\ stack[t] # <<>> /\ old.pc = "read" /\ front # NULL
      /\ stack' = Becomes(t, next) /\ UNCHANGED <<checked, mem, owned, ledger, fault>>
  BY DEF ReadCount, Runs, Dies
<1>2. old \in Frame /\ old.i \in Nat /\ Shape(old)
  BY <1>1, TopFacts, TopBlock DEF NewInvariant
<1>3. a # NULL /\ old.op \in {"delete", "deletea"}
  BY <1>1, <1>2 DEF Shape, Frame
<1>4. /\ a \in Blocks /\ Unmaking(old, mem[a]) /\ mem[a].front \in Maybe(Nat) /\ mem[a].room < Single
      /\ Len(mem[a].objs) \in Nat /\ Elements(a) = 1..Len(mem[a].objs) /\ mem[a].room \in Int
  BY <1>1, <1>3, UnderWay DEF AtWork
<1>5. CountOf(front) = Len(mem[a].objs)
  <2>1. (Marked(mem[a], TRUE) \/ Marked(mem[a], FALSE)) /\ Len(mem[a].objs) <= mem[a].room
    BY <1>4 DEF Unmaking
  <2>2. Single \in Nat
    BY NewAssumption DEF Single
  <2>3. CASE Marked(mem[a], TRUE)
    <3>1. front = Len(mem[a].objs)
      BY <2>3 DEF Marked
    <3>2. front # Single
      BY <1>4, <2>1, <2>2, <3>1
    <3> QED
      BY <3>1, <3>2 DEF CountOf
  <2>4. CASE Marked(mem[a], FALSE)
    <3>1. Len(mem[a].objs) = 1 /\ checked /\ front = Single
      BY <1>1, <2>4 DEF Marked
    <3> QED
      BY <3>1 DEF CountOf
  <2> QED
    BY <2>1, <2>3, <2>4
<1>6. /\ next \in Frame /\ next.at = a /\ next.op = old.op /\ next.via = old.via /\ next.i = old.i
      /\ next.pc = "destroy" /\ next.count = Len(mem[a].objs)
  BY <1>2, <1>4, <1>5 DEF Frame
<1> HIDE DEF next, a
<1>7. Unmaking(next, mem[a])
  <2>1. /\ mem[a].arena = next.via /\ (Marked(mem[a], TRUE) \/ Marked(mem[a], FALSE))
        /\ Len(mem[a].objs) <= mem[a].room /\ AllIn(mem[a], DOMAIN mem[a].objs, "live") /\ next.i = 0
    BY <1>1, <1>4, <1>6 DEF Unmaking
  <2>2. /\ AllIn(mem[a], 1..(next.count - next.i), "live")
        /\ AllIn(mem[a], (next.count - next.i + 1)..next.count, "dead")
    BY <1>4, <1>6, <2>1 DEF AllIn
  <2> QED
    <3>1. next.i <= next.count /\ Counted(next, mem[a]) /\ mem[a].front # NULL
      BY <1>1, <1>4, <1>6, <2>1 DEF Counted
    <3> QED
      BY <1>6, <2>1, <2>2, <3>1 DEF Unmaking
<1> QED
  BY <1>1, <1>3, <1>4, <1>6, <1>7, MembersStay, AdvanceLives DEF AtWork, a

LEMMA ReportDeleteaLives ==
    ASSUME NewInvariant, NewInvariant', Lives, NEW t \in Threads, ReportDeletea(t)
    PROVE  Lives'
<1> DEFINE old == Top(t)
           a == old.at
           next == [old EXCEPT !.pc = "free"]
<1>1. /\ stack[t] # <<>> /\ old.pc = "destroy" /\ old.op = "deletea" /\ old.i = old.count
      /\ stack' = Becomes(t, next) /\ UNCHANGED <<checked, mem, owned, asserted, fault>>
  BY DEF ReportDeletea, Destroyed, Runs
<1>2. old \in Frame /\ old.i \in Nat /\ Shape(old)
  BY <1>1, TopFacts, TopBlock DEF NewInvariant
<1>3. a # NULL
  BY <1>1, <1>2 DEF Shape
<1>4. /\ a \in Blocks /\ Unmaking(old, mem[a])
      /\ Len(mem[a].objs) \in Nat /\ Elements(a) = 1..Len(mem[a].objs)
  BY <1>1, <1>3, UnderWay DEF AtWork
<1>5. /\ next \in Frame /\ next.at = a /\ next.op = "deletea" /\ next.via = old.via /\ next.pc = "free"
  BY <1>1, <1>2 DEF Frame
<1>6. Unmaking(next, mem[a])
  <2>1. AllIn(mem[a], DOMAIN mem[a].objs, "dead")
    <3>1. old.count = Len(mem[a].objs) /\ AllIn(mem[a], (old.count - old.i + 1)..old.count, "dead")
      BY <1>1, <1>4 DEF Unmaking, Counted
    <3>2. DOMAIN mem[a].objs = (old.count - old.i + 1)..old.count
      <4> HIDE DEF old, a
      <4> QED
        BY <1>1, <1>2, <1>4, <3>1 DEF Elements
    <3> QED
      BY <3>1, <3>2 DEF AllIn
  <2> QED
    BY <1>1, <1>4, <1>5, <2>1 DEF Unmaking
<1> HIDE DEF next, a
<1> QED
  BY <1>1, <1>4, <1>5, <1>6, MembersStay, AdvanceLives DEF AtWork, a

LEMMA DestroyLives ==
    ASSUME NewInvariant, NewInvariant', Lives, NEW t \in Threads, Destroy(t), fault' = "none"
    PROVE  Lives'
<1> DEFINE old == Top(t)
           a == old.at
           k == old.count - old.i
           obj == ObjectAt(a, k)
           now == [obj EXCEPT !.life = "dead"]
           next == [old EXCEPT !.i = @ + 1]
<1>1. /\ stack[t] # <<>> /\ old.pc = "destroy" /\ old.i < old.count
      /\ k \in Elements(a) /\ obj.life = "live" /\ obj.member = NULL
      /\ mem' = SetObject(a, k, now)
      /\ stack' = Becomes(t, next) /\ UNCHANGED <<checked, owned, ledger, asserted, fault>>
  BY DEF Destroy, Destroying, Runs, Dies, Alive, Victim, Destroys, Elements
<1>2. old \in Frame /\ old.i \in Nat /\ old.count \in Nat /\ Shape(old) /\ a # NULL
  BY <1>1, TopFacts, TopBlock, ElementBlock DEF NewInvariant
<1>3. old.op \in {"delete", "deletea"}
  BY <1>1, <1>2 DEF Shape, Frame
<1>4. /\ a \in Blocks /\ Unmaking(old, mem[a])
      /\ Len(mem[a].objs) \in Nat /\ Elements(a) = 1..Len(mem[a].objs)
  BY <1>1, <1>2, <1>3, UnderWay DEF AtWork
<1>5. /\ next \in Frame /\ next.at = a /\ next.op = old.op /\ next.via = old.via
      /\ next.pc = "destroy" /\ next.count = old.count /\ next.i = old.i + 1
  BY <1>1, <1>2 DEF Frame
<1>6. now \in Object /\ now.member = obj.member /\ now.life = "dead"
  <2>1. obj \in Object
    BY <1>1, <1>4, BlockFacts DEF NewInvariant
  <2> QED
    BY <2>1 DEF Object
<1> HIDE DEF next, now, a, k, obj
<1>7. /\ \A b \in Addr \ {a} : mem'[b] = mem[b]
      /\ mem'[a].arena = mem[a].arena
      /\ mem'[a].front = mem[a].front /\ mem'[a].room = mem[a].room
      /\ Len(mem'[a].objs) = Len(mem[a].objs) /\ DOMAIN mem'[a].objs = Elements(a)
      /\ mem'[a].objs[k] = now
      /\ \A l \in Elements(a) : l # k => mem'[a].objs[l] = mem[a].objs[l]
      /\ SameMembersIn(a)
  BY <1>1, <1>4, <1>6, ElementChanges DEF obj
<1>8. Unmaking(next, mem'[a])
  <2>1. AllIn(mem'[a], 1..(next.count - next.i), "live")
    <3>1. \A l \in Elements(a) : l \in 1..(old.count - old.i) => mem[a].objs[l].life = "live"
      BY <1>1, <1>4 DEF Unmaking, AllIn, Elements
    <3>2. \A l \in 1..(next.count - next.i) : l # k /\ l \in 1..(old.count - old.i)
      BY <1>2, <1>5 DEF k
    <3> QED
      BY <1>7, <3>1, <3>2 DEF AllIn
  <2>2. AllIn(mem'[a], (next.count - next.i + 1)..next.count, "dead")
    <3>1. \A l \in Elements(a) : l \in (old.count - old.i + 1)..old.count => mem[a].objs[l].life = "dead"
      BY <1>1, <1>4 DEF Unmaking, AllIn, Elements
    <3>2. \A l \in (next.count - next.i + 1)..next.count : l = k \/ l \in (old.count - old.i + 1)..old.count
      BY <1>2, <1>5 DEF k
    <3> QED
      BY <1>6, <1>7, <3>1, <3>2 DEF AllIn
  <2>3. \A array : Marked(mem[a], array) => Marked(mem'[a], array)
    BY <1>7 DEF Marked
  <2>4. next.i <= next.count /\ Counted(next, mem'[a])
    BY <1>1, <1>2, <1>4, <1>5, <1>7 DEF Unmaking, Counted
  <2> QED
    BY <1>1, <1>4, <1>5, <1>7, <2>1, <2>2, <2>3, <2>4 DEF Unmaking
<1> QED
  BY <1>1, <1>3, <1>4, <1>5, <1>7, <1>8, AdvanceLives DEF AtWork, a

-----------------------------------------------------------------------------
(* Calls that begin.                                                       *)

LEMMA Quotients ==
    ASSUME NEW n \in Nat \ {0}
    PROVE  /\ \A c \in Nat : (n * c) \div n = c
           /\ \A x \in Int : x \div n \in Int /\ (x >= 0 => x \div n <= x) /\ (x < 0 => x \div n < 0)
<1>1. \A x \in Int : /\ x \div n \in Int
                     /\ n * (x \div n) <= x /\ x < n * (x \div n) + n
  OBVIOUS
<1>2. ASSUME NEW c \in Nat PROVE (n * c) \div n = c
  <2> DEFINE q == (n * c) \div n
  <2>1. n * c \in Int
    OBVIOUS
  <2>2. q \in Int /\ n * q <= n * c /\ n * c < n * q + n
    BY <1>1, <2>1
  <2> HIDE DEF q
  <2>3. ~(q < c)
    <3>1. q < c => n * (q + 1) <= n * c
      BY <2>2
    <3> QED
      BY <2>2, <3>1
  <2>4. ~(q > c)
    <3>1. q > c => n * (c + 1) <= n * q
      BY <2>2
    <3> QED
      BY <2>2, <3>1
  <2>5. q = c
    BY <2>2, <2>3, <2>4
  <2> QED
    BY <2>5 DEF q
<1>3. ASSUME NEW x \in Int PROVE (x >= 0 => x \div n <= x) /\ (x < 0 => x \div n < 0)
  <2> DEFINE q == x \div n
  <2>1. q \in Int /\ n * q <= x /\ x < n * q + n
    BY <1>1
  <2> HIDE DEF q
  <2>2. q > 0 => q <= n * q
    BY <2>1
  <2>3. q >= 0 => n * q >= 0
    BY <2>1
  <2>4. (x >= 0 => q <= x) /\ (x < 0 => q < 0)
    BY <2>1, <2>2, <2>3
  <2> QED
    BY <2>4 DEF q
<1> QED
  BY <1>1, <1>2, <1>3

(* A block has room for what it was asked for, or its size has wrapped; it *)
(* never has room for Single elements.                                     *)
LEMMA RoomBounds ==
    ASSUME NEW op \in {"new", "newa"}, NEW count \in Nat, op = "new" => count = 1
    PROVE  LET room == (Bytes(op, count) - IF Headed(op) THEN SizeOfCount ELSE 0) \div SizeOfT
           IN  /\ room < Single
               /\ op = "new" => room >= 1
               /\ op = "newa" => count <= room \/ SizeOfT * count + SizeOfCount >= SizeLimit
<1> DEFINE front == IF Headed(op) THEN SizeOfCount ELSE 0
           all == SizeOfT * count + front
           x == Bytes(op, count) - front
<1>1. /\ SizeOfT \in Nat \ {0} /\ SizeOfCount \in Nat \ {0} /\ SizeLimit \in Nat
      /\ SizeLimit > SizeOfT + SizeOfCount
  BY NewAssumption
<1>2. front \in Nat /\ (op = "newa" => front = SizeOfCount) /\ front <= SizeOfCount
  BY <1>1 DEF Headed
<1>3. SizeOfT * count \in Nat /\ (count = 1 => SizeOfT * count = SizeOfT)
  BY <1>1
<1>4. all \in Nat /\ Bytes(op, count) = all % SizeLimit
  BY <1>2, <1>3 DEF Bytes
<1>5. /\ Bytes(op, count) \in Nat /\ Bytes(op, count) < SizeLimit
      /\ all < SizeLimit => Bytes(op, count) = all
  <2> HIDE DEF all
  <2> QED
    BY <1>1, <1>4
<1>6. /\ (SizeOfT * count) \div SizeOfT = count
      /\ x \div SizeOfT \in Int /\ (x >= 0 => x \div SizeOfT <= x) /\ (x < 0 => x \div SizeOfT < 0)
  <2>1. x \in Int
    BY <1>2, <1>5
  <2> HIDE DEF x
  <2> QED
    BY <1>1, <2>1, Quotients
<1>7. all < SizeLimit => x \div SizeOfT = count
  <2>1. all < SizeLimit => x = SizeOfT * count
    BY <1>2, <1>3, <1>5
  <2> QED
    BY <1>6, <2>1
<1>8. op = "new" => all < SizeLimit /\ x \div SizeOfT = 1 /\ 1 < Single
  <2>1. op = "new" => all < SizeLimit
    BY <1>1, <1>2, <1>3
  <2> QED
    BY <1>1, <1>7, <2>1 DEF Single
<1>9. op = "newa" => x < Single /\ x \in Int /\ 0 < Single
  BY <1>1, <1>2, <1>5 DEF Single
<1>10. Single \in Int
  BY <1>1 DEF Single
<1> HIDE DEF x
<1>11. x \div SizeOfT < Single
  BY <1>6, <1>8, <1>9, <1>10
<1>12. op = "newa" => count <= x \div SizeOfT \/ SizeOfT * count + SizeOfCount >= SizeLimit
  <2>1. op = "newa" => all = SizeOfT * count + SizeOfCount
    BY <1>2
  <2>2. CASE all < SizeLimit
    BY <1>7, <2>2
  <2>3. CASE ~(all < SizeLimit)
    BY <1>1, <1>4, <2>1, <2>3
  <2> QED
    BY <2>2, <2>3
<1> QED
  BY <1>8, <1>11, <1>12 DEF x

(* A call within the innermost one, or of a thread that was in none.  Who  *)
(* gave up a block gave it to this call.                                   *)
LEMMA CallLives ==
    ASSUME NewInvariant, NewInvariant', Lives, NEW t \in Threads, NEW frame \in Frame,
           stack' = Called(t, frame), NEW X, OwnersChange(X),
           \A u \in Threads : \A d \in DOMAIN stack[u] :
              \/ stack[u][d].at \notin X
              \/ u = t /\ d = Len(stack[t]) /\ frame.op \notin {"new", "newa"},
           stack[t] # <<>> /\ frame.op \in {"new", "newa"} =>
              /\ Top(t).pc = "construct" /\ Top(t).i < Top(t).count /\ frame.op = "newa"
              /\ ObjectAt(Top(t).at, Top(t).i + 1).member = NULL
              /\ ObjectAt(Top(t).at, Top(t).i + 1).told = frame.via,
           Blocks \subseteq Blocks', Blocks' \subseteq Blocks \cup {frame.at},
           \A p \in owned : p \in owned' \/ p.at = frame.at,
           \A b \in Blocks : \A k \in Elements(b) :
              /\ k \in DOMAIN mem'[b].objs /\ mem'[b].objs[k].life = ObjectAt(b, k).life
              /\ mem'[b].objs[k].member = ObjectAt(b, k).member \/ ObjectAt(b, k).member = frame.at
    PROVE  Lives'
<1> DEFINE n == Len(stack[t])
<1>1. stack[t] \in Seq(Frame) /\ n \in Nat /\ DOMAIN stack[t] = 1..n
  BY DEF NewInvariant, TypeOK
<1>2. /\ \A u \in Threads \ {t} : stack'[u] = stack[u]
      /\ DOMAIN stack'[t] = DOMAIN stack[t] \cup {n + 1} /\ stack'[t][n + 1] = frame
      /\ \A d \in DOMAIN stack[t] : stack'[t][d] = stack[t][d]
  BY CalledFacts DEF NewInvariant
<1>3. /\ \A u \in Threads : DOMAIN stack[u] \subseteq DOMAIN stack'[u]
      /\ \A u \in Threads : \A d \in DOMAIN stack[u] : stack'[u][d] = stack[u][d]
      /\ \A u \in Threads : \A d \in DOMAIN stack'[u] : d \in DOMAIN stack[u] \/ (u = t /\ d = n + 1)
  BY <1>2
<1>4. AsOwned'
  BY AsOwnedKept DEF Lives
<1>5. \A u \in Threads : Within(u)'
  <2>1. ASSUME NEW u \in Threads, NEW d \in DOMAIN stack'[u], NEW e \in DOMAIN stack'[u],
               d < e, stack'[u][e].op \in {"new", "newa"}
        PROVE  Stays(X, u, d, e) \/ ForElement(u, d, e)
    <3>1. CASE e \in DOMAIN stack[u]
      <4>1. stack[u] \in Seq(Frame) /\ stack'[u] \in Seq(Frame)
        BY DEF NewInvariant, TypeOK
      <4>2. d \in DOMAIN stack[u]
        BY <2>1, <3>1, <4>1
      <4>3. ~(u = t /\ d = n)
        BY <1>1, <2>1, <3>1
      <4> QED
        BY <1>3, <3>1, <4>2, <4>3 DEF Stays
    <3>2. CASE u = t /\ e = n + 1
      <4>1. frame.op \in {"new", "newa"} /\ stack'[t][e] = frame
        BY <1>2, <2>1, <3>2
      <4>2. d \in DOMAIN stack[t] /\ stack'[t][d] = stack[t][d] /\ d \in 1..n /\ stack[t] # <<>>
        BY <1>1, <1>2, <2>1, <3>2
      <4>3. Top(t).pc = "construct" /\ Top(t).i < Top(t).count /\ Top(t) = stack[t][n] /\ n \in DOMAIN stack[t]
        BY <1>1, <4>1, <4>2 DEF Top
      <4>4. CASE d = n
        <5>1. Top(t).at # NULL /\ Top(t).at \in Blocks
          BY <4>2, <4>3, ElementBlock
        <5>2. mem'[Top(t).at] = mem[Top(t).at]
          BY <4>1, <4>3, <5>1 DEF OwnersChange, Blocks
        <5> QED
          BY <3>2, <4>1, <4>2, <4>3, <4>4, <5>2 DEF ForElement, ObjectAt
      <4>5. CASE d < n
        <5>1. Top(t).op \in {"new", "newa"}
          BY <4>2, <4>3, TopBlock DEF Shape
        <5>2. stack[t][d].pc = "construct" /\ stack[t][d].i < stack[t][d].count
          BY <4>2, <4>3, <4>5, <5>1 DEF Lives, Within
        <5>3. e # d + 1
          BY <1>1, <3>2, <4>2, <4>5
        <5> QED
          BY <3>2, <4>2, <5>2, <5>3 DEF ForElement
      <4> QED
        BY <1>1, <4>2, <4>4, <4>5
    <3> QED
      BY <1>3, <2>1, <3>1, <3>2
  <2>2. CallsKept(X)
    BY <2>1 DEF CallsKept, OwnersChange
  <2> QED
    BY <2>2, WithinKept
<1>6. NothingLost'
  <2> SUFFICES ASSUME NEW a \in Blocks' PROVE HasOwner(a)' \/ Unfinished(a)'
    BY DEF NothingLost
  <2>1. CASE a = frame.at
    BY <1>2, <2>1 DEF HasOwner
  <2>2. CASE a \in Blocks /\ a # frame.at
    <3>1. (\E p \in owned : p.at = a) => HasOwner(a)'
      BY <2>2 DEF HasOwner
    <3>2. (\E u \in Threads : \E d \in DOMAIN stack[u] : stack[u][d].at = a) => HasOwner(a)'
      BY <1>3 DEF HasOwner
    <3>3. (\E b \in Blocks : \E k \in Elements(b) : ObjectAt(b, k).member = a) => HasOwner(a)'
      BY <2>2 DEF HasOwner, Elements, ObjectAt
    <3>4. Unfinished(a) => Unfinished(a)'
      BY <2>2 DEF Unfinished, Elements, ObjectAt
    <3> QED
      BY <2>2, <3>1, <3>2, <3>3, <3>4 DEF Lives, NothingLost, HasOwner
  <2> QED
    BY <2>1, <2>2
<1> QED
  BY <1>4, <1>5, <1>6 DEF Lives

LEMMA AllocateLives ==
    ASSUME NewInvariant, NewInvariant', Lives, NEW t \in Threads, NEW op \in {"new", "newa"}, NEW class \in Class,
           NEW count \in Nat, NEW via \in Maybe(Allocators), Allocate(t, op, class, count, via),
           op = "new" => count = 1,
           stack[t] # <<>> =>
              /\ Top(t).pc = "construct" /\ Top(t).i < Top(t).count /\ op = "newa"
              /\ ObjectAt(Top(t).at, Top(t).i + 1).member = NULL
              /\ ObjectAt(Top(t).at, Top(t).i + 1).told = via
    PROVE  Lives'
<1>1. PICK a \in {b \in Addr : mem[b] = NULL} \cup {NULL} :
         /\ mem' = IF a = NULL THEN mem
                   ELSE [mem EXCEPT ![a] =
                           [arena |-> via, class |-> class, front |-> NULL,
                            room  |-> (Bytes(op, count) - IF Headed(op) THEN SizeOfCount ELSE 0) \div SizeOfT,
                            objs  |-> [k \in 1..count |-> Raw]]]
         /\ stack' = Called(t, [op |-> op, via |-> via, at |-> a, count |-> count, i |-> 0,
                                pc |-> IF Headed(op) THEN "front" ELSE "tell"])
         /\ UNCHANGED <<checked, owned, ledger, asserted, fault>>
  BY DEF Allocate
<1> DEFINE block == [arena |-> via, class |-> class, front |-> NULL,
                     room  |-> (Bytes(op, count) - IF Headed(op) THEN SizeOfCount ELSE 0) \div SizeOfT,
                     objs  |-> [k \in 1..count |-> Raw]]
           frame == [op |-> op, via |-> via, at |-> a, count |-> count, i |-> 0,
                     pc |-> IF Headed(op) THEN "front" ELSE "tell"]
           X == {a} \ {NULL}
<1>2. a \in Maybe(Addr) /\ a \notin Blocks
  BY <1>1, NewAssumption DEF Maybe, Blocks
<1>3. frame \in Frame /\ frame.at = a /\ frame.op = op /\ frame.via = via /\ frame.count = count /\ frame.i = 0
      /\ frame.pc = (IF Headed(op) THEN "front" ELSE "tell")
  BY <1>2 DEF Frame
<1>4. block.arena = via /\ block.front = NULL /\ Len(block.objs) = count
      /\ DOMAIN block.objs = 1..count
      /\ \A k \in 1..count : block.objs[k].life = "raw" /\ block.objs[k].member = NULL
  BY DEF Raw
<1>5. /\ block.room < Single /\ block.room \in Int
      /\ op = "new" => block.room >= 1
      /\ op = "newa" => count <= block.room \/ SizeOfT * count + SizeOfCount >= SizeLimit
  BY RoomBounds, RoomFacts
<1>6. Raw \in Object /\ block \in Block
  <2>1. Raw \in Object
    BY DEF Raw, Object, Maybe
  <2>2. [k \in 1..count |-> Raw] \in Seq(Object)
    BY <2>1
  <2> QED
    BY <2>1, <2>2, RoomFacts DEF Block, Maybe
<1>7. Making(frame, block)
  <2>1. AllIn(block, 1..frame.i, "live") /\ AllIn(block, (frame.i + 1)..frame.count, "raw")
    BY <1>3, <1>4 DEF AllIn
  <2>2. ~Headed(op) => op = "new" /\ Marked(block, FALSE)
    BY <1>4 DEF Headed, Marked
  <2>3. Headed(frame.op) <=> Headed(op)
    BY <1>3
  <2>4. frame.pc # "construct" /\ frame.count = Len(block.objs) /\ frame.i <= frame.count
    BY <1>3, <1>4
  <2> HIDE DEF frame, block
  <2>5. IF frame.pc = "front" THEN Headed(frame.op) ELSE Marked(block, frame.op = "newa")
    BY <1>3, <2>2, <2>3
  <2>6. frame.pc = "tell" => frame.op = "new"
    BY <1>3, <2>2
  <2> QED
    BY <1>3, <1>4, <1>5, <2>1, <2>4, <2>5, <2>6 DEF Making
<1>8. stack' = Called(t, frame) /\ UNCHANGED <<checked, owned>>
  BY <1>1
<1>9. /\ Blocks' = Blocks \cup X /\ \A b \in Addr \ X : mem'[b] = mem[b]
      /\ a # NULL => mem'[a] = block
  <2> HIDE DEF frame
  <2>1. CASE a = NULL
    BY <1>1, <2>1 DEF Blocks
  <2>2. CASE a # NULL
    <3>1. a \in Addr /\ mem' = [mem EXCEPT ![a] = block] /\ block # NULL
      BY <1>1, <1>6, <2>2, NewAssumption DEF block
    <3> HIDE DEF block
    <3>2. mem'[a] = block /\ \A b \in Addr \ {a} : mem'[b] = mem[b]
      BY <3>1 DEF NewInvariant, TypeOK
    <3> QED
      BY <2>2, <3>1, <3>2 DEF Blocks
  <2> QED
    BY <2>1, <2>2
<1> HIDE DEF frame, block
<1>10. \A u \in Threads : \A d \in DOMAIN stack[u] : stack[u][d].at \notin X
  BY <1>2, OwnerFacts
<1>11. /\ \A u \in Threads : \A d \in DOMAIN stack[u] : stack'[u][d] = stack[u][d]
       /\ \A u \in Threads : \A d \in DOMAIN stack'[u] : d \in DOMAIN stack[u] \/ stack'[u][d] = frame
  <2>1. /\ \A u \in Threads \ {t} : stack'[u] = stack[u]
        /\ DOMAIN stack'[t] = DOMAIN stack[t] \cup {Len(stack[t]) + 1}
        /\ stack'[t][Len(stack[t]) + 1] = frame
        /\ \A d \in DOMAIN stack[t] : stack'[t][d] = stack[t][d]
    BY <1>3, <1>8, CalledFacts DEF NewInvariant
  <2> QED
    BY <2>1
<1>12. \A b \in Blocks : b \notin X /\ mem'[b] = mem[b]
  BY <1>2, <1>9 DEF Blocks
<1>13. OwnersChange(X)
  <2>1. \A b \in X \cap Blocks' : mem'[b].room < Single
    BY <1>5, <1>9
  <2>2. \A p \in owned' : p \in owned /\ p.at \notin X
    BY <1>2, <1>8, OwnerFacts
  <2>3. \A u \in Threads : \A d \in DOMAIN stack'[u] :
          \/ d \in DOMAIN stack[u] /\ stack'[u][d] = stack[u][d] /\ stack[u][d].at \notin X
          \/ stack'[u][d].at # NULL => AtWork(stack'[u][d], mem'[stack'[u][d].at])
    BY <1>3, <1>7, <1>9, <1>10, <1>11 DEF AtWork
  <2>4. ASSUME NEW b \in Blocks', NEW k \in DOMAIN mem'[b].objs, mem'[b].objs[k].member # NULL
        PROVE  /\ mem'[b].objs[k].life # "dead"
               /\ b \in Blocks /\ k \in Elements(b) /\ mem'[b].objs[k].member \notin X
               /\ mem'[b].objs[k].member = ObjectAt(b, k).member
               /\ mem'[b].objs[k].told = ObjectAt(b, k).told
    <3>1. b \in Blocks
      BY <1>4, <1>9, <2>4
    <3>2. k \in Elements(b) /\ mem'[b].objs[k] = ObjectAt(b, k)
      BY <1>12, <3>1 DEF Elements, ObjectAt
    <3> QED
      BY <1>2, <2>4, <3>1, <3>2, OwnerFacts DEF Lives, AsOwned, MembersWhole
  <2> QED
    BY <1>8, <1>9, <2>1, <2>2, <2>3, <2>4 DEF OwnersChange
<1>14. \A b \in Blocks : \A k \in Elements(b) :
              /\ k \in DOMAIN mem'[b].objs /\ mem'[b].objs[k].life = ObjectAt(b, k).life
              /\ mem'[b].objs[k].member = ObjectAt(b, k).member
  BY <1>12 DEF Elements, ObjectAt
<1>15. Blocks \subseteq Blocks' /\ Blocks' \subseteq Blocks \cup {frame.at} /\ \A p \in owned : p \in owned'
  BY <1>3, <1>8, <1>9
<1> HIDE DEF X
<1> QED
  BY <1>3, <1>8, <1>10, <1>13, <1>14, <1>15, CallLives

LEMMA NewLives ==
    ASSUME NewInvariant, NewInvariant', Lives, NEW t \in Threads,
           NEW use \in Uses, pml_new(t, use.class, use.via)
    PROVE  Lives'
BY AllocateLives, NewAssumption DEF pml_new, Calling

LEMMA NewaLives ==
    ASSUME NewInvariant, NewInvariant', Lives, NEW t \in Threads,
           NEW use \in Uses, NEW count \in Counts, pml_newa(t, use.class, count, use.via)
    PROVE  Lives'
BY AllocateLives, NewAssumption DEF pml_newa, Calling

LEMMA ConstructMemberLives ==
    ASSUME NewInvariant, NewInvariant', Lives, NEW t \in Threads, ConstructMember(t)
    PROVE  Lives'
<1> DEFINE obj == ObjectAt(Top(t).at, Top(t).i + 1)
<1>1. /\ stack[t] # <<>> /\ Top(t).pc = "construct" /\ Top(t).i < Top(t).count
      /\ obj.told \in Allocators /\ Allocate(t, "newa", "plain", 1, obj.told)
      /\ obj.member = NULL
  BY DEF ConstructMember, Constructing, Runs, Constructs, Complete
<1> HIDE DEF obj
<1>2. obj.told \in Maybe(Allocators) /\ "plain" \in Class /\ 1 \in Nat
  BY <1>1 DEF Maybe, Class
<1> QED
  BY <1>1, <1>2, AllocateLives DEF obj

(* What pml_delete finds is whole. *)
LEMMA DeleteStarts ==
    ASSUME NEW array \in BOOLEAN, NEW own \in BOOLEAN, NEW a, NEW via, NEW block, Whole(block, own, via)
    PROVE  AtWork(DeleteFrame(array, a, via), block)
<1> DEFINE frame == DeleteFrame(array, a, via)
<1>1. /\ frame.op = (IF array THEN "deletea" ELSE "delete") /\ frame.via = via /\ frame.i = 0
      /\ frame.pc = (IF array THEN "read" ELSE "report")
  BY DEF DeleteFrame
<1> HIDE DEF frame
<1>2. Marked(block, TRUE) \/ Marked(block, FALSE)
  BY DEF Whole
<1>3. Unmaking(frame, block)
  BY <1>1, <1>2 DEF Whole, Unmaking, Headed
<1> QED
  BY <1>1, <1>3 DEF AtWork, frame

LEMMA DeleteLives ==
    ASSUME NewInvariant, NewInvariant', Lives, NEW t \in Threads,
           NEW p \in owned, NEW array \in BOOLEAN, pml_delete(t, p, array)
    PROVE  Lives'
<1> DEFINE frame == DeleteFrame(array, p.at, p.via)
<1>1. /\ stack[t] = <<>> /\ owned' = owned \ {p} /\ stack' = Called(t, frame)
      /\ UNCHANGED <<checked, mem, ledger, asserted, fault>>
  BY DEF pml_delete, Calling
<1>2. p \in Pointer /\ p.at \in Addr /\ p.via \in Maybe(Allocators) /\ p.array \in BOOLEAN
  BY OwnerFacts DEF Pointer
<1>3. frame \in Frame /\ frame.at = p.at /\ frame.op \notin {"new", "newa"}
  BY <1>2, DeleteFrameFacts DEF DeleteFrame
<1>4. AtWork(frame, mem[p.at])
  BY <1>2, DeleteStarts DEF Lives, AsOwned
<1> HIDE DEF frame
<1>5. /\ \A u \in Threads : \A d \in DOMAIN stack[u] : stack'[u][d] = stack[u][d]
      /\ \A u \in Threads : \A d \in DOMAIN stack'[u] : d \in DOMAIN stack[u] \/ stack'[u][d] = frame
  <2>1. /\ \A u \in Threads \ {t} : stack'[u] = stack[u]
        /\ DOMAIN stack'[t] = DOMAIN stack[t] \cup {Len(stack[t]) + 1}
        /\ stack'[t][Len(stack[t]) + 1] = frame
        /\ \A d \in DOMAIN stack[t] : stack'[t][d] = stack[t][d]
    BY <1>1, <1>3, CalledFacts DEF NewInvariant
  <2> QED
    BY <2>1
<1>6. Blocks' = Blocks
  BY <1>1 DEF Blocks
<1>7. OwnersChange({})
  <2>1. \A u \in Threads : \A d \in DOMAIN stack'[u] :
          \/ d \in DOMAIN stack[u] /\ stack'[u][d] = stack[u][d]
          \/ stack'[u][d].at # NULL => AtWork(stack'[u][d], mem'[stack'[u][d].at])
    BY <1>1, <1>3, <1>4, <1>5
  <2>2. \A b \in Blocks' : \A k \in DOMAIN mem'[b].objs : mem'[b].objs[k].member # NULL =>
           /\ mem'[b].objs[k].life # "dead"
           /\ b \in Blocks /\ k \in Elements(b) /\ mem'[b].objs[k] = ObjectAt(b, k)
    BY <1>1, <1>6 DEF Lives, AsOwned, MembersWhole, ObjectAt, Elements
  <2> QED
    BY <1>1, <2>1, <2>2 DEF OwnersChange
<1>8. \A b \in Blocks : \A k \in Elements(b) :
              /\ k \in DOMAIN mem'[b].objs /\ mem'[b].objs[k].life = ObjectAt(b, k).life
              /\ mem'[b].objs[k].member = ObjectAt(b, k).member
  BY <1>1 DEF Elements, ObjectAt
<1>9. \A q \in owned : q \in owned' \/ q.at = frame.at
  BY <1>1, <1>3
<1> QED
  BY <1>1, <1>3, <1>6, <1>7, <1>8, <1>9, CallLives

LEMMA DestroyMemberLives ==
    ASSUME NewInvariant, NewInvariant', Lives, NEW t \in Threads, DestroyMember(t)
    PROVE  Lives'
<1> DEFINE old == Top(t)
           n == Len(stack[t])
           a == old.at
           k == Victim(t)
           obj == ObjectAt(a, k)
           m == obj.member
           bare == [obj EXCEPT !.member = NULL]
           frame == DeleteFrame(TRUE, m, obj.told)
           X == {a}
<1>1. /\ stack[t] # <<>> /\ old.pc = "destroy" /\ old.i < old.count
      /\ k \in Elements(a) /\ m # NULL /\ mem' = SetObject(a, k, bare)
      /\ stack' = Called(t, frame) /\ UNCHANGED <<checked, owned, ledger, asserted, fault>>
  BY DEF DestroyMember, Destroying, Runs, Alive, Elements
<1>2. old \in Frame /\ old.i \in Nat /\ old.count \in Nat /\ Shape(old) /\ a # NULL /\ a \in Blocks
      /\ n \in DOMAIN stack[t] /\ old = stack[t][n]
  BY <1>1, TopFacts, TopBlock, ElementBlock DEF NewInvariant
<1>3. old.op \in {"delete", "deletea"} /\ Unmaking(old, mem[a]) /\ mem[a].room < Single
  <2>1. old.op \in {"delete", "deletea"}
    BY <1>1, <1>2 DEF Shape, Frame
  <2> QED
    BY <1>1, <1>2, <2>1, UnderWay DEF AtWork
<1>4. obj \in Object /\ m \in Blocks /\ m # a /\ obj.told \in Maybe(Allocators)
  <2>1. obj \in Object /\ obj.told \in Maybe(Allocators) \cup {Untold}
    BY <1>1, <1>2, BlockFacts DEF NewInvariant
  <2>2. m \in Blocks /\ obj.told # Untold
    BY <1>1, <1>2, OwnerFacts DEF NewInvariant, MembersTold
  <2>3. m # a
    BY <1>1, <1>2, CallAlone DEF NewInvariant
  <2> QED
    BY <2>1, <2>2, <2>3
<1>5. Whole(mem[m], TRUE, obj.told)
  BY <1>1, <1>2 DEF Lives, AsOwned, MembersWhole
<1>6. frame \in Frame /\ frame.at = m /\ frame.op = "deletea" /\ AtWork(frame, mem[m])
  <2>1. frame \in Frame /\ frame.at = m
    BY <1>4, DeleteFrameFacts DEF Blocks
  <2>2. AtWork(frame, mem[m])
    BY <1>5, DeleteStarts
  <2> QED
    BY <2>1, <2>2 DEF DeleteFrame
<1>7. bare \in Object /\ bare.member = NULL /\ bare.told = obj.told /\ bare.life = obj.life
  BY <1>4 DEF Object, Maybe
<1>8. /\ \A b \in Addr \ X : mem'[b] = mem[b]
      /\ mem'[a].arena = mem[a].arena /\ mem'[a].front = mem[a].front /\ mem'[a].room = mem[a].room
      /\ Len(mem'[a].objs) = Len(mem[a].objs) /\ DOMAIN mem'[a].objs = Elements(a)
      /\ mem'[a].objs[k] = bare /\ mem'[a] # NULL
      /\ \A l \in Elements(a) : l # k => mem'[a].objs[l] = mem[a].objs[l]
  <2> HIDE DEF bare, a, k, obj
  <2> QED
    BY <1>1, <1>2, <1>7, ElementChanges
<1>9. /\ \A u \in Threads : \A d \in DOMAIN stack[u] : stack'[u][d] = stack[u][d]
      /\ \A u \in Threads : \A d \in DOMAIN stack'[u] : d \in DOMAIN stack[u] \/ stack'[u][d] = frame
  <2> HIDE DEF frame
  <2>1. /\ \A u \in Threads \ {t} : stack'[u] = stack[u]
        /\ DOMAIN stack'[t] = DOMAIN stack[t] \cup {n + 1}
        /\ stack'[t][n + 1] = frame
        /\ \A d \in DOMAIN stack[t] : stack'[t][d] = stack[t][d]
    BY <1>1, <1>6, CalledFacts DEF NewInvariant
  <2> QED
    BY <2>1
<1>10. Blocks' = Blocks /\ \A b \in Blocks : b # a => mem'[b] = mem[b]
  <2> HIDE DEF a
  <2> QED
    BY <1>2, <1>8 DEF Blocks
<1>11. ASSUME NEW b \in Blocks, NEW l \in Elements(b)
       PROVE  /\ l \in DOMAIN mem'[b].objs /\ DOMAIN mem'[b].objs = Elements(b)
              /\ mem'[b].objs[l].life = ObjectAt(b, l).life /\ mem'[b].objs[l].told = ObjectAt(b, l).told
              /\ \/ mem'[b].objs[l].member = ObjectAt(b, l).member
                 \/ mem'[b].objs[l].member = NULL /\ ObjectAt(b, l).member = m
  <2>1. CASE b = a /\ l = k
    <3> HIDE DEF bare, a, k, m
    <3> QED
      BY <1>1, <1>7, <1>8, <2>1 DEF m
  <2>2. CASE b = a /\ l # k
    BY <1>8, <2>2 DEF ObjectAt
  <2>3. CASE b # a
    BY <1>10, <2>3 DEF ObjectAt, Elements
  <2> QED
    BY <2>1, <2>2, <2>3
<1>12. AtWork(old, mem'[a])
  <2>1. \A set, life : AllIn(mem[a], set, life) => AllIn(mem'[a], set, life)
    BY <1>2, <1>8, <1>11 DEF AllIn, ObjectAt, Elements
  <2>2. \A array : Marked(mem[a], array) => Marked(mem'[a], array)
    BY <1>8 DEF Marked
  <2>3. Counted(old, mem[a]) => Counted(old, mem'[a])
    BY <1>8 DEF Counted
  <2> HIDE DEF old, a
  <2>4. Unmaking(old, mem'[a])
    BY <1>1, <1>3, <1>8, <2>1, <2>2, <2>3 DEF Unmaking
  <2> QED
    BY <1>3, <2>4 DEF AtWork
<1>13. AtWork(frame, mem'[frame.at])
  BY <1>4, <1>6, <1>10
<1>14. /\ \A p \in owned : p.at # a
       /\ \A u \in Threads : \A e \in DOMAIN stack[u] : stack[u][e].at = a => u = t /\ e = n
       /\ \A b \in Blocks : \A l \in Elements(b) : ObjectAt(b, l).member # a
  BY <1>2, CallAlone DEF NewInvariant
<1> HIDE DEF frame, bare, a, k, m, obj, old, n
<1>15. OwnersChange(X)
  <2>1. \A u \in Threads : \A d \in DOMAIN stack'[u] :
          \/ d \in DOMAIN stack[u] /\ stack'[u][d] = stack[u][d] /\ stack[u][d].at \notin X
          \/ stack'[u][d].at # NULL => AtWork(stack'[u][d], mem'[stack'[u][d].at])
    <3> SUFFICES ASSUME NEW u \in Threads, NEW d \in DOMAIN stack'[u]
                 PROVE  \/ d \in DOMAIN stack[u] /\ stack'[u][d] = stack[u][d] /\ stack[u][d].at # a
                        \/ AtWork(stack'[u][d], mem'[stack'[u][d].at])
      OBVIOUS
    <3>1. CASE stack'[u][d] = frame
      BY <1>13, <3>1
    <3>2. CASE d \in DOMAIN stack[u] /\ stack[u][d].at = a
      <4>1. u = t /\ d = n /\ stack'[u][d] = old /\ old.at = a
        BY <1>2, <1>9, <1>14, <3>2 DEF a
      <4> QED
        BY <1>12, <4>1
    <3> QED
      BY <1>9, <3>1, <3>2
  <2>2. ASSUME NEW b \in Blocks', NEW l \in DOMAIN mem'[b].objs, mem'[b].objs[l].member # NULL
        PROVE  /\ mem'[b].objs[l].life # "dead"
               /\ b \in Blocks /\ l \in Elements(b) /\ mem'[b].objs[l].member \notin X
               /\ mem'[b].objs[l].member = ObjectAt(b, l).member
               /\ mem'[b].objs[l].told = ObjectAt(b, l).told
    <3>1. b \in Blocks /\ l \in Elements(b)
      BY <1>8, <1>10, <2>2 DEF Elements
    <3>2. mem'[b].objs[l].member = ObjectAt(b, l).member
      BY <1>11, <2>2, <3>1
    <3>3. ObjectAt(b, l).life # "dead"
      BY <2>2, <3>1, <3>2 DEF Lives, AsOwned, MembersWhole
    <3> QED
      BY <1>11, <1>14, <2>2, <3>1, <3>2, <3>3
  <2>3. \A p \in owned' : p \in owned /\ p.at \notin X
    BY <1>1, <1>14
  <2>4. \A b \in X \cap Blocks' : mem'[b].room < Single
    BY <1>3, <1>8
  <2>5. checked' = checked /\ \A b \in Addr \ X : mem'[b] = mem[b]
    BY <1>1, <1>8
  <2> HIDE DEF X
  <2> QED
    BY <2>1, <2>2, <2>3, <2>4, <2>5 DEF OwnersChange
<1>16. \A u \in Threads : \A d \in DOMAIN stack[u] : stack[u][d].at \notin X \/ (u = t /\ d = Len(stack[t]))
  BY <1>14 DEF n
<1> HIDE DEF X
<1> QED
  BY <1>1, <1>6, <1>10, <1>11, <1>15, <1>16, CallLives

-----------------------------------------------------------------------------
(* Calls that end.                                                         *)

LEMMA FewerCalls ==
    ASSUME NewInvariant, Lives, NEW X, \A a \in Addr \ X : mem'[a] = mem[a],
           \A u \in Threads : /\ DOMAIN stack'[u] \subseteq DOMAIN stack[u]
                              /\ \A d \in DOMAIN stack'[u] : stack'[u][d] = stack[u][d],
           \A u \in Threads : \A d, e \in DOMAIN stack'[u] : d < e => stack[u][d].at \notin X
    PROVE  \A u \in Threads : Within(u)'
<1>1. CallsKept(X)
  BY DEF CallsKept, Stays
<1> QED
  BY <1>1, WithinKept

(* A constructor within a call has an element to do yet. *)
LEMMA ElementRaw ==
    ASSUME NewInvariant, Lives, NEW t \in Threads, NEW d \in DOMAIN stack[t],
           stack[t][d].pc = "construct", stack[t][d].i < stack[t][d].count
    PROVE  LET frame == stack[t][d]
           IN  /\ frame.at \in Blocks /\ frame.at # NULL /\ Making(frame, mem[frame.at])
               /\ frame.i + 1 \in Elements(frame.at) /\ ObjectAt(frame.at, frame.i + 1).life = "raw"
               /\ Unfinished(frame.at)
<1> DEFINE frame == stack[t][d]
           a == frame.at
<1>1. frame \in Frame /\ Shape(frame) /\ (a # NULL => a \in Blocks)
  BY OwnerFacts
<1>2. frame.i \in Nat /\ frame.count \in Nat
  <2> HIDE DEF frame
  <2> QED
    BY <1>1 DEF Frame
<1>3. a # NULL /\ a \in Blocks /\ frame.op \in {"new", "newa"}
  BY <1>1, <1>2 DEF Shape
<1>4. Making(frame, mem[a])
  BY <1>3 DEF Lives, AsOwned, AtWork
<1>5. mem[a].objs \in Seq(Object)
  BY <1>3, BlockFacts DEF NewInvariant
<1>6. frame.i + 1 \in Elements(a) /\ frame.i + 1 \in (frame.i + 1)..frame.count
  <2> HIDE DEF frame, a
  <2>1. frame.count = Len(mem[a].objs) /\ frame.i < frame.count
    BY <1>4 DEF Making, frame
  <2> QED
    BY <1>2, <1>5, <2>1 DEF Elements
<1>7. ObjectAt(a, frame.i + 1).life = "raw"
  BY <1>4, <1>6 DEF Making, AllIn, Elements, ObjectAt
<1> QED
  BY <1>3, <1>4, <1>6, <1>7 DEF Unfinished

LEMMA ConstructorThrowsLives ==
    ASSUME NewInvariant, NewInvariant', Lives, NEW t \in Threads, ConstructorThrows(t)
    PROVE  Lives'
<1> DEFINE n == Len(stack[t])
<1>1. /\ stack[t] # <<>> /\ Top(t).pc = "construct" /\ Top(t).i < Top(t).count
      /\ stack' = [stack EXCEPT ![t] = <<>>] /\ UNCHANGED <<checked, mem, owned, ledger, asserted, fault>>
  BY DEF ConstructorThrows, Constructing, Runs
<1>2. /\ DOMAIN stack'[t] = {} /\ \A u \in Threads \ {t} : stack'[u] = stack[u]
      /\ \A u \in Threads : /\ DOMAIN stack'[u] \subseteq DOMAIN stack[u]
                            /\ \A d \in DOMAIN stack'[u] : stack'[u][d] = stack[u][d]
  BY <1>1 DEF NewInvariant, TypeOK
<1>3. OwnersChange({})
  <2>1. \A b \in Blocks' : \A k \in DOMAIN mem'[b].objs : mem'[b].objs[k].member # NULL =>
           /\ mem'[b].objs[k].life # "dead"
           /\ b \in Blocks /\ k \in Elements(b) /\ mem'[b].objs[k] = ObjectAt(b, k)
    BY <1>1 DEF Lives, AsOwned, MembersWhole, ObjectAt, Elements, Blocks
  <2> QED
    BY <1>1, <1>2, <2>1 DEF OwnersChange
<1>4. AsOwned'
  BY <1>3, AsOwnedKept DEF Lives
<1>5. \A u \in Threads : Within(u)'
  BY <1>1, <1>2, FewerCalls
<1>6. \A d \in DOMAIN stack[t] : stack[t][d].pc = "construct" /\ stack[t][d].i < stack[t][d].count
  <2>1. DOMAIN stack[t] = 1..n /\ n \in DOMAIN stack[t] /\ n \in Nat /\ Top(t) = stack[t][n]
    BY <1>1, TopFacts DEF NewInvariant
  <2>2. Top(t).op \in {"new", "newa"}
    BY <1>1, TopBlock DEF Shape
  <2>3. ASSUME NEW d \in DOMAIN stack[t] PROVE d = n \/ d < n
    BY <2>1
  <2> HIDE DEF n
  <2> QED
    BY <1>1, <2>1, <2>2, <2>3 DEF Lives, Within
<1>7. NothingLost'
  <2> SUFFICES ASSUME NEW a \in Blocks PROVE HasOwner(a)' \/ Unfinished(a)
    BY <1>1 DEF NothingLost, Blocks, Unfinished, Elements, ObjectAt
  <2>1. ASSUME NEW d \in DOMAIN stack[t], stack[t][d].at = a PROVE Unfinished(a)
    BY <1>6, <2>1, ElementRaw
  <2>2. ASSUME HasOwner(a), ~\E d \in DOMAIN stack[t] : stack[t][d].at = a PROVE HasOwner(a)'
    BY <1>1, <1>2, <2>2 DEF HasOwner, Blocks, Elements, ObjectAt
  <2> QED
    BY <2>1, <2>2 DEF Lives, NothingLost
<1> QED
  BY <1>4, <1>5, <1>7 DEF Lives

(* A block that is freed is one in which all is destroyed. *)
LEMMA FreesDead ==
    ASSUME NewInvariant, Lives, NEW t \in Threads, Free(t), FreesStart(t)
    PROVE  /\ stack[t] # <<>> /\ Top(t).at \in Blocks /\ Top(t).at # NULL
           /\ \A k \in Elements(Top(t).at) : ObjectAt(Top(t).at, k).life = "dead"
<1> DEFINE old == Top(t)
           a == old.at
<1>1. /\ stack[t] # <<>>
      /\ old.pc = "free" \/ (old.pc = "destroy" /\ old.op = "delete" /\ old.i = old.count)
  BY DEF Free, Destroyed, Runs
<1>2. old \in Frame /\ old.i \in Nat /\ old.count \in Nat /\ Shape(old)
  BY <1>1, TopFacts, TopBlock DEF NewInvariant
<1>3. a # NULL /\ old.op \in {"delete", "deletea"}
  BY <1>1, <1>2 DEF Shape
<1>4. /\ a \in Blocks /\ Unmaking(old, mem[a])
      /\ Len(mem[a].objs) \in Nat /\ Elements(a) = 1..Len(mem[a].objs)
  BY <1>1, <1>3, UnderWay DEF AtWork
<1>5. AllIn(mem[a], DOMAIN mem[a].objs, "dead")
  <2>1. CASE old.pc = "free"
    BY <1>4, <2>1 DEF Unmaking
  <2>2. CASE old.pc = "destroy" /\ old.op = "delete" /\ old.i = old.count
    <3>1. Counted(old, mem[a]) /\ AllIn(mem[a], (old.count - old.i + 1)..old.count, "dead")
      BY <1>4, <2>2 DEF Unmaking
    <3>2. old.count = Len(mem[a].objs)
      BY <2>2, <3>1 DEF Counted, FreesStart, Headed
    <3> HIDE DEF old, a
    <3>3. DOMAIN mem[a].objs = 1..old.count /\ 1..old.count = (old.count - old.i + 1)..old.count
      BY <1>2, <1>4, <2>2, <3>2 DEF Elements
    <3> QED
      BY <3>1, <3>3 DEF AllIn
  <2> QED
    BY <1>1, <2>1, <2>2
<1> QED
  BY <1>1, <1>3, <1>4, <1>5 DEF AllIn, Elements, ObjectAt

LEMMA FreeLives ==
    ASSUME NewInvariant, NewInvariant', Lives, NEW t \in Threads, Free(t), fault' = "none"
    PROVE  Lives'
<1> DEFINE a == Top(t).at
           n == Len(stack[t])
<1>1. /\ stack[t] # <<>> /\ FreesStart(t) /\ mem' = Freed(a) /\ stack' = Returned(t)
      /\ UNCHANGED <<checked, owned, ledger, asserted, fault>>
  BY DEF Free, Runs, Destroyed, Dies
<1>2. /\ a \in Blocks /\ a # NULL /\ \A k \in Elements(a) : ObjectAt(a, k).life = "dead"
      /\ n \in DOMAIN stack[t] /\ Top(t) = stack[t][n]
      /\ DOMAIN stack[t] = 1..n
  BY <1>1, FreesDead, TopFacts DEF NewInvariant
<1>3. /\ \A u \in Threads \ {t} : stack'[u] = stack[u]
      /\ DOMAIN stack'[t] = DOMAIN stack[t] \ {n}
      /\ \A u \in Threads : /\ DOMAIN stack'[u] \subseteq DOMAIN stack[u]
                            /\ \A d \in DOMAIN stack'[u] : stack'[u][d] = stack[u][d]
  BY <1>1, ReturnedFacts, ReturnedLeaves DEF NewInvariant
<1>4. Blocks' = Blocks \ {a} /\ \A b \in Addr \ {a} : mem'[b] = mem[b]
  <2> HIDE DEF a
  <2> QED
    BY <1>1, <1>2 DEF Freed, Blocks, NewInvariant, TypeOK
<1>5. /\ \A p \in owned : p.at # a
      /\ \A u \in Threads : \A e \in DOMAIN stack[u] : stack[u][e].at = a => u = t /\ e = n
      /\ \A b \in Blocks : \A k \in Elements(b) : ObjectAt(b, k).member # a
  BY <1>2, CallAlone DEF NewInvariant
<1>6. \A u \in Threads : \A d \in DOMAIN stack'[u] : stack[u][d].at # a
  BY <1>3, <1>5
<1> HIDE DEF a, n
<1>7. \A b \in Blocks' : b \in Blocks /\ mem'[b] = mem[b]
  BY <1>4 DEF Blocks
<1>8. AsOwned'
  <2>1. \A b \in Blocks' : \A k \in DOMAIN mem'[b].objs : mem'[b].objs[k].member # NULL =>
           /\ mem'[b].objs[k].life # "dead"
           /\ b \in Blocks /\ k \in Elements(b) /\ mem'[b].objs[k].member \notin {a}
           /\ mem'[b].objs[k].member = ObjectAt(b, k).member
           /\ mem'[b].objs[k].told = ObjectAt(b, k).told
    <3> SUFFICES ASSUME NEW b \in Blocks', NEW k \in DOMAIN mem'[b].objs, mem'[b].objs[k].member # NULL
                 PROVE  /\ mem'[b].objs[k].life # "dead"
                        /\ b \in Blocks /\ k \in Elements(b) /\ mem'[b].objs[k].member \notin {a}
                        /\ mem'[b].objs[k] = ObjectAt(b, k)
      OBVIOUS
    <3>1. b \in Blocks /\ k \in Elements(b) /\ mem'[b].objs[k] = ObjectAt(b, k)
      BY <1>7 DEF Elements, ObjectAt
    <3>2. ObjectAt(b, k).life # "dead"
      BY <3>1 DEF Lives, AsOwned, MembersWhole
    <3> QED
      BY <1>5, <3>1, <3>2
  <2>2. \A u \in Threads : \A d \in DOMAIN stack'[u] :
          d \in DOMAIN stack[u] /\ stack'[u][d] = stack[u][d] /\ stack[u][d].at \notin {a}
    BY <1>3, <1>6
  <2>3. /\ \A b \in {a} \cap Blocks' : mem'[b].room < Single
        /\ \A p \in owned' : p \in owned /\ p.at \notin {a}
    BY <1>1, <1>4, <1>5
  <2>4. OwnersChange({a})
    <3> DEFINE X == {a}
    <3>1. checked' = checked /\ \A b \in Addr \ X : mem'[b] = mem[b]
      BY <1>1, <1>4
    <3> HIDE DEF X
    <3>2. OwnersChange(X)
      BY <2>1, <2>2, <2>3, <3>1 DEF OwnersChange, X
    <3> QED
      BY <3>2 DEF X
  <2> QED
    BY <2>4, AsOwnedKept DEF Lives
<1>9. \A u \in Threads : Within(u)'
  <2>1. \A u \in Threads : \A d, e \in DOMAIN stack'[u] : d < e => stack[u][d].at \notin {a}
    BY <1>6
  <2>2. \A u \in Threads : /\ DOMAIN stack'[u] \subseteq DOMAIN stack[u]
                           /\ \A d \in DOMAIN stack'[u] : stack'[u][d] = stack[u][d]
    BY <1>3
  <2> QED
    BY <1>4, <2>1, <2>2, FewerCalls
<1>10. NothingLost'
  <2> SUFFICES ASSUME NEW c \in Blocks' PROVE HasOwner(c)' \/ Unfinished(c)'
    BY DEF NothingLost
  <2>1. c \in Blocks /\ c # a /\ mem'[c] = mem[c] /\ c # NULL
    BY <1>4, <1>7, OwnerFacts
  <2>2. (\E p \in owned : p.at = c) => HasOwner(c)'
    BY <1>1 DEF HasOwner
  <2>3. ASSUME NEW u \in Threads, NEW d \in DOMAIN stack[u], stack[u][d].at = c PROVE HasOwner(c)'
    <3>1. d \in DOMAIN stack'[u]
      BY <1>2, <1>3, <2>1, <2>3 DEF a
    <3> QED
      BY <1>3, <2>3, <3>1 DEF HasOwner
  <2>4. ASSUME NEW b \in Blocks, NEW k \in Elements(b), ObjectAt(b, k).member = c PROVE HasOwner(c)'
    <3>1. b # a
      BY <1>2, <2>1, <2>4 DEF Lives, AsOwned, MembersWhole
    <3>2. b \in Blocks' /\ mem'[b] = mem[b]
      BY <1>4, <1>7, <3>1
    <3> QED
      BY <2>4, <3>2 DEF HasOwner, Elements, ObjectAt
  <2>5. Unfinished(c) => Unfinished(c)'
    BY <2>1 DEF Unfinished, Elements, ObjectAt
  <2> QED
    BY <2>1, <2>2, <2>3, <2>4, <2>5 DEF Lives, NothingLost, HasOwner
<1> QED
  BY <1>8, <1>9, <1>10 DEF Lives

(* What pml_new returns is whole. *)
LEMMA NewIsWhole ==
    ASSUME NewInvariant, Lives, NEW t \in Threads, stack[t] # <<>>, Top(t).pc = "construct",
           Top(t).i = Top(t).count, Top(t).at # NULL
    PROVE  Top(t).at \in Blocks /\ Whole(mem[Top(t).at], Top(t).op = "newa", Top(t).via)
<1> DEFINE new == Top(t)
           a == new.at
<1>1. new \in Frame /\ new.i \in Nat /\ new.count \in Nat /\ Shape(new)
  BY TopFacts, TopBlock DEF NewInvariant
<1>2. /\ a \in Blocks /\ Making(new, mem[a]) /\ mem[a].objs \in Seq(Object)
  BY <1>1, UnderWay DEF AtWork, Shape
<1> HIDE DEF new, a
<1>3. DOMAIN mem[a].objs = 1..new.i /\ Len(mem[a].objs) <= mem[a].room
  BY <1>1, <1>2 DEF Making, new
<1>4. AllIn(mem[a], DOMAIN mem[a].objs, "live")
  BY <1>2, <1>3 DEF Making, AllIn
<1>5. Marked(mem[a], new.op = "newa") /\ mem[a].arena = new.via
  BY <1>2 DEF Making, new
<1> QED
  BY <1>2, <1>3, <1>4, <1>5 DEF Whole, new, a

LEMMA ReturnToClientLives ==
    ASSUME NewInvariant, NewInvariant', Lives, NEW t \in Threads, ReturnNew(t), ~(Len(stack[t]) > 1)
    PROVE  Lives'
<1> DEFINE new == Top(t)
           a == new.at
           n == Len(stack[t])
           ptr == [at |-> a, array |-> new.op = "newa", via |-> new.via]
<1>1. /\ stack[t] # <<>> /\ new.pc = "construct" /\ new.i = new.count
      /\ stack' = Returned(t) /\ UNCHANGED <<checked, asserted, fault>>
      /\ mem' = mem /\ owned' = IF a = NULL THEN owned ELSE owned \cup {ptr}
  BY DEF ReturnNew, Runs
<1>2. /\ n \in DOMAIN stack[t] /\ Top(t) = stack[t][n] /\ DOMAIN stack[t] = 1..n
      /\ DOMAIN stack'[t] = DOMAIN stack[t] \ {n}
      /\ \A u \in Threads \ {t} : stack'[u] = stack[u]
      /\ \A u \in Threads : /\ DOMAIN stack'[u] \subseteq DOMAIN stack[u]
                            /\ \A d \in DOMAIN stack'[u] : stack'[u][d] = stack[u][d]
  BY <1>1, TopFacts, ReturnedFacts, ReturnedLeaves DEF NewInvariant
<1>3. /\ ptr.at = a /\ a # NULL => ptr \in owned' /\ Whole(mem[ptr.at], ptr.array, ptr.via)
  BY <1>1, NewIsWhole
<1>4. \A p \in owned' : p \in owned \/ (p = ptr /\ a # NULL)
  BY <1>1
<1> HIDE DEF ptr, n
<1>5. OwnersChange({})
  <2>1. \A b \in Blocks' : \A k \in DOMAIN mem'[b].objs : mem'[b].objs[k].member # NULL =>
           /\ mem'[b].objs[k].life # "dead"
           /\ b \in Blocks /\ k \in Elements(b) /\ mem'[b].objs[k] = ObjectAt(b, k)
    BY <1>1 DEF Lives, AsOwned, MembersWhole, ObjectAt, Elements, Blocks
  <2>2. \A p \in owned' : p \in owned \/ Whole(mem'[p.at], p.array, p.via)
    BY <1>1, <1>3, <1>4 DEF ptr
  <2>3. \A u \in Threads : \A d \in DOMAIN stack'[u] : d \in DOMAIN stack[u] /\ stack'[u][d] = stack[u][d]
    BY <1>2
  <2> QED
    BY <1>1, <2>1, <2>2, <2>3 DEF OwnersChange
<1>6. AsOwned'
  BY <1>5, AsOwnedKept DEF Lives
<1>7. \A u \in Threads : Within(u)'
  <2>1. \A u \in Threads : /\ DOMAIN stack'[u] \subseteq DOMAIN stack[u]
                           /\ \A d \in DOMAIN stack'[u] : stack'[u][d] = stack[u][d]
    BY <1>2
  <2> DEFINE X == {}
  <2>2. \A u \in Threads : \A d, e \in DOMAIN stack'[u] : d < e => stack[u][d].at \notin X
    OBVIOUS
  <2>3. \A b \in Addr \ X : mem'[b] = mem[b]
    BY <1>1
  <2> HIDE DEF X
  <2> QED
    BY <2>1, <2>2, <2>3, FewerCalls
<1>8. NothingLost'
  <2> SUFFICES ASSUME NEW b \in Blocks PROVE HasOwner(b)' \/ Unfinished(b)
    BY <1>1 DEF NothingLost, Blocks, Unfinished, Elements, ObjectAt
  <2>1. b # NULL
    BY OwnerFacts
  <2>2. CASE a = b
    BY <1>3, <2>1, <2>2 DEF HasOwner, ptr
  <2>3. ASSUME NEW u \in Threads, NEW d \in DOMAIN stack[u], stack[u][d].at = b, a # b PROVE HasOwner(b)'
    <3>1. d \in DOMAIN stack'[u]
      BY <1>2, <2>3
    <3> QED
      BY <1>2, <2>3, <3>1 DEF HasOwner
  <2>4. (\E p \in owned : p.at = b) => HasOwner(b)'
    BY <1>1 DEF HasOwner
  <2>5. (\E c \in Blocks : \E k \in Elements(c) : ObjectAt(c, k).member = b) => HasOwner(b)'
    BY <1>1 DEF HasOwner, Blocks, Elements, ObjectAt
  <2> QED
    BY <2>2, <2>3, <2>4, <2>5 DEF Lives, NothingLost, HasOwner
<1> QED
  BY <1>6, <1>7, <1>8 DEF Lives

(* The constructor that called gets the array for the element it is at. *)
LEMMA ReturnToConstructorLives ==
    ASSUME NewInvariant, NewInvariant', Lives, NEW t \in Threads, ReturnNew(t), Len(stack[t]) > 1
    PROVE  Lives'
<1> DEFINE new == Top(t)
           a == new.at
           n == Len(stack[t])
           caller == stack[t][n - 1]
           c == caller.at
           k == caller.i + 1
           obj == [ObjectAt(c, k) EXCEPT !.member = a]
<1>1. /\ stack[t] # <<>> /\ new.pc = "construct" /\ new.i = new.count
      /\ stack' = Returned(t) /\ UNCHANGED <<checked, asserted, fault>>
      /\ mem' = SetObject(c, k, obj) /\ owned' = owned
  BY DEF ReturnNew, Runs
<1>2. /\ n \in DOMAIN stack[t] /\ new = stack[t][n] /\ DOMAIN stack[t] = 1..n /\ n \in Nat
      /\ n - 1 \in DOMAIN stack[t] /\ n - 1 < n /\ n = (n - 1) + 1 /\ n - 1 # n
      /\ new.op \in {"new", "newa"} /\ a \in Maybe(Addr)
  <2>1. /\ n \in DOMAIN stack[t] /\ new = stack[t][n] /\ DOMAIN stack[t] = 1..n /\ n \in Nat
    BY <1>1, TopFacts DEF NewInvariant
  <2>2. new.op \in {"new", "newa"} /\ a \in Maybe(Addr)
    BY <1>1, TopFacts, TopBlock DEF Shape, NewInvariant
  <2> QED
    BY <2>1, <2>2
<1>3. /\ DOMAIN stack'[t] = DOMAIN stack[t] \ {n}
      /\ \A u \in Threads \ {t} : stack'[u] = stack[u]
      /\ \A u \in Threads : /\ DOMAIN stack'[u] \subseteq DOMAIN stack[u]
                            /\ \A d \in DOMAIN stack'[u] : stack'[u][d] = stack[u][d]
  BY <1>1, ReturnedFacts, ReturnedLeaves DEF NewInvariant
<1> HIDE DEF n
<1>4. /\ caller.pc = "construct" /\ caller.i < caller.count
      /\ ObjectAt(c, k).member = NULL /\ ObjectAt(c, k).told = new.via /\ new.op = "newa"
  BY <1>2 DEF Lives, Within
<1>5. /\ c \in Blocks /\ c # NULL /\ Making(caller, mem[c]) /\ k \in Elements(c)
      /\ ObjectAt(c, k).life = "raw" /\ caller.op \in {"new", "newa"}
  BY <1>2, <1>4, ElementRaw, OwnerFacts DEF Shape
<1>6. /\ \A p \in owned : p.at # c
      /\ \A u \in Threads : \A e \in DOMAIN stack[u] : stack[u][e].at = c => u = t /\ e = n - 1
      /\ \A b \in Blocks : \A l \in Elements(b) : ObjectAt(b, l).member # c
  BY <1>2, <1>5, CallAlone DEF NewInvariant
<1>7. obj \in Object /\ obj.member = a /\ obj.told = new.via /\ obj.life = "raw"
  <2>1. ObjectAt(c, k) \in Object
    BY <1>5, BlockFacts DEF NewInvariant
  <2> HIDE DEF c, k, a
  <2> QED
    BY <1>2, <1>4, <1>5, <2>1 DEF Object
<1>8. a # NULL => a \in Blocks /\ a # c /\ Whole(mem[a], TRUE, new.via)
  <2>1. a # NULL => a # c
    BY <1>2, <1>6
  <2> QED
    BY <1>1, <1>4, <2>1, NewIsWhole
<1> HIDE DEF new, a, caller, c, k, obj
<1>9. /\ \A b \in Addr \ {c} : mem'[b] = mem[b]
      /\ mem'[c].arena = mem[c].arena /\ mem'[c].class = mem[c].class
      /\ mem'[c].front = mem[c].front /\ mem'[c].room = mem[c].room
      /\ Len(mem'[c].objs) = Len(mem[c].objs) /\ DOMAIN mem'[c].objs = Elements(c)
      /\ mem'[c].objs[k] = obj /\ mem'[c] # NULL
      /\ \A l \in Elements(c) : l # k => mem'[c].objs[l] = mem[c].objs[l]
  BY <1>1, <1>5, <1>7, ElementChanges
<1>10. Blocks' = Blocks /\ \A b \in Blocks : b # c => mem'[b] = mem[b]
  BY <1>5, <1>9 DEF Blocks
<1>11. ASSUME NEW b \in Blocks, NEW l \in Elements(b)
       PROVE  /\ l \in DOMAIN mem'[b].objs /\ DOMAIN mem'[b].objs = Elements(b)
              /\ mem'[b].objs[l].life = ObjectAt(b, l).life /\ mem'[b].objs[l].told = ObjectAt(b, l).told
              /\ \/ b = c /\ l = k /\ mem'[b].objs[l] = obj
                 \/ ~(b = c /\ l = k) /\ mem'[b].objs[l].member = ObjectAt(b, l).member
  <2>1. CASE b = c /\ l = k
    BY <1>4, <1>5, <1>7, <1>9, <2>1
  <2>2. CASE b = c /\ l # k
    BY <1>9, <2>2 DEF ObjectAt
  <2>3. CASE b # c
    BY <1>10, <2>3 DEF ObjectAt, Elements
  <2> QED
    BY <2>1, <2>2, <2>3
<1>12. AtWork(caller, mem'[c])
  <2>1. \A set, life : AllIn(mem[c], set, life) => AllIn(mem'[c], set, life)
    BY <1>5, <1>9, <1>11 DEF AllIn, ObjectAt, Elements
  <2>2. \A array : Marked(mem[c], array) => Marked(mem'[c], array)
    BY <1>9 DEF Marked
  <2>3. caller.op = "new" /\ mem[c].class = "keeper" =>
           mem[c].objs[1].told # Untold /\ 1 \in Elements(c)
    <3>1. caller.op = "new" => Len(mem[c].objs) = 1
      BY <1>5 DEF Making
    <3>2. mem[c].objs \in Seq(Object)
      BY <1>5, BlockFacts DEF NewInvariant
    <3> QED
      BY <1>4, <1>5, <3>1, <3>2 DEF Making, Elements
  <2>4. caller.op = "new" /\ mem[c].class = "keeper" => mem'[c].objs[1].told # Untold
    BY <1>5, <1>11, <2>3 DEF ObjectAt
  <2>5. Making(caller, mem'[c])
    BY <1>4, <1>5, <1>9, <2>1, <2>2, <2>4 DEF Making
  <2> QED
    BY <1>5, <2>5 DEF AtWork
<1>13. OwnersChange({c})
  <2>1. ASSUME NEW u \in Threads, NEW d \in DOMAIN stack'[u]
        PROVE  \/ d \in DOMAIN stack[u] /\ stack'[u][d] = stack[u][d] /\ stack[u][d].at \notin {c}
               \/ AtWork(stack'[u][d], mem'[stack'[u][d].at])
    <3>1. d \in DOMAIN stack[u] /\ stack'[u][d] = stack[u][d]
      BY <1>3
    <3>2. stack[u][d].at = c => stack[u][d] = caller
      BY <1>6, <3>1 DEF caller
    <3> QED
      BY <1>12, <3>1, <3>2
  <2>2. ASSUME NEW b \in Blocks', NEW l \in DOMAIN mem'[b].objs, mem'[b].objs[l].member # NULL
        PROVE  /\ mem'[b].objs[l].life # "dead"
               /\ \/ /\ b \in Blocks /\ l \in Elements(b) /\ mem'[b].objs[l].member \notin {c}
                     /\ mem'[b].objs[l].member = ObjectAt(b, l).member
                     /\ mem'[b].objs[l].told = ObjectAt(b, l).told
                  \/ Whole(mem'[mem'[b].objs[l].member], TRUE, mem'[b].objs[l].told)
    <3>1. b \in Blocks /\ l \in Elements(b)
      BY <1>9, <1>10, <2>2 DEF Elements
    <3>2. CASE mem'[b].objs[l] = obj
      BY <1>7, <1>8, <1>10, <2>2, <3>2
    <3>3. CASE mem'[b].objs[l].member = ObjectAt(b, l).member
      <4>1. ObjectAt(b, l).member # NULL /\ ObjectAt(b, l).member # c
        BY <1>6, <2>2, <3>1, <3>3
      <4>2. ObjectAt(b, l).life # "dead"
        BY <3>1, <4>1 DEF Lives, AsOwned, MembersWhole
      <4> QED
        BY <1>11, <3>1, <3>3, <4>1, <4>2
    <3> QED
      BY <1>11, <3>1, <3>2, <3>3
  <2>3. \A p \in owned' : p \in owned /\ p.at \notin {c}
    BY <1>1, <1>6
  <2>4. \A b \in {c} \cap Blocks' : mem'[b].room < Single
    BY <1>5, <1>9 DEF Lives, AsOwned
  <2> QED
    BY <1>1, <1>9, <2>1, <2>2, <2>3, <2>4 DEF OwnersChange
<1>14. AsOwned'
  BY <1>13, AsOwnedKept DEF Lives
<1>15. \A u \in Threads : Within(u)'
  <2>1. ASSUME NEW u \in Threads, NEW d \in DOMAIN stack'[u], NEW e \in DOMAIN stack'[u], d < e
        PROVE  stack[u][d].at \notin {c}
    <3>1. d \in DOMAIN stack[u] /\ e \in DOMAIN stack[u]
      BY <1>3
    <3>2. CASE u = t /\ d = n - 1
      BY <1>2, <1>3, <2>1, <3>1, <3>2
    <3> QED
      BY <1>6, <3>1, <3>2
  <2>2. \A b \in Addr \ {c} : mem'[b] = mem[b]
    BY <1>9
  <2>3. \A u \in Threads : /\ DOMAIN stack'[u] \subseteq DOMAIN stack[u]
                           /\ \A d \in DOMAIN stack'[u] : stack'[u][d] = stack[u][d]
    BY <1>3
  <2> QED
    BY <2>1, <2>2, <2>3, FewerCalls
<1>16. NothingLost'
  <2> SUFFICES ASSUME NEW b \in Blocks PROVE HasOwner(b)' \/ Unfinished(b)'
    BY <1>10 DEF NothingLost
  <2>1. b # NULL
    BY OwnerFacts
  <2>2. \A d \in Blocks : \A l \in Elements(d) : mem'[d].objs[l].member = b => HasOwner(b)'
    BY <1>10, <1>11 DEF HasOwner, Elements, ObjectAt
  <2>3. CASE a = b
    BY <1>5, <1>7, <1>9, <2>2, <2>3
  <2>4. ASSUME NEW u \in Threads, NEW d \in DOMAIN stack[u], stack[u][d].at = b, a # b PROVE HasOwner(b)'
    <3>1. d \in DOMAIN stack'[u]
      BY <1>2, <1>3, <2>4 DEF a
    <3> QED
      BY <1>3, <2>4, <3>1 DEF HasOwner
  <2>5. (\E p \in owned : p.at = b) => HasOwner(b)'
    BY <1>1 DEF HasOwner
  <2>6. ASSUME NEW d \in Blocks, NEW l \in Elements(d), ObjectAt(d, l).member = b PROVE HasOwner(b)'
    <3>1. mem'[d].objs[l].member = b
      BY <1>4, <1>11, <2>1, <2>6 DEF c, k
    <3> QED
      BY <2>2, <3>1
  <2>7. Unfinished(b) => Unfinished(b)'
    <3> SUFFICES ASSUME NEW l \in Elements(b), ObjectAt(b, l).life = "raw" PROVE Unfinished(b)'
      BY DEF Unfinished
    <3> QED
      BY <1>11 DEF Unfinished, Elements, ObjectAt
  <2> QED
    BY <2>3, <2>4, <2>5, <2>6, <2>7 DEF Lives, NothingLost, HasOwner
<1> QED
  BY <1>14, <1>15, <1>16 DEF Lives

-----------------------------------------------------------------------------
(* How a program dies.                                                     *)

LEMMA UnchangedLives ==
    ASSUME Lives, UNCHANGED <<checked, mem, owned, stack>>
    PROVE  Lives'
<1>1. AsOwned'
  <2>1. \A p \in owned : Whole(mem[p.at], p.array, p.via) => Whole(mem[p.at], p.array, p.via)'
    BY DEF Whole, Marked, AllIn
  <2>2. \A u \in Threads : \A d \in DOMAIN stack[u] :
          AtWork(stack[u][d], mem[stack[u][d].at]) => AtWork(stack[u][d], mem[stack[u][d].at])'
    BY SameBuild
  <2>3. MembersWhole'
    <3> SUFFICES ASSUME NEW b \in Blocks, NEW k \in Elements(b), ObjectAt(b, k).member # NULL
                 PROVE  /\ ObjectAt(b, k).life # "dead"
                        /\ Whole(mem[ObjectAt(b, k).member], TRUE, ObjectAt(b, k).told)'
      BY DEF MembersWhole, Blocks, Elements, ObjectAt
    <3>1. ObjectAt(b, k).life # "dead" /\ Whole(mem[ObjectAt(b, k).member], TRUE, ObjectAt(b, k).told)
      BY DEF Lives, AsOwned, MembersWhole
    <3>2. Whole(mem'[mem'[b].objs[k].member], TRUE, mem'[b].objs[k].told)
      BY <3>1 DEF ObjectAt
    <3> QED
      BY <3>1, <3>2, SameBuild
  <2> QED
    BY <2>1, <2>2, <2>3 DEF Lives, AsOwned, Blocks, Single
<1>2. ASSUME NEW u \in Threads PROVE Within(u)'
  <2>1. Within(u)
    BY DEF Lives
  <2>2. mem' = mem /\ stack'[u] = stack[u]
    OBVIOUS
  <2>3. \A b, k : ObjectAt(b, k)' = ObjectAt(b, k)
    BY <2>2 DEF ObjectAt
  <2> QED
    BY <2>1, <2>2, <2>3, Zenon DEF Within
<1>3. NothingLost'
  BY DEF Lives, NothingLost, HasOwner, Unfinished, Blocks, Elements, ObjectAt
<1> QED
  BY <1>1, <1>2, <1>3 DEF Lives

(* The count in front, or an element, has no room only if the size of the  *)
(* array has wrapped.                                                      *)
LEMMA NoRoom ==
    ASSUME NewInvariant, Lives, NEW t \in Threads, stack[t] # <<>>, Top(t).at # NULL,
           Top(t).pc \in {"front", "construct"}, Top(t).i < Top(t).count \/ Top(t).i = 0,
           mem[Top(t).at].room < 0 \/ (Top(t).i < Top(t).count /\ Top(t).i + 1 > mem[Top(t).at].room)
    PROVE  Wrapped
<1> DEFINE new == Top(t)
           block == mem[new.at]
<1>1. new.i \in Nat /\ new.count \in Nat /\ Shape(new)
  BY TopFacts, TopBlock DEF NewInvariant
<1>2. new.op \in {"new", "newa"}
  BY <1>1 DEF Shape
<1>3. Making(new, block) /\ block.room \in Int
  BY <1>2, UnderWay DEF AtWork
<1> HIDE DEF new, block
<1>4. new.op # "new"
  <2>1. new.op = "new" => new.count = 1 /\ block.room >= 1
    BY <1>3 DEF Making
  <2> QED
    BY <1>1, <1>3, <2>1 DEF new, block
<1>5. ~(new.count <= block.room)
  BY <1>1, <1>3 DEF new, block
<1>6. SizeOfT * new.count + SizeOfCount >= SizeLimit
  BY <1>3, <1>4, <1>5 DEF Making
<1> QED
  BY <1>2, <1>4, <1>6 DEF Wrapped, Innermost, new

(* What pml_delete dies of, it dies of in a build without checks.          *)
LEMMA DeleteDies ==
    ASSUME NewInvariant, Lives, NEW t \in Threads, stack[t] # <<>>, Top(t).at # NULL,
           Top(t).op \in {"delete", "deletea"},
           \/ Top(t).pc = "read" /\ mem[Top(t).at].front = NULL
           \/ Top(t).pc = "destroy" /\ Top(t).i < Top(t).count /\ ~Alive(Top(t).at, Top(t).count - Top(t).i)
           \/ /\ Top(t).pc = "free" \/ (Top(t).pc = "destroy" /\ Top(t).op = "delete")
              /\ ~FreesStart(t) \/ mem[Top(t).at].arena # Top(t).via
    PROVE  Mismatched
<1> DEFINE old == Top(t)
           a == old.at
           block == mem[a]
<1>1. old \in Frame /\ old.i \in Nat /\ old.count \in Nat /\ Shape(old)
  BY TopFacts, TopBlock DEF NewInvariant
<1>2. /\ a \in Blocks /\ Unmaking(old, block) /\ block.objs \in Seq(Object)
      /\ Len(block.objs) \in Nat
  BY UnderWay DEF AtWork
<1>3. NULL \notin Nat /\ Single # NULL /\ Len(block.objs) # NULL
  BY <1>2, NewAssumption DEF Single
<1>4. checked => block.front # NULL
  BY <1>2, <1>3 DEF Unmaking, Marked
<1>5. Mismatched \/ ~(~checked /\ ((old.op = "delete" /\ block.front # NULL) \/ (old.op = "deletea" /\ block.front = NULL)))
  BY DEF Mismatched, Innermost
<1>6. CASE old.pc = "read" /\ block.front = NULL
  BY <1>2, <1>4, <1>5, <1>6 DEF Unmaking, Headed
<1>7. CASE old.pc = "destroy" /\ old.i < old.count /\ ~Alive(a, old.count - old.i)
  <2>1. Counted(old, block) /\ AllIn(block, 1..(old.count - old.i), "live")
    BY <1>2, <1>7 DEF Unmaking
  <2>2. old.count # Len(block.objs)
    <3>1. ASSUME old.count = Len(block.objs) PROVE Alive(a, old.count - old.i)
      <4>1. old.count - old.i \in DOMAIN block.objs /\ old.count - old.i \in 1..(old.count - old.i)
        BY <1>1, <1>2, <1>7, <3>1
      <4> QED
        BY <2>1, <4>1 DEF AllIn, Alive, ObjectAt
    <3> QED
      BY <1>7, <3>1
  <2> QED
    BY <1>5, <2>1, <2>2 DEF Counted
<1>8. CASE /\ old.pc = "free" \/ (old.pc = "destroy" /\ old.op = "delete")
           /\ ~FreesStart(t) \/ block.arena # old.via
  <2>1. block.arena = old.via /\ (old.pc = "free" => block.front # NULL /\ old.op = "deletea")
    BY <1>1, <1>2 DEF Unmaking, Shape
  <2>2. ~(block.front # NULL <=> Headed(old.op))
    BY <1>8, <2>1 DEF FreesStart
  <2> QED
    BY <1>4, <1>5, <1>8, <2>1, <2>2 DEF Headed
<1> QED
  BY <1>6, <1>7, <1>8

LEMMA CauseStays ==
    ASSUME UNCHANGED <<checked, mem, stack>>
    PROVE  /\ Mismatched => Mismatched'
           /\ Wrapped => Wrapped'
           /\ NeverTold => NeverTold'
           /\ Refused => Refused'
BY DEF Mismatched, Wrapped, NeverTold, Refused, Innermost, Top

LEMMA LivesNext ==
    ASSUME NewInvariant, NewInvariant', Lives, NEW t \in Threads, NewStep(t) \/ DeleteStep(t)
    PROVE  Lives'
<1>1. CASE \E how \in Fault : Dies(how)
  BY <1>1, UnchangedLives DEF Dies
<1>2. CASE ~\E how \in Fault : Dies(how)
  <2>1. ASSUME NewStep(t) PROVE Lives'
    <3>1. WriteCount(t) => fault' = "none"
      BY <1>2 DEF WriteCount, Runs, Fault
    <3>2. ~ConstructCrashes(t)
      BY <1>2 DEF ConstructCrashes, Fault
    <3>3. ReturnNew(t) => Lives'
      BY ReturnToClientLives, ReturnToConstructorLives
    <3> QED
      BY <2>1, <3>1, <3>2, <3>3, NewLives, NewaLives, WriteCountLives, TellAllocatorLives, ConstructLives,
         ConstructMemberLives, ConstructorThrowsLives DEF NewStep
  <2>2. ASSUME DeleteStep(t) PROVE Lives'
    <3>1. /\ ReadCount(t) => fault' = "none"
          /\ Destroy(t) => fault' = "none"
          /\ Free(t) => fault' = "none"
      BY <1>2 DEF ReadCount, Destroy, Destroying, Destroyed, Free, Runs, Fault
    <3> QED
      BY <2>2, <3>1, DeleteLives, ReportDeleteLives, ReadCountLives, DestroyMemberLives, DestroyLives,
         ReportDeleteaLives, FreeLives DEF DeleteStep
  <2> QED
    BY <2>1, <2>2
<1> QED
  BY <1>1, <1>2

LEMMA DiesNext ==
    ASSUME NewInvariant, Lives, NEW t \in Threads, NewStep(t) \/ DeleteStep(t)
    PROVE  DiesOnlyOf'
<1>1. CASE \E how \in Fault : Dies(how)
  <2>1. UNCHANGED <<checked, mem, stack>> /\ fault' # "none"
    BY <1>1 DEF Dies, Fault
  <2>2. /\ Mismatched => Mismatched'
        /\ Wrapped => Wrapped'
        /\ NeverTold => NeverTold'
        /\ Refused => Refused'
    BY <2>1, CauseStays
  <2>3. CASE WriteCount(t)
    <3>1. stack[t] # <<>> /\ Top(t).pc = "front"
      BY <2>3 DEF WriteCount, Runs
    <3>2. fault = "none" /\ ((fault' = "null" /\ Top(t).at = NULL) \/ (fault' = "bounds" /\ Top(t).at # NULL /\ mem[Top(t).at].room < 0))
      BY <2>1, <2>3 DEF WriteCount, Runs, Dies
    <3>3. CASE fault' = "null" /\ Top(t).at = NULL
      <4>1. Shape(Top(t)) /\ Top(t).op \in {"new", "newa"}
        BY <3>1, TopBlock DEF Shape
      <4>2. Refused
        BY <3>1, <3>3, <4>1 DEF Shape, Headed, Refused, Innermost
      <4> QED
        BY <2>2, <3>3, <4>2 DEF DiesOnlyOf
    <3>4. CASE fault' = "bounds" /\ Top(t).at # NULL /\ mem[Top(t).at].room < 0
      <4>1. Top(t).i = 0
        <5>1. Top(t).op \in {"new", "newa"}
          BY <3>1, TopBlock DEF Shape
        <5> QED
          BY <3>1, <3>4, <5>1, UnderWay DEF AtWork, Making
      <4> QED
        BY <2>2, <3>1, <3>4, <4>1, NoRoom DEF DiesOnlyOf
    <3> QED
      BY <3>2, <3>3, <3>4
  <2>4. CASE ConstructCrashes(t)
    <3>1. stack[t] # <<>> /\ Top(t).pc = "construct" /\ Top(t).i < Top(t).count /\ Top(t).at # NULL
      BY <2>4, ElementBlock DEF ConstructCrashes, Runs
    <3>2. CASE Constructs(t) > mem[Top(t).at].room /\ Dies("bounds")
      <4>1. Wrapped
        BY <3>1, <3>2, NoRoom DEF Constructs
      <4> QED
        BY <2>2, <3>2, <4>1 DEF DiesOnlyOf, Dies
    <3>3. CASE /\ mem[Top(t).at].class = "keeper" /\ ObjectAt(Top(t).at, Constructs(t)).told = Untold
               /\ Dies("uninit")
      <4>1. Making(Top(t), mem[Top(t).at]) /\ Top(t).op \in {"new", "newa"}
        BY <3>1, UnderWay, TopBlock DEF AtWork, Shape
      <4>2. Top(t).op # "new"
        <5>1. Top(t).i \in Nat
          BY <3>1, TopFacts DEF NewInvariant
        <5> QED
          BY <3>1, <3>3, <4>1, <5>1 DEF Making, Constructs, ObjectAt
      <4>3. NeverTold
        BY <3>1, <3>3, <4>1, <4>2 DEF NeverTold, Innermost
      <4> QED
        BY <2>2, <3>3, <4>3 DEF DiesOnlyOf, Dies
    <3> QED
      BY <2>4, <3>2, <3>3 DEF ConstructCrashes
  <2>5. CASE ReadCount(t) \/ Destroy(t) \/ Free(t)
    <3>1. stack[t] # <<>> /\ Top(t).pc \in {"read", "destroy", "free"} /\ Top(t).at # NULL
          /\ Top(t).op \in {"delete", "deletea"}
      <4>1. stack[t] # <<>> /\ Top(t).pc \in {"read", "destroy", "free"}
        BY <2>5 DEF ReadCount, Destroy, Destroying, Destroyed, Free, Runs
      <4>2. Top(t) \in Frame /\ Shape(Top(t))
        BY <4>1, TopFacts, TopBlock DEF NewInvariant
      <4> QED
        BY <4>1, <4>2 DEF Shape, Frame
    <3>2. \/ Top(t).pc = "read" /\ mem[Top(t).at].front = NULL
          \/ Top(t).pc = "destroy" /\ Top(t).i < Top(t).count /\ ~Alive(Top(t).at, Top(t).count - Top(t).i)
          \/ /\ Top(t).pc = "free" \/ (Top(t).pc = "destroy" /\ Top(t).op = "delete")
             /\ ~FreesStart(t) \/ mem[Top(t).at].arena # Top(t).via
      BY <2>1, <2>5 DEF ReadCount, Destroy, Destroying, Destroyed, Free, Runs, Victim, Destroys
    <3>3. Mismatched
      BY <3>1, <3>2, DeleteDies
    <3>4. fault' \in {"bounds", "lifetime", "pointer"}
      BY <2>1, <2>5 DEF ReadCount, Destroy, Destroying, Destroyed, Free, Runs, Dies
    <3> QED
      BY <2>2, <3>3, <3>4 DEF DiesOnlyOf
  <2>6. WriteCount(t) \/ ConstructCrashes(t) \/ ReadCount(t) \/ Destroy(t) \/ Free(t)
    <3>1. CASE NewStep(t)
      <4>1. \A op, class, count, via : Allocate(t, op, class, count, via) => fault' = fault
        BY DEF Allocate
      <4> QED
        BY <2>1, <3>1, <4>1
           DEF NewStep, pml_new, pml_newa, Calling, TellAllocator, Construct, Constructing, ConstructMember,
               ConstructorThrows, ReturnNew, Runs
    <3>2. CASE DeleteStep(t)
      BY <2>1, <3>2 DEF DeleteStep, pml_delete, Calling, ReportDelete, DestroyMember, Destroying,
                        ReportDeletea, Destroyed, Runs
    <3> QED
      BY <3>1, <3>2
  <2> QED
    BY <2>3, <2>4, <2>5, <2>6
<1>2. CASE ~\E how \in Fault : Dies(how)
  <2>1. fault' = "none"
    <3>1. CASE NewStep(t)
      <4>1. \A op, class, count, via : Allocate(t, op, class, count, via) => fault' = fault
        BY DEF Allocate
      <4>2. WriteCount(t) => fault' = "none"
        BY <1>2 DEF WriteCount, Runs, Fault
      <4>3. ~ConstructCrashes(t)
        BY <1>2 DEF ConstructCrashes, Fault
      <4> QED
        BY <3>1, <4>1, <4>2, <4>3
           DEF NewStep, pml_new, pml_newa, Calling, TellAllocator, Construct, Constructing, ConstructMember,
               ConstructorThrows, ReturnNew, Runs
    <3>2. CASE DeleteStep(t)
      <4>1. /\ ReadCount(t) => fault' = "none"
            /\ Destroy(t) => fault' = "none"
            /\ Free(t) => fault' = "none"
        BY <1>2 DEF ReadCount, Destroy, Destroying, Destroyed, Free, Runs, Fault
      <4> QED
        BY <3>2, <4>1 DEF DeleteStep, pml_delete, Calling, ReportDelete, DestroyMember, Destroying,
                        ReportDeletea, Destroyed, Runs
    <3> QED
      BY <3>1, <3>2
  <2> QED
    BY <2>1 DEF DiesOnlyOf
<1> QED
  BY <1>1, <1>2

-----------------------------------------------------------------------------
(* The order of construction and destruction.                              *)

(* A block that stays has the elements it had, and none is raw again. *)
Settled(a) ==
    /\ a \in Blocks' /\ DOMAIN mem'[a].objs = Elements(a)
    /\ \A k \in Elements(a) : mem'[a].objs[k].life = "raw" => ObjectAt(a, k).life = "raw"

Steady(a) == Orderly(a) /\ (a \in Blocks => Settled(a) /\ mem'[a].front = mem[a].front)

LEMMA SameOrderly ==
    ASSUME NEW a \in Addr, mem'[a] = mem[a] \/ mem[a] = NULL
    PROVE  Orderly(a) /\ Steady(a)
BY DEF Orderly, Alters, Steady, Settled, Blocks, Elements, ObjectAt

LEMMA ElementSettled ==
    ASSUME NewInvariant, Lives, NEW a \in Blocks, NEW k \in Elements(a), NEW obj \in Object,
           mem' = SetObject(a, k, obj), obj.life # "raw" \/ obj.life = ObjectAt(a, k).life,
           NEW b \in Blocks
    PROVE  Settled(b) /\ mem'[b].front = mem[b].front
<1>1. /\ \A c \in Addr \ {a} : mem'[c] = mem[c]
      /\ mem'[a].front = mem[a].front /\ DOMAIN mem'[a].objs = Elements(a)
      /\ mem'[a].objs[k] = obj /\ mem'[a] # NULL
      /\ \A l \in Elements(a) : l # k => mem'[a].objs[l] = mem[a].objs[l]
  BY ElementChanges
<1>2. CASE b = a
  BY <1>1, <1>2 DEF Settled, Blocks, ObjectAt
<1>3. CASE b # a
  BY <1>1, <1>3 DEF Settled, Blocks, Elements, ObjectAt
<1> QED
  BY <1>2, <1>3

LEMMA ElementOrderly ==
    ASSUME NewInvariant, Lives, NEW a \in Blocks, NEW k \in Elements(a), NEW obj \in Object,
           mem' = SetObject(a, k, obj),
           \/ obj.life = ObjectAt(a, k).life
           \/ /\ ObjectAt(a, k).life = "raw" /\ obj.life = "live"
              /\ \A j \in Elements(a) : j < k => ObjectAt(a, j).life = "live"
           \/ /\ ObjectAt(a, k).life = "live" /\ obj.life = "dead"
              /\ \A j \in Elements(a) : j > k => ObjectAt(a, j).life = "dead"
    PROVE  \A b \in Addr : Orderly(b) /\ Steady(b)
<1>1. /\ \A b \in Addr \ {a} : mem'[b] = mem[b]
      /\ mem'[a] # NULL /\ mem'[a].objs[k] = obj
      /\ \A l \in Elements(a) : l # k => mem'[a].objs[l] = mem[a].objs[l]
  BY ElementChanges
<1>2. \A b \in Addr \ {a} : Orderly(b)
  BY <1>1, SameOrderly
<1>3. \A l \in Elements(a) : Alters(a, l) => l = k
  BY <1>1 DEF Alters
<1>4. Alters(a, k) => InOrder(a, k)
  BY <1>1 DEF Alters, InOrder, ObjectAt
<1>5. Orderly(a)
  BY <1>1, <1>3, <1>4 DEF Orderly
<1>6. \A b \in Blocks : Settled(b) /\ mem'[b].front = mem[b].front
  BY ElementSettled
<1> QED
  BY <1>2, <1>5, <1>6 DEF Steady

LEMMA AllocateOrderly ==
    ASSUME NewInvariant, NEW t \in Threads, NEW op, NEW class, NEW count, NEW via,
           Allocate(t, op, class, count, via), NEW b \in Addr
    PROVE  Orderly(b) /\ Steady(b)
<1>1. mem'[b] = mem[b] \/ mem[b] = NULL
  BY DEF Allocate, NewInvariant, TypeOK
<1> QED
  BY <1>1, SameOrderly

LEMMA ConstructOrderly ==
    ASSUME NewInvariant, Lives, NEW t \in Threads, Construct(t)
    PROVE  \A b \in Addr : Orderly(b) /\ Steady(b)
<1> DEFINE a == Top(t).at
           k == Top(t).i + 1
           obj == ObjectAt(a, k)
           now == [obj EXCEPT !.life = "live"]
<1>1. /\ stack[t] # <<>> /\ Top(t).pc = "construct" /\ Top(t).i < Top(t).count
      /\ mem' = SetObject(a, k, now)
  BY DEF Construct, Constructing, Runs, Constructs
<1>2. Len(stack[t]) \in DOMAIN stack[t] /\ Top(t) = stack[t][Len(stack[t])] /\ Top(t).i \in Nat
  BY <1>1, TopFacts DEF NewInvariant
<1>3. a \in Blocks /\ Making(Top(t), mem[a]) /\ k \in Elements(a) /\ obj.life = "raw"
  BY <1>1, <1>2, ElementRaw
<1>4. obj \in Object /\ mem[a].objs \in Seq(Object)
  BY <1>3, BlockFacts DEF NewInvariant
<1>5. now \in Object /\ now.life = "live"
  BY <1>4 DEF Object
<1>6. \A j \in Elements(a) : j < k => ObjectAt(a, j).life = "live"
  <2>1. \A j \in Elements(a) : j < k => j \in 1..Top(t).i
    <3>1. Elements(a) = 1..Len(mem[a].objs) /\ Len(mem[a].objs) \in Nat
      BY <1>4 DEF Elements
    <3> QED
      BY <1>2, <3>1
  <2> HIDE DEF a, k
  <2> QED
    BY <1>3, <2>1 DEF Making, AllIn, Elements, ObjectAt
<1> HIDE DEF now, a, k
<1> QED
  BY <1>1, <1>3, <1>5, <1>6, ElementOrderly

LEMMA TellAllocatorOrderly ==
    ASSUME NewInvariant, Lives, NEW t \in Threads, TellAllocator(t)
    PROVE  \A b \in Addr : Orderly(b) /\ Steady(b)
<1> DEFINE a == Top(t).at
           obj == ObjectAt(a, 1)
           now == Told(obj, Top(t).via)
<1>1. /\ stack[t] # <<>> /\ Top(t).pc = "tell"
      /\ mem' = mem \/ (a # NULL /\ mem' = SetObject(a, 1, now))
  BY DEF TellAllocator, Runs
<1>2. CASE mem' = mem
  BY <1>2, SameOrderly
<1>3. CASE a # NULL /\ mem' = SetObject(a, 1, now)
  <2>1. Top(t).op \in {"new", "newa"}
    BY <1>1, TopBlock DEF Shape
  <2>2. /\ a \in Blocks /\ Making(Top(t), mem[a]) /\ Elements(a) = 1..Len(mem[a].objs)
    BY <1>1, <1>3, <2>1, UnderWay DEF AtWork
  <2>3. 1 \in Elements(a)
    <3>1. Len(mem[a].objs) = 1
      BY <1>1, <2>2 DEF Making
    <3> QED
      BY <2>2, <3>1
  <2>4. obj \in Object /\ Top(t).via \in Maybe(Allocators)
    BY <1>1, <2>2, <2>3, BlockFacts, TopFacts DEF NewInvariant
  <2>5. now \in Object /\ now.life = obj.life
    BY <2>4 DEF Told, Object
  <2> HIDE DEF now, a
  <2> QED
    BY <1>3, <2>2, <2>3, <2>5, ElementOrderly
<1> QED
  BY <1>1, <1>2, <1>3

LEMMA ReturnNewOrderly ==
    ASSUME NewInvariant, Lives, NEW t \in Threads, ReturnNew(t)
    PROVE  \A b \in Addr : Orderly(b) /\ Steady(b)
<1> DEFINE n == Len(stack[t])
           caller == stack[t][n - 1]
           c == caller.at
           k == caller.i + 1
           now == [ObjectAt(c, k) EXCEPT !.member = Top(t).at]
<1>1. stack[t] # <<>> /\ Top(t).pc = "construct" /\ (mem' = mem \/ (n > 1 /\ mem' = SetObject(c, k, now)))
  BY DEF ReturnNew, Runs
<1>2. CASE mem' = mem
  BY <1>2, SameOrderly
<1>3. CASE n > 1 /\ mem' = SetObject(c, k, now)
  <2>1. /\ DOMAIN stack[t] = 1..n /\ n \in Nat /\ Top(t) = stack[t][n]
        /\ Top(t).op \in {"new", "newa"} /\ Top(t).at \in Maybe(Addr)
    BY <1>1, TopFacts, TopBlock DEF NewInvariant, Shape
  <2>2. n - 1 \in DOMAIN stack[t] /\ n \in DOMAIN stack[t] /\ n - 1 < n
    BY <1>3, <2>1
  <2> HIDE DEF n
  <2>3. caller.pc = "construct" /\ caller.i < caller.count
    BY <2>1, <2>2 DEF Lives, Within
  <2>4. c \in Blocks /\ k \in Elements(c)
    BY <2>2, <2>3, ElementRaw
  <2>5. ObjectAt(c, k) \in Object
    BY <2>4, BlockFacts DEF NewInvariant
  <2> HIDE DEF c, k
  <2>6. now \in Object /\ now.life = ObjectAt(c, k).life
    BY <2>1, <2>5 DEF Object
  <2> HIDE DEF now
  <2> QED
    BY <1>3, <2>4, <2>6, ElementOrderly
<1> QED
  BY <1>1, <1>2, <1>3

LEMMA DestroyMemberOrderly ==
    ASSUME NewInvariant, Lives, NEW t \in Threads, DestroyMember(t)
    PROVE  \A b \in Addr : Orderly(b) /\ Steady(b)
<1> DEFINE a == Top(t).at
           k == Victim(t)
           now == [ObjectAt(a, k) EXCEPT !.member = NULL]
<1>1. /\ stack[t] # <<>> /\ Top(t).pc = "destroy" /\ Top(t).i < Top(t).count
      /\ k \in Elements(a) /\ mem' = SetObject(a, k, now)
  BY DEF DestroyMember, Destroying, Runs, Alive, Elements
<1>2. a \in Blocks
  BY <1>1, ElementBlock
<1>3. ObjectAt(a, k) \in Object
  BY <1>1, <1>2, BlockFacts DEF NewInvariant
<1> HIDE DEF a, k
<1>4. now \in Object /\ now.life = ObjectAt(a, k).life
  BY <1>3 DEF Object, Maybe
<1> HIDE DEF now
<1> QED
  BY <1>1, <1>2, <1>4, ElementOrderly

LEMMA DestroyOrderly ==
    ASSUME NewInvariant, Lives, NEW t \in Threads, Destroy(t), ~Mismatched
    PROVE  \A b \in Addr : Orderly(b)
<1> DEFINE old == Top(t)
           a == old.at
           k == old.count - old.i
           obj == ObjectAt(a, k)
           now == [obj EXCEPT !.life = "dead"]
<1>1. /\ stack[t] # <<>> /\ old.pc = "destroy" /\ old.i < old.count
      /\ mem' = mem \/ (k \in Elements(a) /\ obj.life = "live" /\ mem' = SetObject(a, k, now))
  BY DEF Destroy, Destroying, Runs, Dies, Alive, Victim, Destroys, Elements
<1>2. CASE mem' = mem
  BY <1>2, SameOrderly
<1>3. CASE k \in Elements(a) /\ obj.life = "live" /\ mem' = SetObject(a, k, now)
  <2>1. old \in Frame /\ old.i \in Nat /\ old.count \in Nat /\ Shape(old) /\ a # NULL
    BY <1>1, TopFacts, TopBlock, ElementBlock DEF NewInvariant
  <2>2. old.op \in {"delete", "deletea"}
    BY <1>1, <2>1 DEF Shape, Frame
  <2>3. /\ a \in Blocks /\ Unmaking(old, mem[a]) /\ Elements(a) = 1..Len(mem[a].objs)
        /\ Len(mem[a].objs) \in Nat
    BY <1>1, <2>1, <2>2, UnderWay DEF AtWork
  <2>4. obj \in Object
    BY <1>3, <2>3, BlockFacts DEF NewInvariant
  <2> HIDE DEF old, a
  <2>5. old.count = Len(mem[a].objs)
    <3>1. Counted(old, mem[a])
      BY <1>1, <2>3 DEF Unmaking
    <3> QED
      BY <1>1, <3>1 DEF Counted, Mismatched, Innermost, old, a
  <2>6. \A j \in Elements(a) : j > k => ObjectAt(a, j).life = "dead"
    <3>1. AllIn(mem[a], (old.count - old.i + 1)..old.count, "dead")
      BY <1>1, <2>3 DEF Unmaking
    <3>2. \A j \in Elements(a) : j > k => j \in (old.count - old.i + 1)..old.count
      BY <2>1, <2>3, <2>5
    <3> QED
      BY <3>1, <3>2 DEF AllIn, Elements, ObjectAt
  <2> HIDE DEF k, obj
  <2>7. now \in Object /\ now.life = "dead"
    BY <2>4 DEF Object
  <2> HIDE DEF now
  <2> QED
    BY <1>3, <2>3, <2>6, <2>7, ElementOrderly DEF obj
<1> QED
  BY <1>1, <1>2, <1>3

(* Whatever the operator, an element that is destroyed was alive. *)
LEMMA DestroySteady ==
    ASSUME NewInvariant, Lives, NEW t \in Threads, Destroy(t), NEW b \in Blocks
    PROVE  Settled(b) /\ mem'[b].front = mem[b].front
<1> DEFINE a == Top(t).at
           k == Victim(t)
           now == [ObjectAt(a, k) EXCEPT !.life = "dead"]
<1>1. /\ stack[t] # <<>> /\ Top(t).pc = "destroy" /\ Top(t).i < Top(t).count
      /\ mem' = mem \/ (k \in Elements(a) /\ mem' = SetObject(a, k, now))
  BY DEF Destroy, Destroying, Runs, Dies, Alive, Elements
<1>2. CASE mem' = mem
  BY <1>2 DEF Settled, Blocks, Elements, ObjectAt
<1>3. CASE k \in Elements(a) /\ mem' = SetObject(a, k, now)
  <2>1. a \in Blocks
    BY <1>1, ElementBlock
  <2>2. ObjectAt(a, k) \in Object
    BY <1>3, <2>1, BlockFacts DEF NewInvariant
  <2> HIDE DEF a, k
  <2>3. now \in Object /\ now.life = "dead"
    BY <2>2 DEF Object
  <2> HIDE DEF now
  <2> QED
    BY <1>3, <2>1, <2>3, ElementSettled
<1> QED
  BY <1>1, <1>2, <1>3

LEMMA FreeOrderly ==
    ASSUME NewInvariant, Lives, NEW t \in Threads, Free(t), NEW b \in Addr
    PROVE  Orderly(b)
<1> DEFINE a == Top(t).at
<1>1. mem' = mem \/ (FreesStart(t) /\ mem' = Freed(a))
  BY DEF Free, Dies
<1>2. CASE FreesStart(t) /\ mem' = Freed(a)
  <2>1. a \in Blocks /\ \A k \in Elements(a) : ObjectAt(a, k).life = "dead"
    BY <1>2, FreesDead
  <2> HIDE DEF a
  <2>2. a \in Addr /\ mem'[a] = NULL /\ \A c \in Addr \ {a} : mem'[c] = mem[c]
    BY <1>2, <2>1 DEF Freed, Blocks, NewInvariant, TypeOK
  <2>3. Orderly(a)
    BY <2>1, <2>2 DEF Orderly
  <2> QED
    BY <2>2, <2>3, SameOrderly
<1> QED
  BY <1>1, <1>2, SameOrderly

LEMMA WriteCountOrderly ==
    ASSUME NewInvariant, NEW t \in Threads, WriteCount(t), NEW a \in Addr
    PROVE  /\ Orderly(a) /\ (a \in Blocks => Settled(a))
           /\ a \in Blocks => mem'[a].front = mem[a].front \/ a = Top(t).at
<1> DEFINE b == Top(t).at
           front == IF Top(t).op = "newa" THEN Top(t).count ELSE Single
<1>1. CASE mem' = mem
  BY <1>1, SameOrderly DEF Steady
<1>2. CASE stack[t] # <<>> /\ b # NULL /\ mem' = [mem EXCEPT ![b].front = front]
  <2>1. b \in Addr /\ mem[b] \in Block /\ b \in Blocks
    BY <1>2, TopBlock, BlockFacts DEF NewInvariant
  <2> HIDE DEF b, front
  <2>2. mem' = [mem EXCEPT ![b] = [mem[b] EXCEPT !.front = front]]
    BY <1>2
  <2>3. /\ \A c \in Addr \ {b} : mem'[c] = mem[c]
        /\ mem'[b] = [mem[b] EXCEPT !.front = front]
    BY <2>1, <2>2 DEF NewInvariant, TypeOK
  <2>4. mem'[b].objs = mem[b].objs
    BY <2>1, <2>3 DEF Block
  <2>5. mem'[b] # NULL
    <3>1. front \in Maybe(Nat)
      BY <1>2, TopFacts, NewAssumption DEF front, Single, Maybe, NewInvariant
    <3>2. [mem[b] EXCEPT !.front = front] \in Block
      BY <2>1, <3>1 DEF Block
    <3> QED
      BY <2>3, <3>2, NewAssumption
  <2>6. CASE a = b
    <3>1. Orderly(a) /\ Settled(a)
      BY <2>1, <2>4, <2>5, <2>6 DEF Orderly, Alters, Settled, Blocks, Elements, ObjectAt
    <3> QED
      BY <2>6, <3>1 DEF b
  <2>7. CASE a # b
    BY <2>3, <2>7, SameOrderly DEF Steady
  <2> QED
    BY <2>6, <2>7
<1> QED
  BY <1>1, <1>2 DEF WriteCount, Runs, Dies

LEMMA OrderNext ==
    ASSUME NewInvariant, Lives, [Next]_vars, ~Mismatched, NEW a \in Addr
    PROVE  Orderly(a)
<1>1. ASSUME NEW t \in Threads, NewStep(t)
      PROVE  Orderly(a)
  <2>1. WriteCount(t) => Orderly(a)
    BY WriteCountOrderly
  <2>2. ConstructorThrows(t) \/ ConstructCrashes(t) => Orderly(a)
    BY SameOrderly DEF ConstructorThrows, ConstructCrashes, Dies
  <2> QED
    BY <1>1, <2>1, <2>2, AllocateOrderly, ConstructOrderly, TellAllocatorOrderly, ReturnNewOrderly
       DEF NewStep, pml_new, pml_newa, ConstructMember
<1>2. ASSUME NEW t \in Threads, DeleteStep(t)
      PROVE  Orderly(a)
  <2>1. /\ \A p, array : pml_delete(t, p, array) => Orderly(a)
        /\ ReportDelete(t) \/ ReadCount(t) \/ ReportDeletea(t) => Orderly(a)
    BY SameOrderly DEF pml_delete, ReportDelete, ReadCount, ReportDeletea, Dies
  <2> QED
    BY <1>2, <2>1, DestroyMemberOrderly, DestroyOrderly, FreeOrderly DEF DeleteStep
<1>3. CASE UNCHANGED vars
  BY <1>3, SameOrderly DEF vars
<1> QED
  BY <1>1, <1>2, <1>3 DEF Next

-----------------------------------------------------------------------------
(* What follows for the owners of a block.                                 *)

LEMMA LivesMakeHeldOnce ==
    ASSUME NewInvariant, Lives
    PROVE  HeldOnce
<1> SUFFICES ASSUME NEW a \in Addr
             PROVE  LET refs == Refs(a)
                    IN  /\ Cardinality(refs) <= 1
                        /\ mem[a] = NULL => refs = {}
                        /\ mem[a] # NULL => (refs = {} <=> Thrown(a))
                        /\ \A p \in owned : OwnedBy(p, a) =>
                               \A k \in Elements(a) : ObjectAt(a, k).life = "live"
  BY DEF HeldOnce
<1> DEFINE IsClient(r) == \E p \in owned : p.at = a /\ r = <<"client", p, 0>>
           IsCall(r) == \E t \in Threads : \E d \in DOMAIN stack[t] : stack[t][d].at = a /\ r = <<"call", t, d>>
           IsObject(r) == \E b \in Blocks : \E k \in Elements(b) :
                             ObjectAt(b, k).member = a /\ r = <<"object", b, k>>
<1>1. a # NULL
  BY NewAssumption
<1>2. \A r : r \in Refs(a) <=> IsClient(r) \/ IsCall(r) \/ IsObject(r)
  <2> DEFINE clients == {<<"client", p, 0>> : p \in {q \in owned : OwnedBy(q, a)}}
             calls == UNION {{<<"call", t, d>> : d \in {e \in DOMAIN stack[t] : CalledFor(t, e, a)}} : t \in Threads}
             objs == UNION {{<<"object", b, k>> : k \in {e \in Elements(b) : MemberOf(b, e, a)}} : b \in Blocks}
  <2>1. \A r : r \in clients <=> IsClient(r)
    BY DEF OwnedBy
  <2>2. \A r : r \in calls <=> IsCall(r)
    BY DEF CalledFor
  <2>3. \A r : r \in objs <=> IsObject(r)
    BY DEF MemberOf, Blocks
  <2>4. Refs(a) = clients \cup calls \cup objs
    BY DEF Refs
  <2> HIDE DEF IsClient, IsCall, IsObject, clients, calls, objs
  <2> QED
    BY <2>1, <2>2, <2>3, <2>4
<1>3. ASSUME NEW r \in Refs(a), NEW s \in Refs(a)
      PROVE  r = s
  <2>1. /\ IsClient(r) => ~IsCall(s) /\ ~IsObject(s)
        /\ IsCall(r) => ~IsClient(s) /\ ~IsObject(s)
        /\ IsObject(r) => ~IsCall(s) /\ ~IsClient(s)
    BY <1>1 DEF NewInvariant, OneOwner
  <2>2. IsClient(r) /\ IsClient(s) => r = s
    BY DEF NewInvariant, OneOwner
  <2>3. IsCall(r) /\ IsCall(s) => r = s
    BY <1>1 DEF NewInvariant, OneOwner
  <2>4. IsObject(r) /\ IsObject(s) => r = s
    BY <1>1 DEF NewInvariant, OneOwner
  <2> QED
    BY <1>2, <2>1, <2>2, <2>3, <2>4
<1>4. Cardinality(Refs(a)) <= 1
  <2>1. CASE Refs(a) = {}
    BY <2>1, FS_EmptySet
  <2>2. CASE Refs(a) # {}
    <3>1. PICK r : Refs(a) = {r}
      BY <1>3, <2>2
    <3>2. Cardinality({r}) = 1
      BY FS_Singleton
    <3> QED
      BY <3>1, <3>2
  <2> QED
    BY <2>1, <2>2
<1>5. mem[a] = NULL => Refs(a) = {}
  <2>1. Refs(a) # {} => a \in Blocks
    <3> SUFFICES ASSUME NEW r \in Refs(a) PROVE a \in Blocks
      OBVIOUS
    <3>1. IsClient(r) \/ IsCall(r) \/ IsObject(r)
      BY <1>2
    <3> QED
      BY <1>1, <3>1, OwnerFacts
  <2> QED
    BY <2>1 DEF Blocks
<1>6. mem[a] # NULL => (Refs(a) = {} <=> Thrown(a))
  <2>1. HasOwner(a) => Refs(a) # {}
    <3>1. \A p \in owned : p.at = a => <<"client", p, 0>> \in Refs(a)
      BY <1>2
    <3>2. \A t \in Threads : \A d \in DOMAIN stack[t] : stack[t][d].at = a => <<"call", t, d>> \in Refs(a)
      BY <1>2
    <3>3. \A b \in Blocks : \A k \in Elements(b) : ObjectAt(b, k).member = a => <<"object", b, k>> \in Refs(a)
      BY <1>2
    <3> QED
      BY <3>1, <3>2, <3>3 DEF HasOwner
  <2>2. mem[a] # NULL /\ Refs(a) = {} => Thrown(a)
    BY <2>1 DEF Lives, NothingLost, Blocks, Thrown, CalledFor, HasOwner
  <2>3. ASSUME NEW r \in Refs(a), Thrown(a) PROVE FALSE
    <3>1. ~IsCall(r)
      BY <2>3 DEF Thrown, CalledFor
    <3>2. ~IsClient(r)
      BY <2>3 DEF Thrown, Unfinished, Lives, AsOwned, Whole, AllIn, Elements, ObjectAt
    <3>3. ~IsObject(r)
      BY <1>1, <2>3 DEF Thrown, Unfinished, Lives, AsOwned, MembersWhole, Whole, AllIn, Elements, ObjectAt
    <3> QED
      BY <1>2, <3>1, <3>2, <3>3
  <2> QED
    BY <2>2, <2>3
<1>7. \A p \in owned : OwnedBy(p, a) => \A k \in Elements(a) : ObjectAt(a, k).life = "live"
  BY DEF Lives, AsOwned, Whole, AllIn, OwnedBy, Elements, ObjectAt
<1> QED
  BY <1>4, <1>5, <1>6, <1>7

LEMMA LifeInit ==
    ASSUME Init
    PROVE  LifeInvariant
<1>1. Blocks = {} /\ owned = {} /\ \A t \in Threads : DOMAIN stack[t] = {}
  BY DEF Init, Blocks
<1>2. Lives
  BY <1>1 DEF Lives, AsOwned, MembersWhole, Within, NothingLost
<1>3. DiesOnlyOf
  BY DEF Init, DiesOnlyOf
<1> QED
  BY <1>2, <1>3, NewInit DEF LifeInvariant

LEMMA LifeNext ==
    ASSUME LifeInvariant, [Next]_vars
    PROVE  LifeInvariant'
<1>1. NewInvariant'
  BY NewNext DEF LifeInvariant
<1>2. CASE UNCHANGED vars
  <2>1. Lives'
    BY <1>2, UnchangedLives DEF LifeInvariant, vars
  <2>2. UNCHANGED <<checked, mem, stack, fault>>
    BY <1>2 DEF vars
  <2>3. DiesOnlyOf'
    BY <2>2, CauseStays DEF LifeInvariant, DiesOnlyOf
  <2> QED
    BY <1>1, <2>1, <2>3 DEF LifeInvariant
<1>3. ASSUME NEW t \in Threads, NewStep(t) \/ DeleteStep(t)
      PROVE  LifeInvariant'
  BY <1>1, <1>3, LivesNext, DiesNext DEF LifeInvariant
<1> QED
  BY <1>2, <1>3 DEF Next

(* What a block is like follows, at every moment, from who owns it and how *)
(* far that call is (malloc.h:357-372, 470-525).                           *)
THEOREM LifeInvariantHolds == Spec => []LifeInvariant
<1> QED
  BY LifeInit, LifeNext, PTL DEF Spec

(* Nobody deletes twice, for any classes, allocators and sizes: a block    *)
(* has one owner, who has it whole if it is the client; it has none, and   *)
(* is lost, exactly when its constructor threw (malloc.h:258-269, 357-372, *)
(* 470-498).                                                               *)
THEOREM HeldOnceHolds == Spec => []HeldOnce
<1>1. LifeInvariant => HeldOnce
  BY LivesMakeHeldOnce DEF LifeInvariant
<1> QED
  BY <1>1, LifeInvariantHolds, PTL

(* A program that deletes each object once, with the allocator it is from, *)
(* dies in these calls only of the wrong operator in a build without       *)
(* checks, of an array whose size wraps, of an array of objects that rely  *)
(* on set_allocator, or of a refused block that is to have a count in      *)
(* front (malloc.h:260-266, 365, 385, 396, 481, 509).                      *)
THEOREM DiesOnlyOfHolds == Spec => []DiesOnlyOf
<1>1. LifeInvariant => DiesOnlyOf
  BY DEF LifeInvariant
<1> QED
  BY <1>1, LifeInvariantHolds, PTL

(* Elements are constructed once and in order, destroyed once and in the   *)
(* opposite order, and freed when all are destroyed, however constructors  *)
(* and destructors nest; but for the wrong operator without checks         *)
(* (malloc.h:364-366, 520-525).                                            *)
THEOREM LifeOrderHolds == Spec => LifeOrder
<1>1. LifeInvariant /\ [Next]_vars => [~Mismatched => \A a \in Addr : Orderly(a)]_vars
  BY OrderNext DEF LifeInvariant
<1> QED
  BY <1>1, LifeInvariantHolds, PTL DEF Spec, LifeOrder

-----------------------------------------------------------------------------
(* The account of objects.                                                 *)

(* What a step does to the elements of a block: it leaves it with them, or *)
(* frees it after its death was reported.                                  *)
Frees(t, a) == Free(t) /\ FreesStart(t) /\ a = Top(t).at /\ tally[a] = 0 /\ ledger' = ledger

LEMMA NextSettled ==
    ASSUME NewInvariant, Lives, NEW t \in Threads, NewStep(t) \/ DeleteStep(t), NEW a \in Blocks
    PROVE  \/ Settled(a) /\ (mem'[a].front = mem[a].front \/ (WriteCount(t) /\ a = Top(t).at))
           \/ Frees(t, a)
<1>1. a \in Addr
  BY DEF Blocks
<1>2. CASE mem' = mem
  BY <1>1, <1>2, SameOrderly DEF Steady
<1>3. CASE NewStep(t)
  <2>1. WriteCount(t) => Settled(a) /\ (mem'[a].front = mem[a].front \/ a = Top(t).at)
    BY <1>1, WriteCountOrderly
  <2>2. ConstructorThrows(t) \/ ConstructCrashes(t) => mem' = mem
    BY DEF ConstructorThrows, ConstructCrashes, Dies
  <2>3. ASSUME NEW op, NEW class, NEW count, NEW via, Allocate(t, op, class, count, via)
        PROVE  Steady(a)
    BY <1>1, <2>3, AllocateOrderly
  <2>4. Construct(t) \/ TellAllocator(t) \/ ReturnNew(t) => Steady(a)
    BY <1>1, ConstructOrderly, TellAllocatorOrderly, ReturnNewOrderly
  <2> QED
    BY <1>2, <1>3, <2>1, <2>2, <2>3, <2>4 DEF NewStep, pml_new, pml_newa, ConstructMember, Steady
<1>4. CASE DeleteStep(t)
  <2>1. /\ \A p, array : pml_delete(t, p, array) => mem' = mem
        /\ ReportDelete(t) \/ ReadCount(t) \/ ReportDeletea(t) => mem' = mem
    BY DEF pml_delete, ReportDelete, ReadCount, ReportDeletea, Dies
  <2>2. DestroyMember(t) => Steady(a)
    BY <1>1, DestroyMemberOrderly
  <2>3. Destroy(t) => Settled(a) /\ mem'[a].front = mem[a].front
    BY DestroySteady
  <2>4. Free(t) /\ mem' # mem => Steady(a) \/ Frees(t, a)
    <3> SUFFICES ASSUME Free(t), mem' # mem PROVE Steady(a) \/ Frees(t, a)
      OBVIOUS
    <3>1. FreesStart(t) /\ mem' = Freed(Top(t).at) /\ ledger' = ledger
      BY DEF Free, Dies
    <3>2. CASE a # Top(t).at
      <4>1. mem'[a] = mem[a]
        BY <1>1, <3>1, <3>2 DEF Freed, NewInvariant, TypeOK
      <4> QED
        BY <1>1, <4>1, SameOrderly
    <3>3. CASE a = Top(t).at
      <4>1. /\ stack[t] # <<>>
            /\ Top(t).pc = "free" \/ (Top(t).pc = "destroy" /\ Top(t).op = "delete")
        BY DEF Free, Destroyed, Runs
      <4>2. tally[a] = Due(Top(t)) /\ Shape(Top(t)) /\ Top(t) \in Frame
        BY <1>1, <3>3, <4>1, TopBlock, TopFacts, NewAssumption DEF NewInvariant
      <4>3. Due(Top(t)) = 0
        BY <4>1, <4>2 DEF Due, Shape
      <4> QED
        BY <3>1, <3>3, <4>2, <4>3 DEF Frees
    <3> QED
      BY <3>2, <3>3
  <2> QED
    BY <1>2, <1>4, <2>1, <2>2, <2>3, <2>4 DEF DeleteStep, Steady
<1> QED
  BY <1>3, <1>4

(* The innermost call goes on, or has one more within. *)
LEMMA GoesOn ==
    ASSUME TypeOK, NEW t \in Threads, stack[t] # <<>>, NEW frame, stack' = Becomes(t, frame)
    PROVE  /\ \A u \in Threads \ {t} : stack'[u] = stack[u]
           /\ DOMAIN stack'[t] = DOMAIN stack[t] /\ stack'[t][Len(stack[t])] = frame
           /\ \A d \in DOMAIN stack[t] : d # Len(stack[t]) => stack'[t][d] = stack[t][d]
<1> DEFINE s == stack[t]
           b == SubSeq(s, 1, Len(s) - 1)
           F == Frame \cup {frame}
<1>1. s \in Seq(Frame) /\ Len(s) \in Nat \ {0} /\ DOMAIN s = 1..Len(s)
  BY TopFacts
<1>2. s \in Seq(F)
  BY <1>1
<1>3. /\ b \in Seq(F) /\ Len(b) = Len(s) - 1
      /\ \A d \in 1..(Len(s) - 1) : b[d] = s[d]
  BY <1>1, <1>2
<1>4. frame \in F
  OBVIOUS
<1> HIDE DEF F
<1>5. /\ Append(b, frame) \in Seq(F) /\ Len(Append(b, frame)) = Len(s)
      /\ Append(b, frame)[Len(s)] = frame
      /\ \A d \in 1..(Len(s) - 1) : Append(b, frame)[d] = s[d]
  BY <1>1, <1>3, <1>4
<1>6. stack' = [stack EXCEPT ![t] = Append(b, frame)]
  BY DEF Becomes, Below
<1>7. DOMAIN Append(b, frame) = 1..Len(s) /\ \A d \in DOMAIN s : d # Len(s) => d \in 1..(Len(s) - 1)
  BY <1>1, <1>5
<1> QED
  BY <1>1, <1>5, <1>6, <1>7 DEF TypeOK

LEMMA CallsMore ==
    ASSUME TypeOK, NEW t \in Threads, NEW frame, stack' = Called(t, frame)
    PROVE  /\ \A u \in Threads \ {t} : stack'[u] = stack[u]
           /\ \A d \in DOMAIN stack[t] : d \in DOMAIN stack'[t] /\ stack'[t][d] = stack[t][d]
<1> DEFINE F == Frame \cup {frame}
<1>1. stack[t] \in Seq(F) /\ frame \in F
  BY DEF TypeOK
<1> HIDE DEF F
<1>2. \A d \in DOMAIN stack[t] : /\ d \in DOMAIN Append(stack[t], frame)
                                /\ Append(stack[t], frame)[d] = stack[t][d]
  BY <1>1
<1> QED
  BY <1>2 DEF Called, TypeOK

(* A call of pml_delete for an array stays one until an assertion fails or *)
(* the program ends: it never returns.                                     *)
LEMMA MisuseStays ==
    ASSUME NewInvariant, Lives, NEW t \in Threads, NewStep(t) \/ DeleteStep(t), Misuse
    PROVE  Misuse' \/ asserted'
<1>1. PICK u \in Threads : \E d \in DOMAIN stack[u] : Misused(stack[u][d])
  BY DEF Misuse
<1>2. PICK d \in DOMAIN stack[u] : Misused(stack[u][d])
  BY <1>1
<1> DEFINE frame == stack[u][d]
           a == frame.at
           n == Len(stack[t])
<1>3. frame \in Frame /\ Shape(frame) /\ (a # NULL => a \in Blocks) /\ frame.op = "delete" /\ TypeOK
  BY <1>2, OwnerFacts DEF Misused, NewInvariant
<1>4. a # NULL /\ a \in Blocks
  BY <1>3 DEF Shape
<1>5. stack[t] # <<>> => n \in DOMAIN stack[t] /\ Top(t) = stack[t][n] /\ Top(t).at \in Maybe(Addr)
  BY <1>3, TopFacts
<1>6. stack[t] # <<>> /\ Top(t).at = a => u = t /\ d = n
  BY <1>4, <1>5 DEF NewInvariant, OneOwner
<1>7. checked' = checked
  BY DEF NewStep, DeleteStep, pml_new, pml_newa, Allocate, WriteCount, TellAllocator, Construct,
         ConstructMember, ConstructorThrows, ConstructCrashes, ReturnNew, pml_delete, ReportDelete,
         ReadCount, DestroyMember, Destroy, ReportDeletea, Free, Dies
<1>8. Free(t) /\ a = Top(t).at => ~FreesStart(t)
  <2> SUFFICES ASSUME Free(t), a = Top(t).at, FreesStart(t) PROVE FALSE
    OBVIOUS
  <2>1. stack[t] # <<>> /\ Top(t).pc \notin {"report", "read"}
    BY DEF Free, Destroyed, Runs
  <2>2. Top(t) = frame
    BY <1>5, <1>6, <2>1
  <2> HIDE DEF frame
  <2> QED
    BY <1>2, <1>3, <2>1, <2>2 DEF Misused, FreesStart, Headed, frame
<1>9. mem'[a].front = mem[a].front
  <2>1. ~Frees(t, a)
    BY <1>8 DEF Frees
  <2>2. ~(WriteCount(t) /\ a = Top(t).at)
    <3> SUFFICES ASSUME WriteCount(t), a = Top(t).at PROVE FALSE
      OBVIOUS
    <3>1. stack[t] # <<>> /\ Top(t).pc = "front"
      BY DEF WriteCount, Runs
    <3>2. Top(t) = frame
      BY <1>5, <1>6, <3>1
    <3> QED
      BY <1>3, <3>1, <3>2 DEF Shape
  <2> QED
    BY <1>4, <2>1, <2>2, NextSettled
<1>10. SUFFICES ASSUME ~asserted'
                PROVE  /\ d \in DOMAIN stack'[u]
                       /\ stack'[u][d].op = "delete" /\ stack'[u][d].at = a
                       /\ checked => stack'[u][d].pc \in {"report", "read"}
  BY <1>2, <1>7, <1>9 DEF Misused, Misuse
<1>11. CASE stack'[u] = stack[u]
  BY <1>2, <1>3, <1>11 DEF Misused
<1>12. ASSUME NEW f, stack[t] # <<>>, stack' = Becomes(t, f), 
              u = t /\ d = n => f.op = "delete" /\ f.at = a /\ (checked => f.pc \in {"report", "read"})
       PROVE  /\ d \in DOMAIN stack'[u]
              /\ stack'[u][d].op = "delete" /\ stack'[u][d].at = a
              /\ checked => stack'[u][d].pc \in {"report", "read"}
  BY <1>2, <1>3, <1>12, GoesOn DEF Misused
<1>13. ASSUME NEW f, stack' = Called(t, f)
       PROVE  /\ d \in DOMAIN stack'[u]
              /\ stack'[u][d].op = "delete" /\ stack'[u][d].at = a
              /\ checked => stack'[u][d].pc \in {"report", "read"}
  BY <1>2, <1>3, <1>13, CallsMore DEF Misused
<1>14. ASSUME stack[t] # <<>>, stack' = Returned(t), ~(u = t /\ d = n)
       PROVE  d \in DOMAIN stack'[u] /\ stack'[u][d] = stack[u][d]
  BY <1>3, <1>14, ReturnedFacts
<1>15. ASSUME stack[t] # <<>>, Top(t).op # "delete"
       PROVE  ~(u = t /\ d = n)
  BY <1>3, <1>5, <1>15
<1>16. CASE NewStep(t)
  <2>1. CASE \E op, class, count, via : Allocate(t, op, class, count, via)
    BY <1>13, <2>1 DEF Allocate
  <2>2. CASE stack[t] # <<>> /\ Top(t).pc \in {"front", "tell", "construct"} /\ stack' # stack
    <3>1. Top(t).op \in {"new", "newa"}
      BY <2>2, TopBlock DEF Shape
    <3>2. ~(u = t /\ d = n)
      BY <1>15, <2>2, <3>1
    <3>3. CASE \E f : stack' = Becomes(t, f)
      BY <1>12, <2>2, <3>2, <3>3
    <3>4. CASE stack' = Returned(t)
      BY <1>2, <1>3, <1>14, <2>2, <3>2, <3>4 DEF Misused
    <3>5. CASE ConstructorThrows(t) /\ stack' = [stack EXCEPT ![t] = <<>>]
      <4>1. u # t
        <5> SUFFICES ASSUME u = t PROVE FALSE
          OBVIOUS
        <5>1. d < n
          <6>1. DOMAIN stack[t] = 1..n /\ n \in Nat
            BY <1>3, <2>2, TopFacts
          <6> QED
            BY <3>2, <6>1
        <5>2. frame.pc = "construct"
          BY <1>5, <2>2, <3>1, <5>1 DEF Lives, Within
        <5> QED
          BY <1>3, <5>2 DEF Shape
      <4> QED
        BY <1>3, <1>11, <3>5, <4>1 DEF TypeOK
    <3>6. CASE \/ ConstructMember(t) \/ \E use \in Uses : pml_new(t, use.class, use.via)
               \/ \E use \in Uses, count \in Counts : pml_newa(t, use.class, count, use.via)
      BY <2>1, <3>6 DEF ConstructMember, pml_new, pml_newa
    <3> QED
      BY <1>16, <2>2, <3>3, <3>4, <3>5, <3>6
         DEF NewStep, WriteCount, TellAllocator, Construct, ConstructorThrows, ConstructCrashes,
             ReturnNew, Dies
  <2>3. CASE stack' = stack
    BY <1>11, <2>3
  <2> QED
    BY <1>16, <2>1, <2>2, <2>3
       DEF NewStep, pml_new, pml_newa, WriteCount, TellAllocator, Construct, ConstructMember,
           ConstructorThrows, ConstructCrashes, ReturnNew, Dies, Constructing, Runs
<1>17. CASE DeleteStep(t)
  <2>1. CASE \E p, array : pml_delete(t, p, array)
    BY <1>13, <2>1 DEF pml_delete
  <2>2. CASE ReportDelete(t)
    <3>1. stack[t] # <<>> /\ Top(t).op = "delete"
          /\ stack' = Becomes(t, IF Headed("delete") THEN [Top(t) EXCEPT !.pc = "read"]
                                 ELSE [Top(t) EXCEPT !.pc = "destroy", !.count = 1])
      BY <2>2 DEF ReportDelete, Runs
    <3> DEFINE f == IF Headed("delete") THEN [Top(t) EXCEPT !.pc = "read"]
                    ELSE [Top(t) EXCEPT !.pc = "destroy", !.count = 1]
    <3>2. u = t /\ d = n => f.op = "delete" /\ f.at = a /\ (checked => f.pc \in {"report", "read"})
      <4>1. u = t /\ d = n => Top(t) = frame
        BY <1>5, <3>1
      <4> HIDE DEF frame, a
      <4> QED
        BY <1>3, <4>1 DEF Headed, a, Frame
    <3> HIDE DEF f
    <3> QED
      BY <1>12, <3>1, <3>2 DEF f
  <2>3. CASE ReadCount(t)
    <3>1. stack[t] # <<>> /\ Top(t).pc = "read"
      BY <2>3 DEF ReadCount, Runs
    <3>2. CASE stack' = stack
      BY <1>11, <3>2
    <3> DEFINE f == [Top(t) EXCEPT !.pc = "destroy", !.count = CountOf(mem[Top(t).at].front)]
    <3>3. CASE /\ stack' = Becomes(t, f)
               /\ asserted' = (asserted \/ (checked /\ (mem[Top(t).at].front = Single <=> Top(t).op = "deletea")))
      <4>1. u = t /\ d = n => ~checked /\ f.op = "delete" /\ f.at = a
        <5> SUFFICES ASSUME u = t, d = n PROVE ~checked /\ f.op = "delete" /\ f.at = a
          OBVIOUS
        <5>1. Top(t) = frame
          BY <1>5, <3>1
        <5> HIDE DEF frame
        <5>2. ~checked
          BY <1>2, <1>3, <1>10, <3>3, <5>1 DEF Misused, frame
        <5> QED
          BY <1>3, <5>1, <5>2 DEF Frame
      <4> HIDE DEF f
      <4> QED
        BY <1>12, <3>1, <3>3, <4>1
    <3> QED
      BY <2>3, <3>2, <3>3 DEF ReadCount, Dies
  <2>4. CASE DestroyMember(t)
    BY <1>13, <2>4 DEF DestroyMember
  <2>5. CASE Destroy(t)
    <3>1. stack[t] # <<>> /\ Top(t).pc = "destroy"
      BY <2>5 DEF Destroy, Destroying, Runs
    <3>2. CASE stack' = stack
      BY <1>11, <3>2
    <3> DEFINE f == [Top(t) EXCEPT !.i = @ + 1]
    <3>3. CASE stack' = Becomes(t, f)
      <4>1. u = t /\ d = n => f.op = "delete" /\ f.at = a /\ ~checked
        <5>1. u = t /\ d = n => Top(t) = frame
          BY <1>5, <3>1
        <5> HIDE DEF frame, a
        <5> QED
          BY <1>2, <1>3, <3>1, <5>1 DEF Misused, frame, a, Frame
      <4> HIDE DEF f
      <4> QED
        BY <1>12, <3>1, <3>3, <4>1
    <3> QED
      BY <2>5, <3>2, <3>3 DEF Destroy, Dies
  <2>6. CASE ReportDeletea(t)
    <3>1. stack[t] # <<>> /\ Top(t).op = "deletea" /\ stack' = Becomes(t, [Top(t) EXCEPT !.pc = "free"])
      BY <2>6 DEF ReportDeletea, Destroyed, Runs
    <3>2. ~(u = t /\ d = n)
      BY <1>15, <3>1
    <3> QED
      BY <1>12, <3>1, <3>2
  <2>7. CASE Free(t)
    <3>1. stack[t] # <<>>
      BY <2>7 DEF Free, Destroyed, Runs
    <3>2. CASE stack' = stack
      BY <1>11, <3>2
    <3>3. CASE FreesStart(t) /\ stack' = Returned(t)
      <4>1. ~(u = t /\ d = n)
        BY <1>5, <1>8, <2>7, <3>1, <3>3
      <4> QED
        BY <1>2, <1>3, <1>14, <3>1, <3>3, <4>1 DEF Misused
    <3> QED
      BY <2>7, <3>2, <3>3 DEF Free, Dies
  <2> QED
    BY <1>17, <2>1, <2>2, <2>3, <2>4, <2>5, <2>6, <2>7 DEF DeleteStep
<1> QED
  BY <1>16, <1>17

LEMMA AssertedStays ==
    ASSUME NewInvariant, NEW t \in Threads, NewStep(t) \/ DeleteStep(t), asserted
    PROVE  asserted'
BY DEF NewStep, DeleteStep, pml_new, pml_newa, Allocate, WriteCount, TellAllocator, Construct,
       ConstructMember, ConstructorThrows, ConstructCrashes, ReturnNew, pml_delete, ReportDelete,
       ReadCount, DestroyMember, Destroy, ReportDeletea, Free, Dies

LEMMA BornAt ==
    \A a, k : <<a, k>> \in Born <=> a \in Blocks /\ tally[a] = 1 /\ k \in Elements(a)
BY DEF Born

LEMMA BornAtNext ==
    \A a, k : <<a, k>> \in Born' <=> a \in Blocks' /\ tally'[a] = 1 /\ k \in DOMAIN mem'[a].objs
<1>1. (\A a, k : <<a, k>> \in Born <=> a \in Blocks /\ tally[a] = 1 /\ k \in Elements(a))'
  BY BornAt, PTL
<1> QED
  BY <1>1 DEF Elements

LEMMA BornPairs ==
    \A x \in Born : x = <<x[1], x[2]>>
BY DEF Born

LEMMA BornPairsNext ==
    \A x \in Born' : x = <<x[1], x[2]>>
BY DEF Born

(* The elements of a block are pairs with its address. *)
Column(a, n) == {<<a, k>> : k \in 1..n}

LEMMA ColumnCounts ==
    ASSUME NEW a, NEW n \in Nat
    PROVE  IsFiniteSet(Column(a, n)) /\ Cardinality(Column(a, n)) = n
<1> DEFINE f == [k \in 1..n |-> <<a, k>>]
<1>1. IsFiniteSet(1..n) /\ Cardinality(1..n) = n
  BY FS_Interval
<1>2. f \in Bijection(1..n, Column(a, n))
  <2>1. f \in [1..n -> Column(a, n)]
    BY DEF Column
  <2>2. \A j, k \in 1..n : f[j] = f[k] => j = k
    OBVIOUS
  <2>3. \A x \in Column(a, n) : \E k \in 1..n : f[k] = x
    BY DEF Column
  <2> QED
    BY <2>1, <2>2, <2>3 DEF Bijection, Injection, IsInjective, Surjection
<1>3. ExistsBijection(1..n, Column(a, n))
  BY <1>2 DEF ExistsBijection
<1> QED
  BY <1>1, <1>3, FS_Bijection

(* A block of which nothing is reported keeps its elements, if it has any  *)
(* that count.                                                             *)
LEMMA KeepsElements ==
    ASSUME NewInvariant, NewInvariant', Lives, NEW t \in Threads, NewStep(t) \/ DeleteStep(t),
           NEW a \in Addr, tally'[a] = tally[a]
    PROVE  /\ \A k : <<a, k>> \in Born' <=> <<a, k>> \in Born
           /\ (a \in Blocks /\ tally[a] = 1 => ~Unfinished(a)) =>
                 (a \in Blocks' /\ tally'[a] = 1 => ~Unfinished(a)')
<1>1. CASE tally[a] = 1
  <2>1. a \in Blocks
    BY <1>1 DEF NewInvariant, Accounts
  <2>2. Settled(a)
    BY <1>1, <2>1, NextSettled DEF Frees
  <2>3. a \in Blocks' /\ DOMAIN mem'[a].objs = Elements(a)
    BY <2>2 DEF Settled
  <2>4. ~Unfinished(a) => ~Unfinished(a)'
    BY <2>2 DEF Unfinished, Settled, Elements, ObjectAt
  <2> QED
    BY <1>1, <2>1, <2>3, <2>4, BornAt, BornAtNext
<1>2. CASE tally[a] # 1
  BY <1>2, BornAt, BornAtNext
<1> QED
  BY <1>1, <1>2

(* Nothing is reported. *)
LEMMA UnreportedExact ==
    ASSUME NewInvariant, NewInvariant', Lives, ObjectsExact,
           NEW t \in Threads, NewStep(t) \/ DeleteStep(t), ledger' = ledger
    PROVE  ObjectsExact'
<1>1. tally' = tally /\ objects' = objects
  BY DEF ledger
<1>2. Born' = Born
  <2>1. \A a \in Addr : \A k : <<a, k>> \in Born' <=> <<a, k>> \in Born
    BY <1>1, KeepsElements
  <2>2. \A a, k : <<a, k>> \in Born => a \in Addr
    BY BornAt DEF Blocks
  <2>3. \A a, k : <<a, k>> \in Born' => a \in Addr
    BY BornAtNext DEF Blocks
  <2> QED
    BY <2>1, <2>2, <2>3, BornPairs, BornPairsNext
<1>3. \A a \in Blocks' : tally'[a] = 1 => ~Unfinished(a)'
  <2> SUFFICES ASSUME NEW a \in Blocks', tally'[a] = 1 PROVE ~Unfinished(a)'
    OBVIOUS
  <2>1. a \in Addr
    BY DEF Blocks
  <2> QED
    BY <1>1, <2>1, KeepsElements DEF ObjectsExact
<1>4. asserted => asserted'
  BY AssertedStays
<1>5. Misuse => Misuse' \/ asserted'
  BY MisuseStays
<1> QED
  BY <1>1, <1>2, <1>3, <1>4, <1>5 DEF ObjectsExact

(* The birth or the death of a block is reported. *)
LEMMA ReportedBorn ==
    ASSUME NewInvariant, NewInvariant', Lives, ObjectsExact,
           NEW t \in Threads, NewStep(t) \/ DeleteStep(t),
           NEW a \in Blocks, NEW sign \in {1, -1}, NEW count \in Nat, Report(a, sign, count),
           mem'[a] # NULL /\ DOMAIN mem'[a].objs = Elements(a),
           tally[a] = IF sign = 1 THEN 0 ELSE 1,
           sign = 1 => \A k \in Elements(a) : mem'[a].objs[k].life # "raw"
    PROVE  LET column == {<<a, k>> : k \in Elements(a)}
           IN  /\ IF sign = 1 THEN Born' = Born \cup column /\ Born \cap column = {}
                  ELSE Born' = Born \ column /\ column \subseteq Born
               /\ \A b \in Blocks' : tally'[b] = 1 => ~Unfinished(b)'
<1> DEFINE column == {<<a, k>> : k \in Elements(a)}
<1>1. a \in Addr /\ a # NULL /\ a \in Maybe(Addr) /\ sign \in Int /\ a \in Blocks'
  BY NewAssumption DEF Blocks, Maybe
<1>2. /\ \A b \in Addr \ {a} : tally'[b] = tally[b]
      /\ tally'[a] = tally[a] + sign
  BY <1>1, ReportFacts DEF NewInvariant
<1>3. tally'[a] = IF sign = 1 THEN 1 ELSE 0
  BY <1>2
<1>4. \A b \in Addr \ {a} : \A k : <<b, k>> \in Born' <=> <<b, k>> \in Born
  BY <1>2, KeepsElements
<1>5. \A k : <<a, k>> \in Born' <=> sign = 1 /\ k \in Elements(a)
  BY <1>1, <1>3, BornAtNext
<1>6. \A k : <<a, k>> \in Born <=> sign # 1 /\ k \in Elements(a)
  BY BornAt
<1>7. /\ \A b, k : <<b, k>> \in Born => b \in Addr
      /\ \A b, k : <<b, k>> \in Born' => b \in Addr
  BY BornAt, BornAtNext DEF Blocks
<1>8. \A b, k : <<b, k>> \in column <=> b = a /\ k \in Elements(a)
  OBVIOUS
<1>9. /\ \A x \in column : x = <<x[1], x[2]>>
  OBVIOUS
<1> HIDE DEF column
<1>10. ASSUME sign = 1 PROVE Born' = Born \cup column /\ Born \cap column = {}
  <2>1. \A b, k : <<b, k>> \in Born' <=> <<b, k>> \in Born \/ <<b, k>> \in column
    <3> SUFFICES ASSUME NEW b, NEW k
                 PROVE  <<b, k>> \in Born' <=> <<b, k>> \in Born \/ <<b, k>> \in column
      OBVIOUS
    <3>1. CASE b = a
      BY <1>5, <1>6, <1>8, <1>10, <3>1
    <3>2. CASE b # a
      BY <1>4, <1>7, <1>8, <3>2
    <3> QED
      BY <3>1, <3>2
  <2>2. \A b, k : ~(<<b, k>> \in Born /\ <<b, k>> \in column)
    BY <1>6, <1>8, <1>10
  <2> QED
    BY <1>9, <2>1, <2>2, BornPairs, BornPairsNext
<1>11. ASSUME sign # 1 PROVE Born' = Born \ column /\ column \subseteq Born
  <2>1. \A b, k : <<b, k>> \in Born' <=> <<b, k>> \in Born /\ <<b, k>> \notin column
    BY <1>4, <1>5, <1>6, <1>7, <1>8, <1>11
  <2>2. \A b, k : <<b, k>> \in column => <<b, k>> \in Born
    BY <1>6, <1>8, <1>11
  <2> QED
    BY <1>9, <2>1, <2>2, BornPairs, BornPairsNext
<1>12. ASSUME NEW b \in Blocks', tally'[b] = 1 PROVE ~Unfinished(b)'
  <2>1. b \in Addr
    BY DEF Blocks
  <2>2. CASE b = a
    BY <1>3, <1>12, <2>2 DEF Unfinished, Elements, ObjectAt
  <2>3. CASE b # a
    BY <1>2, <1>12, <2>1, <2>3, KeepsElements DEF ObjectsExact
  <2> QED
    BY <2>2, <2>3
<1> QED
  BY <1>10, <1>11, <1>12 DEF column

(* If the report gives the number of its elements, the account stays exact. *)
LEMMA ReportedExact ==
    ASSUME NewInvariant, NewInvariant', Lives, ObjectsExact,
           NEW t \in Threads, NewStep(t) \/ DeleteStep(t),
           NEW a \in Blocks, NEW sign \in {1, -1}, NEW count \in Nat, Report(a, sign, count),
           mem'[a] # NULL /\ DOMAIN mem'[a].objs = Elements(a),
           tally[a] = IF sign = 1 THEN 0 ELSE 1,
           sign = 1 => \A k \in Elements(a) : mem'[a].objs[k].life # "raw",
           Elements(a) = 1..count
    PROVE  ObjectsExact'
<1>1. {<<a, k>> : k \in Elements(a)} = Column(a, count)
  BY DEF Column
<1>2. /\ IF sign = 1 THEN Born' = Born \cup Column(a, count) /\ Born \cap Column(a, count) = {}
         ELSE Born' = Born \ Column(a, count) /\ Column(a, count) \subseteq Born
      /\ \A b \in Blocks' : tally'[b] = 1 => ~Unfinished(b)'
  BY <1>1, ReportedBorn
<1>3. IsFiniteSet(Column(a, count)) /\ Cardinality(Column(a, count)) = count
  BY ColumnCounts
<1>4. IsFiniteSet(Born) /\ Cardinality(Born) \in Nat
  BY FS_CardinalityType DEF ObjectsExact
<1>5. IsFiniteSet(Born') /\ Cardinality(Born') = Cardinality(Born) + sign * count
  <2>1. CASE sign = 1
    <3>1. /\ IsFiniteSet(Born \cup Column(a, count))
          /\ Cardinality(Born \cup Column(a, count)) =
                Cardinality(Born) + Cardinality(Column(a, count)) - Cardinality(Born \cap Column(a, count))
      BY <1>3, <1>4, FS_Union
    <3>2. Cardinality(Born \cap Column(a, count)) = 0
      BY <1>2, <2>1, FS_EmptySet
    <3>3. sign * count = count
      BY <2>1
    <3>4. Born' = Born \cup Column(a, count)
      BY <1>2, <2>1
    <3> QED
      BY <1>3, <1>4, <3>1, <3>2, <3>3, <3>4
  <2>2. CASE sign = -1
    <3>1. /\ IsFiniteSet(Born \ Column(a, count))
          /\ Cardinality(Born \ Column(a, count)) =
                Cardinality(Born) - Cardinality(Born \cap Column(a, count))
      BY <1>4, FS_Difference
    <3>2. Born \cap Column(a, count) = Column(a, count)
      BY <1>2, <2>2
    <3>3. sign * count = -count
      BY <2>2
    <3>4. Born' = Born \ Column(a, count)
      BY <1>2, <2>2
    <3> QED
      BY <1>3, <1>4, <3>1, <3>2, <3>3, <3>4
  <2> QED
    BY <2>1, <2>2
<1>6. asserted \/ objects' = objects + sign * count
  <2>1. a # NULL
    BY NewAssumption DEF Blocks
  <2> QED
    BY <2>1 DEF Report
<1>7. asserted => asserted'
  BY AssertedStays
<1>8. Misuse => Misuse' \/ asserted'
  BY MisuseStays
<1> QED
  BY <1>2, <1>5, <1>6, <1>7, <1>8 DEF ObjectsExact

LEMMA ReturnNewExact ==
    ASSUME NewInvariant, NewInvariant', Lives, ObjectsExact, NEW t \in Threads, ReturnNew(t)
    PROVE  ObjectsExact'
<1> DEFINE new == Top(t)
           a == new.at
<1>1. /\ stack[t] # <<>> /\ new.pc = "construct" /\ new.i = new.count /\ Report(a, 1, new.count)
  BY DEF ReturnNew, Runs, Reported
<1>2. NewStep(t)
  BY DEF NewStep
<1>3. CASE a = NULL
  BY <1>1, <1>2, <1>3, UnreportedExact DEF Report
<1>4. CASE a # NULL
  <2>1. /\ new \in Frame /\ new.count \in Nat /\ new.i \in Nat /\ Shape(new) /\ tally[a] = Due(new)
    BY <1>1, <1>4, TopFacts, TopBlock DEF NewInvariant
  <2>2. new.op \in {"new", "newa"}
    BY <1>1, <2>1 DEF Shape
  <2>3. /\ a \in Blocks /\ Making(new, mem[a]) /\ Elements(a) = 1..Len(mem[a].objs)
    BY <1>1, <1>4, <2>2, UnderWay DEF AtWork
  <2>4. tally[a] = 0 /\ Elements(a) = 1..new.count
    BY <2>1, <2>2, <2>3 DEF Due, Making
  <2>5. ~Unfinished(a)
    <3>1. \A k \in Elements(a) : ObjectAt(a, k).life = "live"
      BY <1>1, <2>3, <2>4 DEF Making, AllIn, Elements, ObjectAt
    <3> QED
      BY <3>1 DEF Unfinished
  <2>6. Settled(a)
    <3>1. a \in Addr
      BY <2>3 DEF Blocks
    <3>2. Steady(a)
      BY <3>1, ReturnNewOrderly
    <3> QED
      BY <2>3, <3>2 DEF Steady
  <2>7. /\ mem'[a] # NULL /\ DOMAIN mem'[a].objs = Elements(a)
        /\ \A k \in Elements(a) : mem'[a].objs[k].life # "raw"
    <3> HIDE DEF a
    <3> QED
      BY <2>5, <2>6 DEF Settled, Blocks, Unfinished
  <2> HIDE DEF new, a
  <2> QED
    BY <1>1, <1>2, <2>1, <2>3, <2>4, <2>7, ReportedExact
<1> QED
  BY <1>3, <1>4

LEMMA ReportDeleteaExact ==
    ASSUME NewInvariant, NewInvariant', Lives, ObjectsExact, NEW t \in Threads, ReportDeletea(t)
    PROVE  ObjectsExact'
<1> DEFINE old == Top(t)
           a == old.at
<1>1. /\ stack[t] # <<>> /\ old.pc = "destroy" /\ old.op = "deletea" /\ Report(a, -1, old.count)
      /\ mem' = mem
  BY DEF ReportDeletea, Destroyed, Runs
<1>2. DeleteStep(t)
  BY DEF DeleteStep
<1>3. old \in Frame /\ old.count \in Nat /\ old.i \in Nat /\ Shape(old)
  BY <1>1, TopFacts, TopBlock DEF NewInvariant
<1>4. a # NULL
  BY <1>1, <1>3 DEF Shape
<1>5. /\ a \in Blocks /\ Unmaking(old, mem[a]) /\ Elements(a) = 1..Len(mem[a].objs) /\ tally[a] = Due(old)
  BY <1>1, <1>4, UnderWay, TopBlock DEF AtWork
<1>6. tally[a] = 1 /\ old.count = Len(mem[a].objs)
  BY <1>1, <1>5 DEF Due, Unmaking, Counted
<1>7. mem'[a] # NULL /\ DOMAIN mem'[a].objs = Elements(a)
  BY <1>1, <1>5 DEF Blocks, Elements
<1> HIDE DEF old, a
<1> QED
  BY <1>1, <1>2, <1>3, <1>5, <1>6, <1>7, ReportedExact

(* Without [] it reports one object; if there are more, the operator is    *)
(* wrong.                                                                  *)
LEMMA ReportDeleteExact ==
    ASSUME NewInvariant, NewInvariant', Lives, ObjectsExact, NEW t \in Threads, ReportDelete(t)
    PROVE  ObjectsExact'
<1> DEFINE old == Top(t)
           a == old.at
<1>1. /\ stack[t] # <<>> /\ old.pc = "report" /\ old.op = "delete" /\ Report(a, -1, 1)
      /\ mem' = mem
  BY DEF ReportDelete, Runs
<1>2. DeleteStep(t)
  BY DEF DeleteStep
<1>3. old \in Frame /\ Shape(old)
  BY <1>1, TopFacts, TopBlock DEF NewInvariant
<1>4. a # NULL
  BY <1>1, <1>3 DEF Shape
<1>5. /\ a \in Blocks /\ Unmaking(old, mem[a]) /\ Elements(a) = 1..Len(mem[a].objs) /\ tally[a] = Due(old)
      /\ mem[a].room < Single /\ mem[a].room \in Int /\ Len(mem[a].objs) \in Nat
  BY <1>1, <1>4, UnderWay, TopBlock DEF AtWork
<1>6. tally[a] = 1
  BY <1>1, <1>5 DEF Due
<1>7. mem'[a] # NULL /\ DOMAIN mem'[a].objs = Elements(a)
  BY <1>1, <1>5 DEF Blocks, Elements
<1>8. CASE Len(mem[a].objs) = 1
  <2> DEFINE one == 1
             sign == -1
  <2>1. /\ Elements(a) = 1..one /\ one \in Nat /\ sign \in {1, -1} /\ sign # 1
        /\ Report(a, sign, one)
    BY <1>1, <1>5, <1>8
  <2> HIDE DEF old, a, one, sign
  <2> QED
    BY <1>1, <1>2, <1>5, <1>6, <1>7, <2>1, ReportedExact
<1>9. CASE Len(mem[a].objs) # 1
  <2>1. mem[a].front = Len(mem[a].objs) /\ Len(mem[a].objs) <= mem[a].room
    BY <1>5, <1>9 DEF Unmaking, Marked
  <2>2. mem[a].front # Single /\ mem[a].front # NULL
    <3>1. Single \in Int /\ NULL \notin Nat
      BY NewAssumption DEF Single
    <3> QED
      BY <1>5, <2>1, <3>1
  <2>3. Misused(old)
    BY <1>1, <2>2 DEF Misused
  <2>4. Misuse
    <3>1. Len(stack[t]) \in DOMAIN stack[t] /\ Top(t) = stack[t][Len(stack[t])]
      BY <1>1, TopFacts DEF NewInvariant
    <3> QED
      BY <2>3, <3>1 DEF Misuse
  <2>5. Misuse' \/ asserted'
    BY <1>2, <2>4, MisuseStays
  <2>6. /\ Born' = Born \ {<<a, k>> : k \in Elements(a)}
        /\ \A b \in Blocks' : tally'[b] = 1 => ~Unfinished(b)'
    <3> HIDE DEF old, a
    <3> QED
      BY <1>1, <1>2, <1>5, <1>6, <1>7, ReportedBorn
  <2>7. IsFiniteSet(Born')
    BY <2>6, FS_Difference DEF ObjectsExact
  <2> QED
    BY <2>5, <2>6, <2>7 DEF ObjectsExact
<1> QED
  BY <1>8, <1>9

LEMMA ExactNext ==
    ASSUME LifeInvariant, ObjectsExact, [Next]_vars
    PROVE  ObjectsExact'
<1>1. NewInvariant' /\ NewInvariant /\ Lives
  BY NewNext DEF LifeInvariant
<1>2. CASE UNCHANGED vars
  <2>1. UNCHANGED <<checked, mem, stack, tally, objects, asserted>>
    BY <1>2 DEF vars, ledger
  <2>2. Blocks' = Blocks /\ Born' = Born
    BY <2>1 DEF Born, Blocks, Elements
  <2>3. Misuse' <=> Misuse
    BY <2>1 DEF Misuse, Misused
  <2> QED
    BY <2>1, <2>2, <2>3 DEF ObjectsExact, Unfinished, Elements, ObjectAt
<1>3. ASSUME NEW t \in Threads, NewStep(t) \/ DeleteStep(t)
      PROVE  ObjectsExact'
  <2>1. ledger' = ledger \/ ReturnNew(t) \/ ReportDelete(t) \/ ReportDeletea(t)
    BY <1>3 DEF NewStep, DeleteStep, pml_new, pml_newa, Allocate, WriteCount, TellAllocator, Construct,
       ConstructMember, ConstructorThrows, ConstructCrashes, pml_delete, ReadCount, DestroyMember,
       Destroy, Free, Dies
  <2> QED
    BY <1>1, <1>3, <2>1, UnreportedExact, ReturnNewExact, ReportDeleteExact, ReportDeleteaExact
<1> QED
  BY <1>2, <1>3 DEF Next

LEMMA ExactInit ==
    ASSUME Init
    PROVE  ObjectsExact
<1>1. Blocks = {} /\ Born = {} /\ objects = 0
  BY DEF Init, Blocks, Born
<1> QED
  BY <1>1, FS_EmptySet DEF ObjectsExact

(* The counts reported add up to the objects alive when no call runs, for  *)
(* any program that does not delete twice, whatever throws; a wrong        *)
(* operator is found out, or never returns (malloc.h:267, 369, 495).       *)
THEOREM ObjectsCountedHolds == Spec => []ObjectsCounted
<1>1. Init => LifeInvariant /\ ObjectsExact
  BY LifeInit, ExactInit
<1>2. LifeInvariant /\ ObjectsExact /\ [Next]_vars => (LifeInvariant /\ ObjectsExact)'
  BY LifeNext, ExactNext
<1>3. LifeInvariant /\ ObjectsExact => ObjectsCounted
  <2> SUFFICES ASSUME LifeInvariant, ObjectsExact, \A t \in Threads : stack[t] = <<>>, ~asserted
               PROVE  objects = Cardinality(UNION {{<<a, k>> : k \in Elements(a)} :
                                                   a \in {b \in Blocks : ~Unfinished(b)}})
    BY DEF ObjectsCounted
  <2>1. ASSUME NEW t \in Threads PROVE DOMAIN stack[t] = {}
    <3>1. stack[t] = <<>>
      OBVIOUS
    <3> QED
      BY <3>1
  <2>2. ~Misuse
    BY <2>1 DEF Misuse
  <2>3. \A a \in Blocks : ~Unfinished(a) => tally[a] = 1
    <3> SUFFICES ASSUME NEW a \in Blocks, ~Unfinished(a) PROVE tally[a] = 1
      OBVIOUS
    <3>1. HasOwner(a)
      BY DEF LifeInvariant, Lives, NothingLost
    <3>2. a # NULL
      BY NewAssumption DEF Blocks
    <3> QED
      BY <2>1, <3>1, <3>2 DEF HasOwner, LifeInvariant, NewInvariant, Accounts
  <2>4. {b \in Blocks : ~Unfinished(b)} = {b \in Blocks : tally[b] = 1}
    BY <2>3 DEF ObjectsExact
  <2> QED
    BY <2>2, <2>4 DEF ObjectsExact, Born
<1> QED
  BY <1>1, <1>2, <1>3, PTL DEF Spec

=============================================================================
