------------------------------ MODULE NewProps ------------------------------
(***************************************************************************)
(* What pml_new and pml_delete must satisfy.                               *)
(***************************************************************************)
EXTENDS PmlNew, FiniteSets

Blocks == {a \in Addr : mem[a] # NULL}
Elements(a) == DOMAIN mem[a].objs

(* Who may delete the block at a: the client, a running call, an object. *)
OwnedBy(p, a) == p \in owned /\ p.at = a
CalledFor(t, d, a) == d \in DOMAIN stack[t] /\ stack[t][d].at = a
MemberOf(b, k, a) == mem[b] # NULL /\ k \in Elements(b) /\ ObjectAt(b, k).member = a

Refs(a) ==
    {<<"client", p, 0>> : p \in {q \in owned : OwnedBy(q, a)}}
    \cup (UNION {{<<"call", t, d>> : d \in {e \in DOMAIN stack[t] : CalledFor(t, e, a)}} : t \in Threads})
    \cup (UNION {{<<"object", b, k>> : k \in {e \in Elements(b) : MemberOf(b, e, a)}} : b \in Blocks})

(* A constructor threw, or is still to run; no call is left to run it. *)
Unfinished(a) == \E k \in Elements(a) : ObjectAt(a, k).life = "raw"
Thrown(a) == Unfinished(a) /\ \A t \in Threads : \A d \in DOMAIN stack[t] : ~CalledFor(t, d, a)

(* Nobody deletes twice, and a block is lost exactly when a constructor    *)
(* throws: it stays, with the elements made before, and has no owner,      *)
(* where new would have freed it (malloc.h:266, 364-365, against           *)
(* malloc.h:7-8).  Every other block has exactly one owner: the client, a  *)
(* call that runs, or the object whose constructor took it.                *)
(* What the client has is alive, every element of it (malloc.h:258-269,    *)
(* 357-372, 470-498).                                                      *)
HeldOnce ==
    \A a \in Addr :
        LET refs == Refs(a)
        IN  /\ Cardinality(refs) <= 1
            /\ mem[a] = NULL => refs = {}
            /\ mem[a] # NULL => (refs = {} <=> Thrown(a))
            /\ \A p \in owned : OwnedBy(p, a) =>
                   \A k \in Elements(a) : ObjectAt(a, k).life = "live"

Innermost(t, op) == stack[t] # <<>> /\ Top(t).op = op

(* The client used the wrong operator, in a build without checks. *)
Mismatched ==
    /\ ~checked
    /\ \E t \in Threads : \/ Innermost(t, "delete") /\ mem[Top(t).at].front # NULL
                          \/ Innermost(t, "deletea") /\ mem[Top(t).at].front = NULL

(* An array so large that its size wraps. *)
Wrapped == \E t \in Threads : Innermost(t, "newa") /\ SizeOfT * Top(t).count + SizeOfCount >= SizeLimit

(* An array of objects that rely on set_allocator, which is not called. *)
NeverTold ==
    \E t \in Threads : Innermost(t, "newa") /\ Top(t).at # NULL /\ mem[Top(t).at].class = "keeper"

(* A block that is to have a count in front was refused. *)
Refused ==
    \E t \in Threads :
        /\ Innermost(t, "newa") \/ (checked /\ Innermost(t, "new"))
        /\ Top(t).at = NULL

Alters(a, k) == mem[a].objs[k].life # mem'[a].objs[k].life

InOrder(a, k) ==
    \/ /\ mem[a].objs[k].life = "raw" /\ mem'[a].objs[k].life = "live"
       /\ \A j \in Elements(a) : j < k => mem[a].objs[j].life = "live"
    \/ /\ mem[a].objs[k].life = "live" /\ mem'[a].objs[k].life = "dead"
       /\ \A j \in Elements(a) : j > k => mem[a].objs[j].life = "dead"

Orderly(a) ==
    /\ mem[a] # NULL /\ mem'[a] = NULL => \A k \in Elements(a) : ObjectAt(a, k).life = "dead"
    /\ mem[a] # NULL /\ mem'[a] # NULL => \A k \in Elements(a) : Alters(a, k) => InOrder(a, k)

(* An object is constructed once and destroyed once, elements one after    *)
(* the other and in the opposite order at the end, also when a constructor *)
(* or destructor calls pml_new or pml_delete, and a block is freed only    *)
(* when all in it is destroyed; but for the wrong operator without checks  *)
(* (malloc.h:364-366, 520-525).                                            *)
LifeOrder == [][~Mismatched => \A a \in Addr : Orderly(a)]_vars

(* How a program can die in these calls, if the client deletes each object *)
(* once and with the allocator it is from: the four ways above and none    *)
(* else.  A refused single object is survived without checks, and none but *)
(* array elements, which malloc.h:222-225 does not except, are constructed *)
(* untold (malloc.h:260-266, 365, 385, 396, 481, 509).                     *)
DiesOnlyOf ==
    /\ fault = "null" => Refused
    /\ fault = "lifetime" => Mismatched
    /\ fault = "bounds"  => Wrapped \/ Mismatched
    /\ fault = "uninit"  => NeverTold
    /\ fault = "pointer" => Mismatched

(* A debug hook that takes NEW and NEWA for the birth of a pointer and     *)
(* DELETE and DELETEA for its death sees them alternate, at every moment   *)
(* and however threads reuse addresses, as it does not with MALLOC and     *)
(* FREE: death is reported before the block is freed (malloc.h:475, 495).  *)
ReportsAlternate ==
    \A a \in Addr :
        /\ tally[a] \in {0, 1}
        /\ a \notin Blocks => tally[a] = 0
        /\ \A p \in owned : OwnedBy(p, a) => tally[a] = 1

(* The counts in these reports add up to the objects alive, when no call   *)
(* runs, apart from the elements left behind by a constructor that threw,  *)
(* unless an assertion told of a wrong operator (malloc.h:267, 369, 495).  *)
ObjectsCounted ==
    (\A t \in Threads : stack[t] = <<>>) /\ ~asserted =>
        objects = Cardinality(UNION {{<<a, k>> : k \in Elements(a)} : a \in {b \in Blocks : ~Unfinished(b)}})

-----------------------------------------------------------------------------
(* What the documentation says and the code does not do: an object of a    *)
(* class that registers a method for it is informed of its allocator       *)
(* before its constructor runs (malloc.h:218-225).                         *)
ToldFirst ==
    \A t \in Threads : Constructing(t) /\ mem[Top(t).at].class = "keeper" =>
        ObjectAt(Top(t).at, Constructs(t)).told # Untold

-----------------------------------------------------------------------------
(* The inductive invariant behind ReportsAlternate.  No block has two      *)
(* owners (OneOwner), and what a debug hook has heard of it follows from   *)
(* the owner (Accounts): for a call, from how far it is (Due).             *)
OneOwner ==
    /\ \A p, q \in owned : p.at = q.at => p = q
    /\ \A t, u \in Threads : \A d \in DOMAIN stack[t], e \in DOMAIN stack[u] :
          stack[t][d].at # NULL /\ stack[t][d].at = stack[u][e].at => t = u /\ d = e
    /\ \A b, c \in Blocks : \A k \in Elements(b), l \in Elements(c) :
          ObjectAt(b, k).member # NULL /\ ObjectAt(b, k).member = ObjectAt(c, l).member => b = c /\ k = l
    /\ \A p \in owned, t \in Threads : \A d \in DOMAIN stack[t] : stack[t][d].at # p.at
    /\ \A p \in owned, b \in Blocks : \A k \in Elements(b) : ObjectAt(b, k).member # p.at
    /\ \A t \in Threads, b \in Blocks : \A d \in DOMAIN stack[t], k \in Elements(b) :
          stack[t][d].at # NULL => ObjectAt(b, k).member # stack[t][d].at

Due(frame) ==
    CASE frame.op = "delete"  -> IF frame.pc = "report" THEN 1 ELSE 0
      [] frame.op = "deletea" -> IF frame.pc = "free" THEN 0 ELSE 1
      [] OTHER                -> 0

Accounts ==
    /\ \A a \in Addr : tally[a] \in {0, 1} /\ (a \notin Blocks => tally[a] = 0)
    /\ \A p \in owned : p.at \in Blocks /\ tally[p.at] = 1
    /\ \A t \in Threads : \A d \in DOMAIN stack[t] :
          LET a == stack[t][d].at IN a # NULL => a \in Blocks /\ tally[a] = Due(stack[t][d])
    /\ \A b \in Blocks : \A k \in Elements(b) :
          LET a == ObjectAt(b, k).member IN a # NULL => a \in Blocks /\ tally[a] = 1

(* A call without a block constructs nothing, and writes a count only      *)
(* where there is to be one.                                               *)
Shape(frame) ==
    /\ frame.op \in {"new", "newa"} <=> frame.pc \in {"front", "tell", "construct"}
    /\ frame.pc = "report" => frame.op = "delete"
    /\ frame.pc = "free" => frame.op = "deletea"
    /\ frame.pc = "front" => Headed(frame.op)
    /\ frame.at = NULL => frame.pc \in {"front", "tell"} \/ (frame.pc = "construct" /\ frame.count = 0)

Shapes == \A t \in Threads : \A d \in DOMAIN stack[t] : Shape(stack[t][d])

(* Members come from an allocator the object was told. *)
MembersTold ==
    /\ \A b \in Blocks : \A k \in Elements(b) :
          ObjectAt(b, k).member # NULL => ObjectAt(b, k).told # Untold
    /\ \A t \in Threads : \A d \in DOMAIN stack[t] :
          LET a == stack[t][d].at
              k == stack[t][d].i + 1
          IN  /\ d < Len(stack[t]) /\ stack[t][d + 1].op \in {"new", "newa"}
              /\ a # NULL /\ k \in Elements(a)
              => ObjectAt(a, k).told # Untold

NewInvariant == TypeOK /\ OneOwner /\ Accounts /\ Shapes /\ MembersTold

-----------------------------------------------------------------------------
(* The inductive invariant behind HeldOnce, LifeOrder and DiesOnlyOf: what *)
(* a block is like follows from who owns it and, for a call, from how far  *)
(* it is.  A block of n elements has n in front, a single object what the  *)
(* build puts there.                                                       *)
Marked(block, array) ==
    IF array THEN block.front = Len(block.objs)
    ELSE Len(block.objs) = 1 /\ block.front = IF checked THEN Single ELSE NULL

AllIn(block, set, life) == \A k \in DOMAIN block.objs : k \in set => block.objs[k].life = life

(* One that the client or an object may have. *)
Whole(block, array, via) ==
    /\ Marked(block, array) /\ block.arena = via
    /\ Len(block.objs) <= block.room
    /\ AllIn(block, DOMAIN block.objs, "live")

(* One that pml_new is at work on: the first i elements are constructed.   *)
Making(frame, block) ==
    /\ block.arena = frame.via
    /\ frame.count = Len(block.objs) /\ frame.i <= frame.count
    /\ AllIn(block, 1..frame.i, "live") /\ AllIn(block, (frame.i + 1)..frame.count, "raw")
    /\ IF frame.op = "new" THEN frame.count = 1 /\ block.room >= 1
       ELSE frame.count <= block.room \/ SizeOfT * frame.count + SizeOfCount >= SizeLimit
    /\ IF frame.pc = "construct" THEN frame.i <= block.room
       ELSE frame.i = 0 /\ \A k \in DOMAIN block.objs : block.objs[k].member = NULL
    /\ IF frame.pc = "front" THEN Headed(frame.op) ELSE Marked(block, frame.op = "newa")
    /\ frame.pc = "tell" => frame.op = "new"
    /\ frame.pc = "construct" /\ frame.op = "new" /\ block.class = "keeper" => block.objs[1].told # Untold

(* One that pml_delete is at work on: the last i of count are destroyed.   *)
(* The count is wrong only if the operator is.                             *)
Counted(frame, block) ==
    \/ frame.count = Len(block.objs)
    \/ frame.count = 1 /\ ~checked /\ frame.op = "delete" /\ block.front # NULL

Unmaking(frame, block) ==
    /\ block.arena = frame.via
    /\ Marked(block, TRUE) \/ Marked(block, FALSE)
    /\ Len(block.objs) <= block.room
    /\ frame.pc \in {"report", "read"} => AllIn(block, DOMAIN block.objs, "live") /\ frame.i = 0
    /\ frame.pc = "read" => Headed(frame.op)
    /\ frame.pc = "destroy" =>
          /\ Counted(frame, block) /\ frame.i <= frame.count
          /\ AllIn(block, 1..(frame.count - frame.i), "live")
          /\ AllIn(block, (frame.count - frame.i + 1)..frame.count, "dead")
          /\ frame.op = "deletea" => block.front # NULL
    /\ frame.pc = "free" => block.front # NULL /\ AllIn(block, DOMAIN block.objs, "dead")

AtWork(frame, block) == IF frame.op \in {"new", "newa"} THEN Making(frame, block) ELSE Unmaking(frame, block)

(* An object has its member, an array, until its destructor gives it back. *)
MembersWhole ==
    \A b \in Blocks : \A k \in Elements(b) :
        LET obj == ObjectAt(b, k)
        IN  obj.member # NULL => obj.life # "dead" /\ Whole(mem[obj.member], TRUE, obj.told)

(* A pml_new within a constructor is for the element that is next. *)
Within(t) ==
    \A d, e \in DOMAIN stack[t] : d < e /\ stack[t][e].op \in {"new", "newa"} =>
        LET outer == stack[t][d]
        IN  /\ outer.pc = "construct" /\ outer.i < outer.count
            /\ e = d + 1 => /\ ObjectAt(outer.at, outer.i + 1).member = NULL
                            /\ ObjectAt(outer.at, outer.i + 1).told = stack[t][e].via
                            /\ stack[t][e].op = "newa"

(* Every block is as its owner must have it. *)
AsOwned ==
    /\ \A p \in owned : Whole(mem[p.at], p.array, p.via)
    /\ \A t \in Threads : \A d \in DOMAIN stack[t] :
          stack[t][d].at # NULL => AtWork(stack[t][d], mem[stack[t][d].at])
    /\ MembersWhole
    /\ \A a \in Blocks : mem[a].room < Single

HasOwner(a) ==
    \/ \E p \in owned : p.at = a
    \/ \E t \in Threads : \E d \in DOMAIN stack[t] : stack[t][d].at = a
    \/ \E b \in Blocks : \E k \in Elements(b) : ObjectAt(b, k).member = a

NothingLost == \A a \in Blocks : HasOwner(a) \/ Unfinished(a)

Lives == AsOwned /\ (\A t \in Threads : Within(t)) /\ NothingLost

LifeInvariant == NewInvariant /\ Lives /\ DiesOnlyOf

-----------------------------------------------------------------------------
(* The inductive invariant behind ObjectsCounted: the objects counted are  *)
(* the elements of the blocks whose birth was reported and not yet their   *)
(* death, until pml_delete without [] is used for an array: that reports   *)
(* one object, and is found out later, or frees no start of a block.       *)
Misused(frame) ==
    /\ frame.op = "delete"
    /\ IF checked THEN frame.pc \in {"report", "read"} /\ mem[frame.at].front # Single
                  ELSE mem[frame.at].front # NULL

Misuse == \E t \in Threads : \E d \in DOMAIN stack[t] : Misused(stack[t][d])

Born == UNION {{<<a, k>> : k \in Elements(a)} : a \in {b \in Blocks : tally[b] = 1}}

ObjectsExact ==
    /\ \A a \in Blocks : tally[a] = 1 => ~Unfinished(a)
    /\ IsFiniteSet(Born)
    /\ asserted \/ Misuse \/ objects = Cardinality(Born)

=============================================================================
