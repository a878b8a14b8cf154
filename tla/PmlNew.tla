------------------------------- MODULE PmlNew -------------------------------
(***************************************************************************)
(* pml/malloc.h in C++: pml_new and pml_delete, of one object and of an    *)
(* array, by several threads, over pml_malloc and pml_free, which are one  *)
(* step here (Pml shows that their callers may think so).  Constructors    *)
(* are the user's code: they may throw, and may call pml_new themselves.   *)
(***************************************************************************)
EXTENDS Integers, Sequences

CONSTANTS
    Threads, Addr,
    Allocators,                 \* each its own arena; NULL is the global hooks
    NULL,
    Untold,                     \* what an object knows of its allocator at first
    Uses,                       \* the classes clients make, and the allocators they pass
    Counts,                     \* sizes of arrays clients ask for
    SizeOfT, SizeOfCount,       \* sizeof(T), sizeof(size_t)
    SizeLimit                   \* SIZE_MAX + 1

Maybe(set) == set \cup {NULL}

(* "keeper" is the test's SetAllocatorTester: it registers set_allocator,  *)
(* its constructor takes an array from the allocator it was told, its      *)
(* destructor gives that back.  "plain" does neither, and may throw.       *)
Class == {"plain", "keeper"}

Object == [life: {"raw", "live", "dead"}, told: Maybe(Allocators) \cup {Untold}, member: Maybe(Addr)]

(* What lies at an address pml_malloc returned: the number of elements     *)
(* there is room for (less than 0: not even for the count in front), the   *)
(* count in front of them, if any, and the elements asked for, from 1.     *)
Block == [arena: Maybe(Allocators), class: Class, room: Int, front: Maybe(Nat),
          objs: Seq(Object)]

(* A pointer as the client has it: is it an array's, which allocator's? *)
Pointer == [at: Addr, array: BOOLEAN, via: Maybe(Allocators)]

(* A running call; the locals count and i; at is null for a null pointer. *)
Frame == [op: {"new", "newa", "delete", "deletea"}, via: Maybe(Allocators), at: Maybe(Addr),
          count: Nat, i: Nat, pc: {"front", "tell", "construct", "report", "read", "destroy", "free"}]

(* What the program did that C++ gives no meaning to: wrote through a null *)
(* pointer, touched what is no part of a block, read what nobody wrote,    *)
(* freed an unknown pointer, destroyed what is not alive.                  *)
Fault == {"null", "bounds", "uninit", "pointer", "lifetime"}

ASSUME NewAssumption ==
    /\ NULL \notin Addr \cup Allocators \cup Nat \cup Block
    /\ Untold \notin Maybe(Allocators)
    /\ Uses \subseteq [class: Class, via: Maybe(Allocators)] /\ Counts \subseteq Nat
    /\ SizeOfT \in Nat \ {0} /\ SizeOfCount \in Nat \ {0}
    /\ SizeLimit \in Nat /\ SizeLimit > SizeOfT + SizeOfCount

VARIABLES
    checked,    \* is the build one with PML_CHECK_S?
    mem,        \* address -> the block there, or NULL
    owned,      \* the pointers of the client, which threads share
    stack,      \* thread -> its calls, the innermost last
    tally,      \* address -> NEW and NEWA less DELETE and DELETEA, as reported
    objects,    \* objects alive, by the counts of these reports
    asserted,   \* has a PML_ASSERT failed?
    fault       \* "none", or how the program died

ledger == <<tally, objects>>
vars == <<checked, mem, owned, stack, ledger, asserted, fault>>

TypeOK ==
    /\ checked \in BOOLEAN
    /\ mem \in [Addr -> Maybe(Block)]
    /\ owned \subseteq Pointer
    /\ stack \in [Threads -> Seq(Frame)]
    /\ tally \in [Addr -> Int] /\ objects \in Int
    /\ asserted \in BOOLEAN
    /\ fault \in Fault \cup {"none"}

Init ==
    /\ checked \in BOOLEAN
    /\ mem = [a \in Addr |-> NULL]
    /\ owned = {}
    /\ stack = [t \in Threads |-> <<>>]
    /\ tally = [a \in Addr |-> 0] /\ objects = 0
    /\ asserted = FALSE /\ fault = "none"

-----------------------------------------------------------------------------
(* The stack of a thread. *)

Top(t) == stack[t][Len(stack[t])]
Runs(t, pc) == fault = "none" /\ stack[t] # <<>> /\ Top(t).pc = pc

Below(s) == SubSeq(s, 1, Len(s) - 1)
Returned(t) == [stack EXCEPT ![t] = Below(@)]
Called(t, frame) == [stack EXCEPT ![t] = Append(@, frame)]
Becomes(t, frame) == [stack EXCEPT ![t] = Append(Below(@), frame)]

(* The element a running constructor or destructor is about. *)
Constructs(t) == Top(t).i + 1
Destroys(t) == Top(t).count - Top(t).i
ObjectAt(a, k) == mem[a].objs[k]
SetObject(a, k, obj) == [mem EXCEPT ![a].objs[k] = obj]

Dies(how) == fault' = how /\ UNCHANGED <<checked, mem, owned, stack, ledger, asserted>>

-----------------------------------------------------------------------------
(* pml_new *)

Raw == [life |-> "raw", told |-> Untold, member |-> NULL]

(* Variant of Single: it is not converted to size_t. *)
Single_Negative == -1

(* PML_CHECK_S: the count of a single object, (size_t)-1. *)
Single == SizeLimit - 1

(* An array has its count in front, and so has a single object in a build  *)
(* with checks.                                                            *)
Headed(op) == checked \/ op \in {"newa", "deletea"}

Bytes(op, count) == (SizeOfT * count + IF Headed(op) THEN SizeOfCount ELSE 0) % SizeLimit

(* alloc_n as far as pml_malloc, and the plain pml_malloc of one object. *)
Allocate(t, op, class, count, via) ==
    \E a \in {b \in Addr : mem[b] = NULL} \cup {NULL} :
        /\ mem' = IF a = NULL THEN mem
                  ELSE [mem EXCEPT ![a] =
                          [arena |-> via, class |-> class, front |-> NULL,
                           room  |-> (Bytes(op, count) - IF Headed(op) THEN SizeOfCount ELSE 0) \div SizeOfT,
                           objs  |-> [k \in 1..count |-> Raw]]]
        /\ stack' = Called(t, [op |-> op, via |-> via, at |-> a, count |-> count, i |-> 0,
                               pc |-> IF Headed(op) THEN "front" ELSE "tell"])
        /\ UNCHANGED <<checked, owned, ledger, asserted, fault>>

(* The count is written before the pointer is tested, and after it the     *)
(* pointer is not null.                                                    *)
WriteCount(t) ==
    LET new == Top(t)
    IN  /\ Runs(t, "front")
        /\ IF new.at = NULL THEN Dies("null")
           ELSE IF mem[new.at].room < 0 THEN Dies("bounds")
           ELSE /\ mem' = [mem EXCEPT ![new.at].front = IF new.op = "newa" THEN new.count ELSE Single]
                /\ stack' = Becomes(t, [new EXCEPT !.pc = IF new.op = "newa" THEN "construct" ELSE "tell"])
                /\ UNCHANGED <<checked, owned, ledger, asserted, fault>>

Calling(t) == fault = "none" /\ stack[t] = <<>>

pml_new(t, class, via) == Calling(t) /\ Allocate(t, "new", class, 1, via)

pml_newa(t, class, count, via) == Calling(t) /\ Allocate(t, "newa", class, count, via)

(* Variant of Told: set_allocator is not called. *)
Told_Not(obj, via) == obj

(* call_set_allocator *)
Told(obj, via) == [obj EXCEPT !.told = via]

(* Before its constructor a single object is told, if its class asks to    *)
(* be.  Without checks the pointer may be null: nothing is constructed.    *)
TellAllocator(t) ==
    LET new == Top(t)
    IN  /\ Runs(t, "tell")
        /\ mem' = IF new.at # NULL /\ mem[new.at].class = "keeper"
                  THEN SetObject(new.at, 1, Told(ObjectAt(new.at, 1), new.via)) ELSE mem
        /\ stack' = Becomes(t, [new EXCEPT !.pc = "construct", !.count = IF new.at = NULL THEN 0 ELSE 1])
        /\ UNCHANGED <<checked, owned, ledger, asserted, fault>>

(* A constructor is about to run, on an element in the block. *)
Constructing(t) ==
    /\ Runs(t, "construct") /\ Top(t).i < Top(t).count
    /\ Constructs(t) <= mem[Top(t).at].room

(* It needs no member, or has it. *)
Complete(class, obj) == class = "plain" \/ obj.told = NULL \/ obj.member # NULL

Construct(t) ==
    LET a   == Top(t).at
        obj == ObjectAt(a, Constructs(t))
    IN  /\ Constructing(t)
        /\ Complete(mem[a].class, obj)
        /\ mem' = SetObject(a, Constructs(t), [obj EXCEPT !.life = "live"])
        /\ stack' = Becomes(t, [Top(t) EXCEPT !.i = @ + 1])
        /\ UNCHANGED <<checked, owned, ledger, asserted, fault>>

(* The constructor calls pml_new<int>(m_alloc)[n]. *)
ConstructMember(t) ==
    LET a   == Top(t).at
        obj == ObjectAt(a, Constructs(t))
    IN  /\ Constructing(t)
        /\ ~Complete(mem[a].class, obj)
        /\ obj.told \in Allocators
        /\ Allocate(t, "newa", "plain", 1, obj.told)

(* The exception leaves the block, and the elements it has, to nobody, and *)
(* passes through the calls and constructors around this one.              *)
ConstructorThrows(t) ==
    /\ Constructing(t)
    /\ mem[Top(t).at].class = "plain"
    /\ stack' = [stack EXCEPT ![t] = <<>>]
    /\ UNCHANGED <<checked, mem, owned, ledger, asserted, fault>>

(* An element behind the end of the block; one that uses the allocator it  *)
(* was never told.                                                         *)
ConstructCrashes(t) ==
    /\ Runs(t, "construct") /\ Top(t).i < Top(t).count
    /\ \/ Constructs(t) > mem[Top(t).at].room /\ Dies("bounds")
       \/ /\ Constructing(t)
          /\ mem[Top(t).at].class = "keeper" /\ ObjectAt(Top(t).at, Constructs(t)).told = Untold
          /\ Dies("uninit")

(* Variant of Report: empty arrays are not reported. *)
Report_NotEmpty(a, sign, count) ==
    IF a = NULL \/ count = 0 THEN UNCHANGED ledger
    ELSE /\ tally' = [tally EXCEPT ![a] = @ + sign]
         /\ objects' = IF asserted THEN objects ELSE objects + sign * count

(* The debug hook keeps an account by address, and one of objects until an *)
(* assertion fails; it ignores null pointers.                              *)
Report(a, sign, count) ==
    IF a = NULL THEN UNCHANGED ledger
    ELSE /\ tally' = [tally EXCEPT ![a] = @ + sign]
         /\ objects' = IF asserted THEN objects ELSE objects + sign * count

(* Variant of Reported: size and count are swapped. *)
Reported_Bytes(t) == Bytes(Top(t).op, Top(t).count)

(* The count the report of a new object, or of new objects, gives. *)
Reported(t) == Top(t).count

(* Who gets the new pointer: the constructor that called, or the client. *)
ReturnNew(t) ==
    LET new    == Top(t)
        caller == stack[t][Len(stack[t]) - 1]
    IN  /\ Runs(t, "construct") /\ new.i = new.count
        /\ Report(new.at, 1, Reported(t))
        /\ stack' = Returned(t)
        /\ IF Len(stack[t]) > 1
           THEN /\ mem' = SetObject(caller.at, caller.i + 1, [ObjectAt(caller.at, caller.i + 1) EXCEPT !.member = new.at])
                /\ UNCHANGED owned
           ELSE /\ owned' = IF new.at = NULL THEN owned
                            ELSE owned \cup {[at |-> new.at, array |-> new.op = "newa", via |-> new.via]}
                /\ UNCHANGED mem
        /\ UNCHANGED <<checked, asserted, fault>>

-----------------------------------------------------------------------------
(* pml_delete *)

DeleteFrame(array, a, via) ==
    [op |-> IF array THEN "deletea" ELSE "delete", via |-> via, at |-> a, count |-> 0, i |-> 0,
     pc |-> IF array THEN "read" ELSE "report"]

(* The client may use the wrong operator. *)
pml_delete(t, p, array) ==
    /\ Calling(t) /\ p \in owned
    /\ owned' = owned \ {p}
    /\ stack' = Called(t, DeleteFrame(array, p.at, p.via))
    /\ UNCHANGED <<checked, mem, ledger, asserted, fault>>

(* delete_n reads the count in front; without checks a single object has   *)
(* none, and is destroyed without a look.                                  *)
ReportDelete(t) ==
    /\ Runs(t, "report") /\ Top(t).op = "delete"
    /\ Report(Top(t).at, -1, 1)
    /\ stack' = Becomes(t, IF Headed("delete") THEN [Top(t) EXCEPT !.pc = "read"]
                           ELSE [Top(t) EXCEPT !.pc = "destroy", !.count = 1])
    /\ UNCHANGED <<checked, mem, owned, asserted, fault>>

CountOf(front) == IF checked /\ front = Single THEN 1 ELSE front

ReadCount(t) ==
    LET front == mem[Top(t).at].front
    IN  /\ Runs(t, "read")
        /\ IF front = NULL THEN Dies("bounds")
           ELSE /\ stack' = Becomes(t, [Top(t) EXCEPT !.pc = "destroy", !.count = CountOf(front)])
                /\ asserted' = (asserted \/ (checked /\ (front = Single <=> Top(t).op = "deletea")))
                /\ UNCHANGED <<checked, mem, owned, ledger, fault>>

(* Variant of Victim: from the first element on. *)
Victim_Forwards(t) == Top(t).i + 1

(* In the order opposite to construction. *)
Victim(t) == Destroys(t)

Destroying(t) == Runs(t, "destroy") /\ Top(t).i < Top(t).count

Alive(a, k) == k \in DOMAIN mem[a].objs /\ ObjectAt(a, k).life = "live"

(* The destructor deletes the member first. *)
DestroyMember(t) ==
    LET a   == Top(t).at
        obj == ObjectAt(a, Victim(t))
    IN  /\ Destroying(t) /\ Alive(a, Victim(t)) /\ obj.member # NULL
        /\ mem' = SetObject(a, Victim(t), [obj EXCEPT !.member = NULL])
        /\ stack' = Called(t, DeleteFrame(TRUE, obj.member, obj.told))
        /\ UNCHANGED <<checked, owned, ledger, asserted, fault>>

Destroy(t) ==
    LET a == Top(t).at
    IN  /\ Destroying(t)
        /\ IF ~Alive(a, Victim(t)) THEN Dies("lifetime")
           ELSE /\ ObjectAt(a, Victim(t)).member = NULL
                /\ mem' = SetObject(a, Victim(t), [ObjectAt(a, Victim(t)) EXCEPT !.life = "dead"])
                /\ stack' = Becomes(t, [Top(t) EXCEPT !.i = @ + 1])
                /\ UNCHANGED <<checked, owned, ledger, asserted, fault>>

Destroyed(t) == Runs(t, "destroy") /\ Top(t).i = Top(t).count

ReportDeletea(t) ==
    /\ Destroyed(t) /\ Top(t).op = "deletea"
    /\ Report(Top(t).at, -1, Top(t).count)
    /\ stack' = Becomes(t, [Top(t) EXCEPT !.pc = "free"])
    /\ UNCHANGED <<checked, mem, owned, asserted, fault>>

(* Is the pointer passed to pml_free the one pml_malloc returned? *)
FreesStart(t) == mem[Top(t).at].front # NULL <=> Headed(Top(t).op)

(* Variant of Freed: empty arrays are forgotten. *)
Freed_NotEmpty(a) == IF mem[a].objs = <<>> THEN mem ELSE [mem EXCEPT ![a] = NULL]

Freed(a) == [mem EXCEPT ![a] = NULL]

(* A pointer into the block, or one of another arena, is unknown to free. *)
Free(t) ==
    LET a == Top(t).at
    IN  /\ Runs(t, "free") \/ (Destroyed(t) /\ Top(t).op = "delete")
        /\ IF ~FreesStart(t) \/ mem[a].arena # Top(t).via THEN Dies("pointer")
           ELSE /\ mem' = Freed(a)
                /\ stack' = Returned(t)
                /\ UNCHANGED <<checked, owned, ledger, asserted, fault>>

-----------------------------------------------------------------------------
NewStep(t) ==
    \/ \E use \in Uses :
          \/ pml_new(t, use.class, use.via)
          \/ \E count \in Counts : pml_newa(t, use.class, count, use.via)
    \/ WriteCount(t) \/ TellAllocator(t) \/ Construct(t) \/ ConstructMember(t)
    \/ ConstructorThrows(t) \/ ConstructCrashes(t) \/ ReturnNew(t)

DeleteStep(t) ==
    \/ \E p \in owned, array \in BOOLEAN : pml_delete(t, p, array)
    \/ ReportDelete(t) \/ ReadCount(t) \/ DestroyMember(t) \/ Destroy(t)
    \/ ReportDeletea(t) \/ Free(t)

Next == \E t \in Threads : NewStep(t) \/ DeleteStep(t)

Spec == Init /\ [][Next]_vars

=============================================================================
