------------------------------ MODULE PmlProps ------------------------------
(***************************************************************************)
(* What pml must satisfy.                                                  *)
(***************************************************************************)
EXTENDS Pml, FiniteSets

CONSTANT MaxSize    \* no block is larger

ASSUME SizeAssumption ==
    /\ MaxSize \in Nat
    /\ \A size \in Sizes : size <= MaxSize
    /\ \A size \in Sizes, count \in Counts :
          /\ Product(count, size) <= MaxSize
          /\ count * size < SizeLimit => count * size <= MaxSize
    /\ NULL \notin Seq(Byte)

ASSUME ThreadAssumption == IsFiniteSet(Threads)

(* The blocks a thread's client or its running call has. *)
Holds(t) == ({Current(t)} \cup IF pc[t] = "release" THEN {out[t]} ELSE {}) \ {NULL}

(* No block is lost, and none is shared: each is held by one thread, and   *)
(* what a thread holds is allocated, also when a call failed half-way and  *)
(* while another thread got the address just freed (malloc.c:173-291).     *)
BlocksHeld ==
    fault = "none" =>
        /\ {a \in Addr : mem[a] # NULL} = UNION {Holds(t) : t \in Threads}
        /\ \A t, u \in Threads : t # u => Holds(t) \cap Holds(u) = {}

(* To its client the library is a store of blocks: realloc keeps what fits *)
(* and a failed one keeps all, calloc clears, and nobody else's call       *)
(* touches a block, whichever hooks and emulations a call goes through and *)
(* however the threads are interleaved (malloc.h:7-8).                     *)
Store == INSTANCE BlockStore WITH
    NoBlock <- NULL,
    held    <- [t \in Threads |-> IF Current(t) = NULL THEN NULL ELSE mem[Current(t)].data]

ImplementsStore == Store!Spec

(* No arena is given a block it does not know, through any mix of hooks,   *)
(* allocators and emulations; the program dies only where a client calls a *)
(* hook its allocator lacks, asks the emulation of realloc for a first     *)
(* block, or has it grow a block, beyond whose end it reads, as its        *)
(* comment warns (malloc.c:189-192, 253-286).                              *)
UndefinedOnly ==
    fault = "undefined" =>
        \/ asserted /\ \E alloc \in DOMAIN Allocators :
                          NULL \in {Allocators[alloc].calloc, Allocators[alloc].realloc}
        \/ \E t \in Threads :
              /\ pc[t] = "release"
              /\ op[t].given # NULL => op[t].size > Len(mem[op[t].given].data)

(* A debug hook that keeps an account, knows which calls report twice, and *)
(* looks for a free's pointer in ptr, where malloc.c:193 puts it and       *)
(* malloc.h:59-60 does not, knows the live blocks whenever no call runs,   *)
(* although a report may come after the address it is about was given to   *)
(* another thread (malloc.c:176-177, 192-193, 288; malloc.h:10).           *)
LedgerExact ==
    debug /\ fault = "none" /\ (\A t \in Threads : pc[t] = "idle") =>
        \A a \in Addr : balance[a] = IF mem[a] = NULL THEN 0 ELSE 2

(* A call that returns a block returns all the bytes it was asked for, or  *)
(* the assertion on the product has failed (malloc.c:241-242).             *)
SizeOrAssert ==
    \A t \in Threads : pc[t] = "report" /\ out[t] # NULL =>
        asserted \/ Len(mem[out[t]].data) >= op[t].size

-----------------------------------------------------------------------------
(* What the proofs need to know besides.  The emulation of realloc has     *)
(* moved to a block other than the old one, with what fits of it.          *)
Moved ==
    \A t \in Threads : fault = "none" /\ pc[t] = "release" /\ out[t] # NULL =>
        ptr[t] # NULL /\ out[t] # ptr[t]

MovedCopy ==
    \A t \in Threads : fault = "none" /\ pc[t] = "release" /\ out[t] # NULL =>
        /\ op[t].size <= MaxSize
        /\ mem[out[t]].data = Copied(op[t].size, mem[ptr[t]].data)

(* What a thread has goes back to the arena it is from. *)
Routed ==
    fault = "none" => \A t \in Threads : \A x \in Holds(t) :
        /\ mem[x].arena = Table(via[t]).malloc
        /\ Table(via[t]).free = Table(via[t]).malloc

PmlInvariant == TypeOK /\ Moved /\ BlocksHeld /\ Routed /\ UndefinedOnly

(* Every block a call has got so far is as large as it was asked for. *)
Sized ==
    \A t \in Threads : pc[t] # "idle" /\ out[t] # NULL =>
        asserted \/ Len(mem[out[t]].data) >= op[t].size

(* What a thread's call has still to report of an address.  Emulations     *)
(* count one and report twice; the old block of a realloc still counts.    *)
Owes(t, a) ==
    CASE pc[t] = "report"     -> Counted(t, a)
      [] pc[t] = "own_report" -> 2 * Counted(t, a)
      [] pc[t] = "release" /\ a = out[t] -> 2
      [] OTHER -> 0

OwedTo(a) == [t \in Threads |-> Owes(t, a)]

(* The sum of what threads owe, each at most two either way. *)
Total(owed) ==
    LET Number(n) == Cardinality({t \in Threads : owed[t] = n})
    IN  2 * Number(2) + Number(1) - Number(-1) - 2 * Number(-2)

Worth(a) == IF mem[a] = NULL THEN 0 ELSE 2

(* With what is still to be reported the account is always right, so it is *)
(* right when nothing is; while nobody listens it stays empty.             *)
Accounted ==
    fault = "none" => \A a \in Addr :
        balance[a] = IF debug THEN Worth(a) - Total(OwedTo(a)) ELSE 0

(* Only an emulation frees on its own, or reports to the debug hook first. *)
Emulating == fault = "none" => \A t \in Threads :
    /\ pc[t] \in {"release", "own_report"} => op[t].type # "FREE" /\ Weight(t) = 1
    /\ pc[t] = "release" => op[t].given = ptr[t] /\ op[t].type = "REALLOC"

-----------------------------------------------------------------------------
(* What the documentation says and the code does not do: pml_realloc has   *)
(* the functionality of realloc (malloc.h:7-8), for which a null pointer   *)
(* asks for a first block.                                                 *)
ReallocAllocates ==
    \A t \in Threads :
        op[t] # NULL /\ op[t].type = "REALLOC" /\ op[t].given = NULL => fault = "none"

=============================================================================
