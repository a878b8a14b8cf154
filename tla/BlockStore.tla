----------------------------- MODULE BlockStore -----------------------------
(***************************************************************************)
(* What a memory library promises its client: each thread holds a block or *)
(* none, gets one of unknown or of zero contents, writes it, changes its   *)
(* size without losing what fits, and gives it back.  No thread's block is *)
(* touched by another.                                                     *)
(***************************************************************************)
EXTENDS Naturals, Sequences

CONSTANTS Threads, NoBlock, MaxSize

VARIABLE held   \* thread -> the bytes of its block

Init == held = [t \in Threads |-> NoBlock]

Bytes(n, b) == [k \in 1..n |-> b]

(* The first n bytes of a block, and what is beyond its end. *)
Resized(n, old) == [k \in 1..n |-> IF k <= Len(old) THEN old[k] ELSE "any"]

Get(t) ==
    /\ held[t] = NoBlock
    /\ \E n \in 0..MaxSize, b \in {"any", "zero"} : held' = [held EXCEPT ![t] = Bytes(n, b)]

Write(t) ==
    /\ held[t] # NoBlock
    /\ held' = [held EXCEPT ![t] = Bytes(Len(held[t]), "data")]

Resize(t) ==
    /\ held[t] # NoBlock
    /\ \E n \in 0..MaxSize : held' = [held EXCEPT ![t] = Resized(n, held[t])]

Put(t) == held' = [held EXCEPT ![t] = NoBlock]

Next == \E t \in Threads : Get(t) \/ Write(t) \/ Resize(t) \/ Put(t)

Spec == Init /\ [][Next]_held

=============================================================================
