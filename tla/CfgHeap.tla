------------------------------ MODULE CfgHeap ------------------------------
(***************************************************************************)
(* The C heap as miniconf sees it through cfgALLOC_M and cfgFREE_M         *)
(* (miniconf/setup.h).  A memory m is a sequence of cells, one per block   *)
(* ever allocated: the address of a block is its index, its cell holds     *)
(* the string it stores, Raw for memory that is not a string, or Freed.    *)
(* An address is never handed out twice, so a stale pointer can never be   *)
(* mistaken for a live one.                                                *)
(***************************************************************************)
EXTENDS Naturals, Sequences

CONSTANTS
    Text,       \* the C strings the program meets, as opaque values
    NULL,       \* the null pointer
    Raw,        \* contents of an argv vector or of a read buffer
    Freed,      \* contents of a cell given back to the allocator
    CanFail     \* whether malloc may return NULL

ASSUME HeapAssumption ==
    /\ NULL \notin Text /\ NULL \notin Nat
    /\ Raw \notin Text
    /\ Freed \notin Text \cup {Raw}
    /\ CanFail \in BOOLEAN

Ptr == Nat \cup {NULL}
Content == Text \cup {Raw, Freed}

(* The answers malloc may give: TRUE grants the request. *)
Grant == IF CanFail THEN BOOLEAN ELSE {TRUE}

Live(m, ptr) == ptr \in DOMAIN m /\ m[ptr] # Freed

cfgALLOC(m, content, ok) ==
    IF ok THEN [mem |-> Append(m, content), ptr |-> Len(m) + 1]
          ELSE [mem |-> m, ptr |-> NULL]

(* Was memory asked for and not given? *)
Refused(s, copy) == s # NULL /\ copy.ptr = NULL

(* A null string is copied to a null pointer and asks malloc for nothing. *)
cfg_copy_string(m, s, ok) == cfgALLOC(m, s, ok /\ s # NULL)

(* free() of every pointer of a set; free(NULL) does nothing. *)
cfgFREE(m, ptrs) == [a \in DOMAIN m |-> IF a \in ptrs THEN Freed ELSE m[a]]

=============================================================================
