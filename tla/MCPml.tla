-------------------------------- MODULE MCPml -------------------------------
(***************************************************************************)
(* An instance of Pml for TLC, with the allocator of the repository's test *)
(* of pml_emulate_realloc (src/tests/pml/malloc.c): it has no calloc.      *)
(***************************************************************************)
EXTENDS PmlProps, TLC

CONSTANTS libc, pool, p, q, a, b, c

MCAllocators == [n \in {"growing"} |->
    [malloc |-> pool, free |-> pool, calloc |-> NULL, realloc |-> Emulate]]

MCChoices == [which \in {"malloc", "free", "calloc", "realloc"} |->
    IF which \in {"malloc", "free"} THEN {NULL, pool} ELSE {NULL, Emulate}]

Symmetry == Permutations({p, q}) \cup Permutations({a, b, c})
=============================================================================
