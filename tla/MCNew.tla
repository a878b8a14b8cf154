-------------------------------- MODULE MCNew --------------------------------
(***************************************************************************)
(* An instance of PmlNew for TLC.                                          *)
(***************************************************************************)
EXTENDS NewProps, TLC

CONSTANTS t1, t2, a1, a2, a3, pool

MCUses == {[class |-> "plain", via |-> NULL], [class |-> "keeper", via |-> NULL],
           [class |-> "keeper", via |-> pool]}

Symmetry == Permutations({t1, t2}) \cup Permutations({a1, a2, a3})
=============================================================================
