----------------------------- MODULE SuiteList ------------------------------
(***************************************************************************)
(* What testframe does, without links and counters: the declared suites    *)
(* form a list, a run takes them off it one by one, in order, and succeeds *)
(* iff each of them did.  Two things are not as test.h has them.  A focus  *)
(* keeps suites off the list that are declared while it is set, and none   *)
(* that is in it already (test.h:166: only the suite matching the name     *)
(* will be executed).  Declaring a suite that is in the list already ends  *)
(* the list there: those after it are lost (test.h:113: run all suites).   *)
(***************************************************************************)
EXTENDS SequencesExt

CONSTANTS
    Suites,
    Named,      \* focus -> the suites of that name
    NoFocus

VARIABLES
    stage,      \* "declare", "run" or "done"
    focus,
    list,       \* the suites declared
    left,       \* those the run has not finished with
    good,       \* has every finished suite succeeded?
    verdict     \* what TFR_run returned

suiteVars == <<stage, focus, list, left, good, verdict>>

Init == /\ stage = "declare" /\ focus = NoFocus
        /\ list = <<>> /\ left = <<>> /\ good = TRUE /\ verdict = FALSE

SetFocus ==
    /\ stage = "declare" /\ focus' \in DOMAIN Named \cup {NoFocus}
    /\ UNCHANGED <<stage, list, left, good, verdict>>

Wanted(s) == focus # NoFocus => s \in Named[focus]

Upto(s) == SubSeq(list, 1, CHOOSE k \in DOMAIN list : list[k] = s)

(* A suite that is not wanted may be declared, and nothing changes. *)
Declare(s) ==
    /\ stage = "declare" /\ Wanted(s)
    /\ list' = IF Contains(list, s) THEN Upto(s) ELSE Append(list, s)
    /\ UNCHANGED <<stage, focus, left, good, verdict>>

Begin == stage = "declare" /\ stage' = "run" /\ left' = list /\ UNCHANGED <<focus, list, good, verdict>>

(* -help: nothing is run, and that is a success. *)
Help == stage = "declare" /\ stage' = "done" /\ verdict' = TRUE /\ UNCHANGED <<focus, list, left, good>>

Suite ==
    /\ stage = "run" /\ left # <<>>
    /\ left' = Tail(left)
    /\ \E ok \in BOOLEAN : good' = (good /\ ok)
    /\ UNCHANGED <<stage, focus, list, verdict>>

End ==
    /\ stage = "run" /\ left = <<>>
    /\ stage' = "done" /\ verdict' = good
    /\ UNCHANGED <<focus, list, left, good>>

Next == SetFocus \/ (\E s \in Suites : Declare(s)) \/ Begin \/ Help \/ Suite \/ End

Spec == Init /\ [][Next]_suiteVars

=============================================================================
