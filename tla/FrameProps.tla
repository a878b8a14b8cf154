----------------------------- MODULE FrameProps -----------------------------
(***************************************************************************)
(* What testframe must satisfy.                                            *)
(***************************************************************************)
EXTENDS TestFrame, FiniteSets

ASSUME SuitesAssumption == IsFiniteSet(Suites)

(* The suites reached from one of them, or from NULL, by next. *)
Followed(from) ==
    LET at[k \in 0..Cardinality(Suites)] ==
            IF k = 0 THEN from ELSE IF at[k - 1] = NULL THEN NULL ELSE link[at[k - 1]]
    IN  at

Chain(from) ==
    LET at == Followed(from)
    IN  [k \in 1..Cardinality({j \in 0..(Cardinality(Suites) - 1) : at[j] # NULL}) |-> at[k - 1]]

(* The links never close a cycle, whatever suites are declared how often,  *)
(* the last one twice in a row included: every set of suites has one that  *)
(* links out of it.  TFR_run would not return (TFR_add, test.c:128-135).   *)
Acyclic == \A S \in (SUBSET Suites) \ {{}} : \E s \in S : link[s] \notin S

(* TFR_run returns, or dies (test.c:161-268). *)
RunEnds == phase = "run" ~> (phase = "done" \/ fault # "none")

(* The links, the counters and the focus implement the list of SuiteList:  *)
(* no suite of it is skipped, repeated or run out of order, the focus set  *)
(* when a suite is declared decides whether it joins, and TFR_run returns  *)
(* true iff every suite succeeded (test.c:116-141, 144-268).               *)
List == INSTANCE SuiteList WITH
    NoFocus <- NULL,
    stage   <- IF phase \in {"args", "main"} THEN "declare" ELSE phase,
    list    <- Chain(first),
    left    <- Chain(test),
    good    <- suite_success = suite_tests,
    verdict <- result

ImplementsList == List!Spec

(* The same suites as a set, without order: those in every set that holds  *)
(* the one the links are followed from and is closed under them.           *)
Closed(S) == \A q \in S : link[q] \in S \cup {NULL}

From(s) == {q \in Suites : \A S \in SUBSET Suites : s \in S \cup {NULL} /\ Closed(S) => q \in S}

Listed == From(first)

(* A finished run has called exactly the units of the listed suites, and   *)
(* returns true iff every one opened and passed (test.c:192-223, 268).     *)
VerdictExact ==
    phase = "done" /\ ~help =>
        /\ \A s \in Suites, k \in Units :
              outcome[s][k] # "none" <=> s \in Listed /\ unit[s][k] # NULL
        /\ result <=> \A s \in Listed, k \in Units : outcome[s][k] \in {"none", "passed"}

(* A unit is in no suite but the one it was declared with, and there at    *)
(* the place TFR_main added it at, also when the focus keeps the suite off *)
(* the list or it is declared again (test.c:120-126, 356-365).             *)
UnitsAtHome ==
    \A s \in Suites, k \in Units :
        unit[s][k] # NULL => \E units \in Bodies[s] : Len(units) >= k /\ units[k] = unit[s][k]

(* The program dies of what TFR_main adds or sets, and in four places      *)
(* only: more units in a suite than it has room for, the loop over a suite *)
(* that is full, the terse report of a suite without units, the free of a  *)
(* focus TFR_main set itself; never through one TFR_args copied            *)
(* (test.c:192, 230, 258-261, 342, 361).                                   *)
UndefinedOnly ==
    fault = "undefined" =>
        \/ phase = "main" /\ \E units \in Bodies[suite] : Len(units) > MaxUnits
        \/ phase = "run" /\ test # NULL /\ \E units \in Bodies[test] : Len(units) >= MaxUnits
        \/ phase = "run" /\ test # NULL /\ ~verbose /\ <<>> \in Bodies[test]
        \/ phase = "run" /\ test = NULL /\ storage = "static"

-----------------------------------------------------------------------------
(* The inductive invariant behind these.  TFR_run has counted the units    *)
(* before the one it is at: this bounds the counters of TypeOK.            *)
CountsUnits == unit_tests = i - 1

(* What is still to be added is the end of a body of the current suite.    *)
BodyLeft ==
    suite # NULL => \E units \in Bodies[suite] :
        /\ Len(units) = counter + Len(body)
        /\ \A j \in 1..Len(body) : body[j] = units[counter + j]

(* The units of a suite are the first of its array, also when it is        *)
(* declared again with fewer.                                              *)
Packed ==
    /\ \A s \in Suites : \A k, m \in Units : k < m /\ unit[s][m] # NULL => unit[s][k] # NULL
    /\ suite # NULL => \A k \in 1..counter : unit[suite][k] # NULL

(* A suite on the list has a unit, may have none, or waits for its first.  *)
Linkable(s) == s \in {first, test} \/ \E q \in Suites : link[q] = s

Filled ==
    \A s \in Suites : Linkable(s) =>
        \/ unit[s][1] # NULL
        \/ <<>> \in Bodies[s]
        \/ suite = s /\ counter = 0 /\ body # <<>>

(* What is freed in the end is nobody else's, and a run has all its units. *)
Ready == storage # "config" /\ (phase = "run" => body = <<>>)

(* Before the run nothing is counted.  In it, the suites the links have    *)
(* left behind are those whose units all have an outcome, and the counters *)
(* say whether all of them passed.                                         *)
Passed(o) == o \in {"none", "passed"}
Finished == Listed \ From(test)

Unstarted ==
    phase \in {"args", "main"} =>
        /\ i = 1 /\ suite_tests = 0
        /\ \A s \in Suites, k \in Units : outcome[s][k] = "none"

Tally ==
    phase = "run" \/ (phase = "done" /\ ~help) =>
        /\ From(test) \subseteq Listed
        /\ \A s \in Suites, k \in Units :
              outcome[s][k] # "none" <=> unit[s][k] # NULL /\ (s \in Finished \/ (s = test /\ k < i))
        /\ suite_success = suite_tests <=> \A s \in Finished, k \in Units : Passed(outcome[s][k])
        /\ unit_success = unit_tests <=> \A k \in 1..(i - 1) : outcome[test][k] = "passed"
        /\ test = NULL => i = 1
        /\ \A k \in 1..(i - 1) : unit[test][k] # NULL
        /\ phase = "done" => test = NULL /\ result = (suite_success = suite_tests)

FrameInvariant ==
    /\ TypeOK /\ CountsUnits /\ Acyclic
    /\ BodyLeft /\ Packed /\ Filled /\ Ready /\ Unstarted /\ Tally
    /\ UnitsAtHome /\ UndefinedOnly

(* TFR_add hooks a suite in behind the last of the list, before the run.   *)
HookedLast ==
    /\ hook = IF Chain(first) = <<>> THEN NULL ELSE Chain(first)[Len(Chain(first))]
    /\ phase \in {"args", "main"} => test = NULL

-----------------------------------------------------------------------------
(* What the header says and the code does not do: with a focus set, only   *)
(* the suite matching the name is executed (test.h:101, 166-167).  The     *)
(* code compares the focus with the suites declared after it (test.c:120). *)
FocusedAlone ==
    focus # NULL =>
        \A s \in Suites : (\E k \in Units : outcome[s][k] # "none") => s \in Named[focus]

=============================================================================
