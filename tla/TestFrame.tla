----------------------------- MODULE TestFrame ------------------------------
(***************************************************************************)
(* testframe/test.c and driver.c: main calls TFR_args, the user's TFR_main *)
(* that declares suites and adds units to them, and TFR_run.  Suites are   *)
(* linked through their next members, hook is the member the next suite is *)
(* linked to.  What TFR_args reads through miniconf is any focus and any   *)
(* -help.  Titles and printing are left out.                               *)
(***************************************************************************)
EXTENDS Naturals, Sequences

CONSTANTS
    Suites,     \* the static TFR_Suites, one per TFR_SUITE_DECLARE_M
    Tests,      \* unit test functions
    NULL,
    MaxUnits,   \* TFR_MAX_UNITS_PER_SUITE
    Named,      \* focus -> the suites of that name, up to case (TFR_stricmp)
    Bodies,     \* suite -> what TFR_main may add to it when it declares it
    Early,      \* what it may add before it declares any
    CanFail,    \* whether strdup may return NULL
    MaxSuites   \* bound on suite_tests, above the suites a list can hold

Focus == DOMAIN Named

ASSUME FrameAssumption ==
    /\ NULL \notin Suites /\ NULL \notin Tests /\ NULL \notin Focus
    /\ MaxUnits \in Nat \ {0}
    /\ Named \in [Focus -> SUBSET Suites]
    /\ Bodies \in [Suites -> SUBSET Seq(Tests)]
    /\ Early \subseteq Seq(Tests)
    /\ CanFail \in BOOLEAN
    /\ MaxSuites \in Nat

VARIABLES
    phase,          \* of main: "args", "main", "run", "done"
    focus,          \* TFR_test_S.focus
    storage,        \* what it points to: "none", "static", "config", "heap", "freed"
    verbose,        \* TFR_test_S.verbosity # 0
    help,           \* TFR_test_S.help
    exit_handler,   \* TFR_exit_handler_S is set
    first, hook,    \* TFR_test_S; hook as the suite it is in, NULL for 0
    link,           \* suite -> its next
    unit,           \* suite -> its units' functions, NULL where there is none
    suite, counter, \* TFR_suite_S, TFR_counter_S
    body,           \* tests TFR_main has still to add to the suite it declared
    test, i,        \* TFR_run's suite and unit, which counts from 1 here
    suite_tests, suite_success, unit_tests, unit_success,
    outcome,        \* suite -> what became of its units in this run
    result,         \* what TFR_run returned
    exited,         \* was the exit handler called?
    fault           \* "none", or "undefined" when the program died

optionVars == <<focus, storage, verbose, help, exit_handler>>
chainVars  == <<first, hook, link>>
tableVars  == <<unit, suite, counter, body>>
countVars  == <<suite_tests, suite_success, unit_tests, unit_success, outcome>>
runVars    == <<test, i, countVars>>
endVars    == <<result, exited>>
vars == <<phase, optionVars, chainVars, tableVars, runVars, endVars, fault>>

Units == 1..MaxUnits
Storage == {"none", "static", "config", "heap", "freed"}
Outcome == {"none", "passed", "failed", "unopened"}
Maybe(set) == set \cup {NULL}

TypeOK ==
    /\ phase \in {"args", "main", "run", "done"}
    /\ focus \in Maybe(Focus) /\ storage \in Storage
    /\ verbose \in BOOLEAN /\ help \in BOOLEAN /\ exit_handler \in BOOLEAN
    /\ first \in Maybe(Suites) /\ hook \in Maybe(Suites)
    /\ link \in [Suites -> Maybe(Suites)]
    /\ unit \in [Suites -> [Units -> Maybe(Tests)]]
    /\ suite \in Maybe(Suites) /\ counter \in 0..MaxUnits
    /\ body \in Seq(Tests)
    /\ test \in Maybe(Suites) /\ i \in 1..(MaxUnits + 1)
    /\ suite_tests \in Nat /\ suite_success \in 0..suite_tests
    /\ unit_tests \in 0..MaxUnits /\ unit_success \in 0..unit_tests
    /\ outcome \in [Suites -> [Units -> Outcome]]
    /\ result \in BOOLEAN /\ exited \in BOOLEAN
    /\ fault \in {"none", "undefined"}

Init ==
    /\ phase = "args"
    /\ focus = NULL /\ storage = "none" /\ verbose = FALSE /\ help = FALSE
    /\ exit_handler = FALSE
    /\ first = NULL /\ hook = NULL /\ link = [s \in Suites |-> NULL]
    /\ unit = [s \in Suites |-> [k \in Units |-> NULL]]
    /\ suite = NULL /\ counter = 0 /\ body \in Early
    /\ test = NULL /\ i = 1
    /\ suite_tests = 0 /\ suite_success = 0 /\ unit_tests = 0 /\ unit_success = 0
    /\ outcome = [s \in Suites |-> [k \in Units |-> "none"]]
    /\ result = FALSE /\ exited = FALSE /\ fault = "none"

In(p) == fault = "none" /\ phase = p
Halt(how) ==
    fault' = how
    /\ UNCHANGED <<phase, optionVars, chainVars, tableVars, runVars, endVars>>

-----------------------------------------------------------------------------
(* Variant of StoredFocus: the string is not copied. *)
StoredFocus_NoCopy(f, ok) == [focus |-> f, storage |-> IF f = NULL THEN "none" ELSE "config"]

(* The focus miniconf read, copied: it must outlive cfg_exit. *)
StoredFocus(f, ok) ==
    IF f # NULL /\ ok THEN [focus |-> f, storage |-> "heap"]
                      ELSE [focus |-> NULL, storage |-> "none"]

TFR_args ==
    /\ In("args") /\ phase' = "main"
    /\ \E f \in Maybe(Focus), ok \in IF CanFail THEN BOOLEAN ELSE {TRUE} :
          LET new == StoredFocus(f, ok)
          IN  focus' = new.focus /\ storage' = new.storage
    /\ verbose' \in BOOLEAN /\ help' \in BOOLEAN
    /\ UNCHANGED <<exit_handler, chainVars, tableVars, runVars, endVars, fault>>

(* TFR_main runs, and is not between a declaration and the last unit of it. *)
Between == In("main") /\ body = <<>>

TFR_set_focus(f) ==
    /\ Between
    /\ focus' = f /\ storage' = IF f = NULL THEN "none" ELSE "static"
    /\ UNCHANGED <<phase, verbose, help, exit_handler, chainVars, tableVars, runVars, endVars, fault>>

TFR_on_exit ==
    /\ Between
    /\ exit_handler' = TRUE
    /\ UNCHANGED <<phase, focus, storage, verbose, help, chainVars, tableVars, runVars, endVars, fault>>

-----------------------------------------------------------------------------
Excluded(s) == focus # NULL /\ s \notin Named[focus]

(* Variant of Linked: next is cleared before the suite is hooked in. *)
Linked_ClearsFirst(s) ==
    LET cleared == [link EXCEPT ![s] = NULL]
    IN  IF hook = NULL THEN cleared ELSE [cleared EXCEPT ![hook] = s]

(* Variant of Linked: next is not cleared. *)
Linked_KeepsNext(s) == IF hook = NULL THEN link ELSE [link EXCEPT ![hook] = s]

(* *hook = suite; suite->next = 0, in this order: suite may be the hooked one. *)
Linked(s) ==
    LET hooked == IF hook = NULL THEN link ELSE [link EXCEPT ![hook] = s]
    IN  [hooked EXCEPT ![s] = NULL]

(* Variant of Current: the units of a suite that is kept off the list go   *)
(* to the one before.                                                      *)
Current_Unchanged(s) == IF Excluded(s) THEN suite ELSE s

(* Whether it is listed or not, the next units go to it. *)
Current(s) == s

TFR_add(s) ==
    /\ IF Excluded(s) THEN UNCHANGED chainVars
       ELSE /\ link' = Linked(s)
            /\ first' = IF hook = NULL THEN s ELSE first
            /\ hook' = s
    /\ suite' = Current(s) /\ counter' = 0

TFR_SUITE_DECLARE_M(s) ==
    /\ Between
    /\ TFR_add(s)
    /\ body' \in Bodies[s]
    /\ UNCHANGED <<phase, optionVars, unit, runVars, endVars, fault>>

(* Variant of Room: no unit is too many. *)
Room_Always == TRUE
Room == counter < MaxUnits

(* Before the first declaration there is no suite, and nothing is added. *)
TFR_SUITE_ADD_M ==
    /\ In("main") /\ body # <<>>
    /\ suite # NULL => Room
    /\ IF suite = NULL THEN UNCHANGED <<unit, counter>>
       ELSE /\ unit' = [unit EXCEPT ![suite][counter + 1] = Head(body)]
            /\ counter' = counter + 1
    /\ body' = Tail(body)
    /\ UNCHANGED <<phase, optionVars, chainVars, suite, runVars, endVars, fault>>

(* TFR_next_unit does not test counter: the unit it returns after the last *)
(* one is the memory of the suite's next member.                           *)
UnitOverrun ==
    /\ In("main") /\ body # <<>> /\ suite # NULL /\ ~Room
    /\ Halt("undefined")

-----------------------------------------------------------------------------
TFR_usage ==
    /\ Between /\ help
    /\ phase' = "done" /\ result' = TRUE
    /\ UNCHANGED <<optionVars, chainVars, tableVars, runVars, exited, fault>>

TFR_run ==
    /\ Between /\ ~help
    /\ phase' = "run" /\ test' = first
    /\ UNCHANGED <<optionVars, chainVars, tableVars, i, countVars, endVars, fault>>

(* The loop condition reads unit[i].func, and only then asks if i is one   *)
(* of the array's: behind the last unit of a full suite it reads what lies *)
(* behind the array.                                                       *)
BehindUnits == i > MaxUnits
AtUnit == ~BehindUnits /\ unit[test][i] # NULL

(* Variant of Counts: a unit that does not open is not counted. *)
Counts_NotUnopened(o) == o # "unopened"
Counts(o) == TRUE

(* open, the unit's function, close: how it ends is up to the user's code. *)
RunUnit ==
    /\ In("run") /\ test # NULL /\ AtUnit
    /\ \E o \in Outcome \ {"none"} :
          /\ outcome' = [outcome EXCEPT ![test][i] = o]
          /\ unit_tests' = IF Counts(o) THEN unit_tests + 1 ELSE unit_tests
          /\ unit_success' = IF o = "passed" THEN unit_success + 1 ELSE unit_success
    /\ i' = i + 1
    /\ UNCHANGED <<phase, optionVars, chainVars, tableVars, test,
                   suite_tests, suite_success, endVars, fault>>

(* That read has no meaning: the program dies of it, or goes on to         *)
(* EndSuite with a value that does not matter any more.                    *)
ReadsBehind ==
    /\ In("run") /\ test # NULL /\ BehindUnits
    /\ Halt("undefined")

(* The bar of the terse report is unit_success / unit_tests wide. *)
DividesByZero == ~verbose /\ unit_tests = 0

EndSuite ==
    /\ In("run") /\ test # NULL /\ ~AtUnit /\ ~DividesByZero
    /\ suite_tests < MaxSuites
    /\ suite_tests' = suite_tests + 1
    /\ suite_success' = IF unit_success = unit_tests THEN suite_success + 1 ELSE suite_success
    /\ test' = link[test]
    /\ i' = 1 /\ unit_tests' = 0 /\ unit_success' = 0
    /\ UNCHANGED <<phase, optionVars, chainVars, tableVars, outcome, endVars, fault>>

EmptySuite ==
    /\ In("run") /\ test # NULL /\ ~AtUnit /\ DividesByZero
    /\ Halt("undefined")

(* free(focus) at the end; the pointer stays. *)
RunReturns ==
    /\ In("run") /\ test = NULL /\ storage \in {"none", "heap"}
    /\ storage' = IF focus = NULL THEN storage ELSE "freed"
    /\ phase' = "done" /\ result' = (suite_success = suite_tests)
    /\ exited' = exit_handler
    /\ UNCHANGED <<focus, verbose, help, exit_handler, chainVars, tableVars, runVars, fault>>

FreeCrashes ==
    /\ In("run") /\ test = NULL /\ storage \in {"static", "config"}
    /\ Halt("undefined")

-----------------------------------------------------------------------------
ClientStep ==
    \/ \E f \in Maybe(Focus) : TFR_set_focus(f)
    \/ TFR_on_exit
    \/ \E s \in Suites : TFR_SUITE_DECLARE_M(s)
    \/ TFR_SUITE_ADD_M
    \/ UnitOverrun

RunStep == RunUnit \/ ReadsBehind \/ EndSuite \/ EmptySuite \/ RunReturns \/ FreeCrashes

Next == TFR_args \/ ClientStep \/ TFR_usage \/ TFR_run \/ RunStep

Spec == Init /\ [][Next]_vars

(* TFR_run is a loop that waits for nothing, if the user's units return.   *)
FairSpec == Spec /\ WF_vars(RunStep)

=============================================================================
