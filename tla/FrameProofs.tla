---------------------------- MODULE FrameProofs -----------------------------
(***************************************************************************)
(* What holds of testframe for any suites, tests, bodies and names: its    *)
(* links, counters and units, and that it implements SuiteList.            *)
(***************************************************************************)
EXTENDS FrameProps, FiniteSetTheorems, TLAPS

Typed == TypeOK /\ CountsUnits

-----------------------------------------------------------------------------
(* Linking a suite in leaves the links typed, and the suite the last.      *)
LEMMA LinkedFacts ==
    ASSUME TypeOK, NEW s \in Suites
    PROVE  /\ Linked(s) \in [Suites -> Maybe(Suites)]
           /\ Linked(s)[s] = NULL
           /\ \A q \in Suites \ {s} : Linked(s)[q] = IF q = hook THEN s ELSE link[q]
  BY FrameAssumption DEF TypeOK, Linked, Maybe

(* The initial state is typed. *)
LEMMA TypedInit == Init => Typed
<1> SUFFICES ASSUME Init PROVE Typed
  OBVIOUS
<1>1. /\ phase \in {"args", "main", "run", "done"}
      /\ focus \in Maybe(Focus) /\ storage \in Storage
      /\ verbose \in BOOLEAN /\ help \in BOOLEAN /\ exit_handler \in BOOLEAN
      /\ first \in Maybe(Suites) /\ hook \in Maybe(Suites)
      /\ suite \in Maybe(Suites) /\ test \in Maybe(Suites)
      /\ result \in BOOLEAN /\ exited \in BOOLEAN /\ fault \in {"none", "undefined"}
  BY DEF Init, Maybe, Storage
<1>2. /\ link \in [Suites -> Maybe(Suites)]
      /\ unit \in [Suites -> [Units -> Maybe(Tests)]]
      /\ outcome \in [Suites -> [Units -> Outcome]]
  BY DEF Init, Maybe, Outcome
<1>3. /\ counter \in 0..MaxUnits /\ i \in 1..(MaxUnits + 1) /\ unit_tests = i - 1
      /\ suite_tests \in Nat /\ suite_success \in 0..suite_tests
      /\ unit_tests \in 0..MaxUnits /\ unit_success \in 0..unit_tests
  BY FrameAssumption DEF Init
<1>4. body \in Seq(Tests)
  BY FrameAssumption DEF Init
<1> QED
  BY <1>1, <1>2, <1>3, <1>4 DEF Typed, TypeOK, CountsUnits

(* TFR_args, TFR_main and the start of TFR_run keep the types. *)
LEMMA TypedClient ==
    ASSUME Typed, TFR_args \/ ClientStep \/ TFR_usage \/ TFR_run
    PROVE  Typed'
<1> USE FrameAssumption DEF Typed, CountsUnits, Maybe
<1>1. CASE TFR_args
  BY <1>1 DEF TypeOK, TFR_args, StoredFocus, Storage, In, chainVars, tableVars, runVars,
              countVars, endVars
<1>2. ASSUME NEW f \in Maybe(Focus), TFR_set_focus(f) PROVE Typed'
  BY <1>2 DEF TypeOK, TFR_set_focus, Storage, Between, In, chainVars, tableVars, runVars,
              countVars, endVars
<1>3. CASE TFR_on_exit
  BY <1>3 DEF TypeOK, TFR_on_exit, Between, In, chainVars, tableVars, runVars, countVars, endVars
<1>4. ASSUME NEW s \in Suites, TFR_SUITE_DECLARE_M(s) PROVE Typed'
  <2>1. first' \in Maybe(Suites) /\ hook' \in Maybe(Suites) /\ link' \in [Suites -> Maybe(Suites)]
    BY <1>4, LinkedFacts DEF TypeOK, TFR_SUITE_DECLARE_M, TFR_add, chainVars
  <2>2. suite' \in Suites /\ counter' = 0 /\ body' \in Seq(Tests)
    BY <1>4 DEF TFR_SUITE_DECLARE_M, TFR_add, Current
  <2> QED
    BY <1>4, <2>1, <2>2 DEF TypeOK, TFR_SUITE_DECLARE_M, Between, In, optionVars, runVars,
                            countVars, endVars
<1>5. CASE TFR_SUITE_ADD_M
  <2>1. Head(body) \in Tests /\ Tail(body) \in Seq(Tests)
    BY <1>5 DEF TypeOK, TFR_SUITE_ADD_M
  <2>2. unit' \in [Suites -> [Units -> Maybe(Tests)]] /\ counter' \in 0..MaxUnits
    <3>1. CASE suite = NULL
      BY <1>5, <3>1 DEF TypeOK, TFR_SUITE_ADD_M
    <3>2. CASE suite # NULL
      <4>1. suite \in Suites /\ counter + 1 \in Units /\ counter + 1 \in 0..MaxUnits
        BY <1>5, <3>2 DEF TypeOK, TFR_SUITE_ADD_M, Room, Units
      <4>2. /\ unit' = [unit EXCEPT ![suite] = [unit[suite] EXCEPT ![counter + 1] = Head(body)]]
            /\ counter' = counter + 1
        BY <1>5, <3>2 DEF TFR_SUITE_ADD_M
      <4>3. [unit[suite] EXCEPT ![counter + 1] = Head(body)] \in [Units -> Maybe(Tests)]
        BY <2>1, <4>1 DEF TypeOK
      <4> QED
        BY <4>1, <4>2, <4>3 DEF TypeOK
    <3> QED BY <3>1, <3>2
  <2> QED
    BY <1>5, <2>1, <2>2 DEF TypeOK, TFR_SUITE_ADD_M, In, optionVars, chainVars, runVars,
                            countVars, endVars
<1>6. CASE UnitOverrun
  BY <1>6 DEF TypeOK, UnitOverrun, Halt, optionVars, chainVars, tableVars, runVars,
              countVars, endVars
<1>7. CASE TFR_usage
  BY <1>7 DEF TypeOK, TFR_usage, Between, In, optionVars, chainVars, tableVars, runVars, countVars
<1>8. CASE TFR_run
  BY <1>8 DEF TypeOK, TFR_run, Between, In, optionVars, chainVars, tableVars, countVars, endVars
<1> QED
  BY <1>1, <1>2, <1>3, <1>4, <1>5, <1>6, <1>7, <1>8 DEF ClientStep

(* A step of TFR_run keeps the types. *)
LEMMA TypedRun ==
    ASSUME Typed, RunStep
    PROVE  Typed'
<1> USE FrameAssumption DEF Typed, CountsUnits, Maybe
<1>1. CASE RunUnit
  <2>1. test \in Suites /\ i \in Units /\ i + 1 \in 1..(MaxUnits + 1)
    BY <1>1 DEF TypeOK, RunUnit, AtUnit, BehindUnits, Units
  <2>2. outcome' \in [Suites -> [Units -> Outcome]]
    BY <1>1, <2>1 DEF TypeOK, RunUnit
  <2>3. /\ unit_tests' = i /\ i' = i + 1
        /\ unit_success' \in {unit_success, unit_success + 1}
    BY <1>1 DEF TypeOK, RunUnit, Counts
  <2>4. unit_tests' \in 0..MaxUnits /\ unit_success' \in 0..unit_tests' /\ unit_tests' = i' - 1
    BY <2>1, <2>3 DEF TypeOK, Units
  <2> QED
    BY <1>1, <2>1, <2>2, <2>3, <2>4 DEF TypeOK, RunUnit, In, optionVars, chainVars, tableVars, endVars
<1>2. CASE EndSuite
  <2>1. test \in Suites
    BY <1>2 DEF TypeOK, EndSuite
  <2>2. suite_tests' \in Nat /\ suite_success' \in 0..suite_tests'
    BY <1>2 DEF TypeOK, EndSuite
  <2> QED
    BY <1>2, <2>1, <2>2 DEF TypeOK, EndSuite, In, optionVars, chainVars, tableVars, endVars
<1>3. CASE ReadsBehind \/ EmptySuite \/ FreeCrashes
  BY <1>3 DEF TypeOK, ReadsBehind, EmptySuite, FreeCrashes, Halt, optionVars, chainVars, tableVars,
              runVars, countVars, endVars
<1>4. CASE RunReturns
  BY <1>4 DEF TypeOK, RunReturns, Storage, In, chainVars, tableVars, runVars, countVars
<1> QED
  BY <1>1, <1>2, <1>3, <1>4 DEF RunStep

LEMMA TypedStep == Typed /\ [Next]_vars => Typed'
<1> SUFFICES ASSUME Typed, [Next]_vars PROVE Typed'
  OBVIOUS
<1>1. CASE Next
  BY <1>1, TypedClient, TypedRun DEF Next
<1>2. CASE UNCHANGED vars
  BY <1>2 DEF Typed, TypeOK, CountsUnits, vars, optionVars, chainVars, tableVars, runVars,
              countVars, endVars
<1> QED BY <1>1, <1>2

(* Every reachable state of testframe is typed: the unit counter never     *)
(* passes the end of a suite before the program dies, and no more units    *)
(* succeed than were run (TypeOK).                                         *)
THEOREM FrameTypeCorrect == Spec => []TypeOK
<1>1. Typed => TypeOK
  BY DEF Typed
<1> QED
  BY <1>1, TypedInit, TypedStep, PTL DEF Spec

-----------------------------------------------------------------------------
(* The initial links are empty. *)
LEMMA AcyclicInit == Init => Acyclic
  BY FrameAssumption DEF Init, Acyclic

(* Hooking a suite in closes no cycle: a set that holds the suite has it,  *)
(* now the last, as its way out; a set that does not keeps the way out it  *)
(* had, or has the hooked suite's new link.                                *)
LEMMA AcyclicLinked ==
    ASSUME TypeOK, Acyclic, NEW s \in Suites, link' = Linked(s)
    PROVE  Acyclic'
<1> SUFFICES ASSUME NEW S \in (SUBSET Suites) \ {{}}
             PROVE  \E q \in S : Linked(s)[q] \notin S
  BY DEF Acyclic
<1>1. CASE s \in S
  <2>1. Linked(s)[s] \notin S
    BY LinkedFacts, FrameAssumption
  <2> QED BY <1>1, <2>1
<1>2. CASE s \notin S
  <2>1. PICK q \in S : link[q] \notin S
    BY DEF Acyclic
  <2>2. Linked(s)[q] = IF q = hook THEN s ELSE link[q]
    BY <1>2, LinkedFacts
  <2> QED BY <1>2, <2>1, <2>2
<1> QED BY <1>1, <1>2

LEMMA AcyclicStep == TypeOK /\ Acyclic /\ [Next]_vars => Acyclic'
<1> SUFFICES ASSUME TypeOK, Acyclic, [Next]_vars PROVE Acyclic'
  OBVIOUS
<1>1. ASSUME NEW s \in Suites, TFR_SUITE_DECLARE_M(s) PROVE Acyclic'
  <2>1. CASE Excluded(s)
    BY <1>1, <2>1 DEF TFR_SUITE_DECLARE_M, TFR_add, chainVars, Acyclic
  <2>2. CASE ~Excluded(s)
    BY <1>1, <2>2, AcyclicLinked DEF TFR_SUITE_DECLARE_M, TFR_add
  <2> QED BY <2>1, <2>2
<1>2. CASE \A s \in Suites : ~TFR_SUITE_DECLARE_M(s)
  <2>1. UNCHANGED link
    BY <1>2 DEF Next, ClientStep, RunStep, TFR_args, TFR_set_focus, TFR_on_exit,
                TFR_SUITE_ADD_M, UnitOverrun, TFR_usage, TFR_run, RunUnit, EndSuite,
                ReadsBehind, EmptySuite, RunReturns, FreeCrashes, Halt, vars, chainVars
  <2> QED BY <2>1 DEF Acyclic
<1> QED BY <1>1, <1>2

(* The links never close a cycle, whatever suites are declared, however    *)
(* often and in whatever order (Acyclic): TFR_run's walk ends.             *)
THEOREM AcyclicHolds == Spec => []Acyclic
  BY AcyclicInit, AcyclicStep, FrameTypeCorrect, PTL DEF Spec

-----------------------------------------------------------------------------
(* Following the links.  The suites followed from one are closed under     *)
(* them, and are that one and those followed from the one it links to.     *)
LEMMA FromClosed == ASSUME TypeOK, NEW r PROVE Closed(From(r))
<1> SUFFICES ASSUME NEW q \in From(r), link[q] # NULL PROVE link[q] \in From(r)
  BY DEF Closed
<1>1. link[q] \in Suites
  BY DEF TypeOK, From, Maybe
<1>2. ASSUME NEW S \in SUBSET Suites, r \in S \cup {NULL}, Closed(S) PROVE link[q] \in S
  BY <1>2 DEF From, Closed
<1> QED
  BY <1>1, <1>2 DEF From

LEMMA FromStep ==
    ASSUME TypeOK, NEW s \in Suites
    PROVE  /\ s \in From(s)
           /\ From(s) = {s} \cup From(link[s])
<1>1. s \in From(s)
  BY FrameAssumption DEF From
<1>2. ASSUME NEW q \in From(link[s]) PROVE q \in From(s)
  <2>1. ASSUME NEW S \in SUBSET Suites, s \in S \cup {NULL}, Closed(S) PROVE q \in S
    <3>1. link[s] \in S \cup {NULL}
      BY <2>1, FrameAssumption DEF Closed
    <3> QED
      BY <2>1, <3>1 DEF From
  <2> QED
    BY <2>1 DEF From
<1>3. ASSUME NEW q \in From(s) PROVE q \in {s} \cup From(link[s])
  <2> DEFINE S == {s} \cup From(link[s])
  <2>1. S \in SUBSET Suites
    BY DEF From
  <2>2. link[s] \in From(link[s]) \cup {NULL}
    BY DEF From, TypeOK, Maybe
  <2>3. Closed(S)
    BY <2>2, FromClosed DEF Closed
  <2> HIDE DEF S
  <2>4. s \in S
    BY DEF S
  <2>5. q \in S
    BY <2>1, <2>3, <2>4 DEF From
  <2> QED
    BY <2>5 DEF S
<1> QED
  BY <1>1, <1>2, <1>3

LEMMA FromNull == From(NULL) = {}
<1>1. {} \in SUBSET Suites /\ Closed({})
  BY DEF Closed
<1> QED
  BY <1>1 DEF From

(* No suite is followed from the one it links to: the suites from which it *)
(* is followed would have no way out.                                      *)
LEMMA FromAcyclic ==
    ASSUME TypeOK, Acyclic, NEW s \in Suites
    PROVE  s \notin From(link[s])
<1> SUFFICES ASSUME s \in From(link[s]) PROVE FALSE
  OBVIOUS
<1> DEFINE S == {q \in Suites : s \in From(q)}
<1>1. S # {} /\ S \in SUBSET Suites
  BY FromStep
<1>2. ASSUME NEW q \in S PROVE link[q] \in S
  <2>1. s \in From(link[q])
    BY FromStep
  <2>2. link[q] # NULL
    BY <2>1, FromNull
  <2> QED
    BY <2>1, <2>2 DEF TypeOK, Maybe
<1> HIDE DEF S
<1> QED
  BY <1>1, <1>2 DEF Acyclic

-----------------------------------------------------------------------------
(* The initial state satisfies the invariant. *)
LEMMA FrameInit == Init => FrameInvariant
<1> SUFFICES ASSUME Init PROVE FrameInvariant
  OBVIOUS
<1>1. TypeOK /\ CountsUnits /\ Acyclic
  BY TypedInit, AcyclicInit DEF Typed
<1>2. BodyLeft /\ Packed /\ Filled /\ Ready /\ Unstarted /\ Tally
  BY FrameAssumption DEF Init, BodyLeft, Packed, Filled, Linkable, Ready, Unstarted, Tally
<1>3. UnitsAtHome /\ UndefinedOnly
  BY DEF Init, UnitsAtHome, UndefinedOnly
<1> QED
  BY <1>1, <1>2, <1>3 DEF FrameInvariant

(* The types, the counter and the links of the next state are known. *)
LEMMA FrameTyped ==
    ASSUME FrameInvariant, [Next]_vars
    PROVE  TypeOK' /\ CountsUnits' /\ Acyclic'
  BY TypedStep, AcyclicStep DEF FrameInvariant, Typed

-----------------------------------------------------------------------------
(* What TFR_main adds. *)

(* A declaration starts a body; who is on the list now was, or is declared. *)
LEMMA DeclareKeepsUnits ==
    ASSUME FrameInvariant, NEW s \in Suites, TFR_SUITE_DECLARE_M(s)
    PROVE  BodyLeft' /\ Packed' /\ UnitsAtHome' /\ Filled'
<1>1. /\ TypeOK /\ BodyLeft /\ Packed /\ UnitsAtHome /\ Filled
      /\ body = <<>> /\ suite' = s /\ counter' = 0 /\ body' \in Bodies[s]
      /\ unit' = unit /\ test' = test
  BY DEF FrameInvariant, TFR_SUITE_DECLARE_M, TFR_add, Current, Between, runVars
<1>2. body' \in Seq(Tests)
  BY <1>1, FrameAssumption
<1>3. BodyLeft'
  <2>1. Len(body') = 0 + Len(body') /\ \A j \in 1..Len(body') : body'[j] = body'[0 + j]
    BY <1>2
  <2> QED
    BY <1>1, <2>1 DEF BodyLeft
<1>4. Packed' /\ UnitsAtHome'
  BY <1>1 DEF Packed, UnitsAtHome
<1>5. Filled'
  <2> SUFFICES ASSUME NEW q \in Suites, Linkable(q)'
               PROVE  unit[q][1] # NULL \/ <<>> \in Bodies[q] \/ (q = s /\ body' # <<>>)
    BY <1>1 DEF Filled
  <2>1. CASE q = s
    BY <1>1, <2>1
  <2>2. CASE q # s
    <3>1. Linkable(q)
      <4>1. CASE Excluded(s)
        BY <1>1, <2>2, <4>1 DEF TFR_SUITE_DECLARE_M, TFR_add, chainVars, Linkable
      <4>2. CASE ~Excluded(s)
        <5>1. /\ link' = Linked(s) /\ first' = IF hook = NULL THEN s ELSE first
          BY <4>2 DEF TFR_SUITE_DECLARE_M, TFR_add
        <5>2. ASSUME NEW r \in Suites, Linked(s)[r] = q PROVE link[r] = q
          <6>1. Linked(s)[s] = NULL /\ (r # s => Linked(s)[r] = IF r = hook THEN s ELSE link[r])
            BY <1>1, LinkedFacts
          <6> QED
            BY <2>2, <5>2, <6>1, FrameAssumption
        <5> QED
          BY <1>1, <2>2, <5>1, <5>2 DEF Linkable
      <4> QED BY <4>1, <4>2
    <3>2. ~(suite = q /\ counter = 0 /\ body # <<>>)
      BY <1>1
    <3> QED
      BY <1>1, <3>1, <3>2 DEF Filled
  <2> QED BY <2>1, <2>2
<1> QED
  BY <1>3, <1>4, <1>5

(* A unit goes to the place after the last of the current suite. *)
LEMMA AddKeepsUnits ==
    ASSUME FrameInvariant, TFR_SUITE_ADD_M
    PROVE  BodyLeft' /\ Packed' /\ UnitsAtHome' /\ Filled'
<1>1. /\ TypeOK /\ BodyLeft /\ Packed /\ UnitsAtHome /\ Filled
      /\ body # <<>> /\ body' = Tail(body) /\ body \in Seq(Tests)
      /\ UNCHANGED <<suite, first, test, link>>
  BY DEF FrameInvariant, TFR_SUITE_ADD_M, TypeOK, chainVars, runVars
<1>2. /\ Head(body) = body[1] /\ Head(body) \in Tests /\ Head(body) # NULL
      /\ Len(body') = Len(body) - 1 /\ Len(body) \in Nat \ {0}
      /\ \A j \in 1..Len(body') : body'[j] = body[j + 1]
  BY <1>1, FrameAssumption
<1>3. CASE suite = NULL
  <2>1. unit' = unit /\ counter' = counter
    BY <1>3 DEF TFR_SUITE_ADD_M
  <2> QED
    BY <1>1, <1>3, <2>1, FrameAssumption DEF BodyLeft, Packed, UnitsAtHome, Filled, Linkable
<1>4. CASE suite # NULL
  <2> DEFINE n == counter + 1
  <2>1. /\ suite \in Suites /\ counter \in Nat /\ n \in Units /\ n # 0
        /\ unit \in [Suites -> [Units -> Maybe(Tests)]]
        /\ unit' = [unit EXCEPT ![suite] = [unit[suite] EXCEPT ![n] = Head(body)]]
        /\ counter' = n
    BY <1>1, <1>4, FrameAssumption DEF TFR_SUITE_ADD_M, TypeOK, Room, Units, Maybe
  <2>2. PICK units \in Bodies[suite] : /\ Len(units) = counter + Len(body)
                                       /\ \A j \in 1..Len(body) : body[j] = units[counter + j]
    BY <1>1, <1>4 DEF BodyLeft
  <2>3. \A s \in Suites, k \in Units :
          unit'[s][k] = IF s = suite /\ k = n THEN Head(body) ELSE unit[s][k]
    BY <2>1
  <2>4. n \in Nat /\ n = counter + 1
    BY <2>1
  <2> HIDE DEF n
  <2>5. BodyLeft'
    <3>1. Len(units) = counter' + Len(body')
      BY <1>2, <2>1, <2>2, <2>4
    <3>2. ASSUME NEW j \in 1..Len(body') PROVE body'[j] = units[counter' + j]
      <4>1. j + 1 \in 1..Len(body) /\ counter + (j + 1) = counter' + j
        BY <1>2, <2>1, <2>4
      <4> QED
        BY <1>2, <2>2, <4>1
    <3> QED
      BY <1>1, <3>1, <3>2 DEF BodyLeft
  <2>6. Packed'
    <3>1. ASSUME NEW s \in Suites, NEW k \in Units, NEW m \in Units, k < m, unit'[s][m] # NULL
          PROVE  unit'[s][k] # NULL
      <4>1. CASE s = suite /\ m = n
        <5>1. k \in 1..counter
          BY <2>1, <2>4, <3>1, <4>1 DEF Units
        <5> QED
          BY <1>1, <1>2, <1>4, <2>3, <4>1, <5>1 DEF Packed
      <4>2. CASE ~(s = suite /\ m = n)
        <5>1. unit[s][k] # NULL
          BY <1>1, <2>3, <3>1, <4>2 DEF Packed
        <5> QED
          BY <1>2, <2>3, <5>1
      <4> QED BY <4>1, <4>2
    <3>2. ASSUME NEW k \in 1..counter' PROVE unit'[suite][k] # NULL
      <4>1. k \in Units /\ (k = n \/ k \in 1..counter)
        BY <2>1, <2>4, FrameAssumption DEF Units
      <4> QED
        BY <1>1, <1>2, <1>4, <2>1, <2>3, <4>1 DEF Packed
    <3> QED
      BY <1>1, <3>1, <3>2 DEF Packed
  <2>7. UnitsAtHome'
    <3>1. Head(body) = units[n] /\ Len(units) >= n
      <4>1. n = counter + 1 /\ n \in 1..Len(units) /\ 1 \in 1..Len(body)
        BY <1>2, <2>1, <2>2, <2>4
      <4> QED
        BY <1>2, <2>2, <4>1
    <3> QED
      BY <1>1, <2>1, <2>3, <3>1 DEF UnitsAtHome
  <2>8. Filled'
    <3> SUFFICES ASSUME NEW s \in Suites, Linkable(s)
                 PROVE  unit'[s][1] # NULL \/ <<>> \in Bodies[s]
      BY <1>1 DEF Filled, Linkable
    <3>1. 1 \in Units
      BY FrameAssumption DEF Units
    <3>2. CASE s = suite
      <4>1. n = 1 \/ 1 \in 1..counter
        BY <2>1, <2>4
      <4> QED
        BY <1>1, <1>2, <1>4, <2>1, <2>3, <3>1, <3>2, <4>1 DEF Packed
    <3>3. CASE s # suite
      BY <1>1, <2>3, <3>1, <3>3 DEF Filled
    <3> QED BY <3>2, <3>3
  <2> QED
    BY <2>5, <2>6, <2>7, <2>8
<1> QED
  BY <1>3, <1>4

(* No other step adds units, and a run goes from one suite on the list to  *)
(* another.                                                                *)
LEMMA UnitsKept ==
    ASSUME FrameInvariant, [Next]_vars
    PROVE  BodyLeft' /\ Packed' /\ UnitsAtHome' /\ Filled'
<1>1. CASE TFR_SUITE_ADD_M \/ \E s \in Suites : TFR_SUITE_DECLARE_M(s)
  BY <1>1, AddKeepsUnits, DeclareKeepsUnits
<1>2. CASE ~(TFR_SUITE_ADD_M \/ \E s \in Suites : TFR_SUITE_DECLARE_M(s))
  <2>1. UNCHANGED <<tableVars, chainVars>>
    BY <1>2 DEF Next, ClientStep, RunStep, TFR_args, TFR_set_focus, TFR_on_exit,
                UnitOverrun, TFR_usage, TFR_run, RunUnit, EndSuite,
                ReadsBehind, EmptySuite, RunReturns, FreeCrashes, Halt, vars
  <2>2. test' = test \/ test' = first \/ (test \in Suites /\ test' = link[test])
    BY <1>2 DEF Next, ClientStep, RunStep, TFR_args, TFR_set_focus, TFR_on_exit,
                UnitOverrun, TFR_usage, TFR_run, RunUnit, EndSuite, FrameInvariant, TypeOK, Maybe,
                ReadsBehind, EmptySuite, RunReturns, FreeCrashes, Halt, vars, runVars
  <2>3. \A s \in Suites : Linkable(s)' => Linkable(s)
    BY <2>1, <2>2 DEF Linkable, chainVars
  <2> QED
    BY <2>1, <2>3 DEF FrameInvariant, BodyLeft, Packed, UnitsAtHome, Filled, tableVars
<1> QED
  BY <1>1, <1>2

-----------------------------------------------------------------------------
(* How the program dies. *)
LEMMA ReadyKept ==
    ASSUME FrameInvariant, [Next]_vars
    PROVE  Ready'
<1>1. Ready
  BY DEF FrameInvariant
<1>2. CASE TFR_args
  BY <1>2 DEF TFR_args, StoredFocus, Ready
<1>3. ASSUME NEW f \in Maybe(Focus), TFR_set_focus(f) PROVE Ready'
  BY <1>3 DEF TFR_set_focus, Between, In, Ready
<1>4. ASSUME NEW s \in Suites, TFR_SUITE_DECLARE_M(s) PROVE Ready'
  BY <1>1, <1>4 DEF TFR_SUITE_DECLARE_M, Between, In, Ready, optionVars
<1>5. CASE TFR_SUITE_ADD_M
  BY <1>1, <1>5 DEF TFR_SUITE_ADD_M, In, Ready, optionVars
<1>6. CASE TFR_usage \/ TFR_run
  BY <1>1, <1>6 DEF TFR_usage, TFR_run, Between, Ready, optionVars, tableVars
<1>7. CASE RunReturns
  BY <1>1, <1>7 DEF RunReturns, Ready
<1>8. CASE UNCHANGED <<phase, storage, body>>
  BY <1>1, <1>8 DEF Ready
<1>9. TFR_on_exit \/ UnitOverrun \/ RunUnit \/ EndSuite \/ ReadsBehind \/ EmptySuite \/ FreeCrashes \/ UNCHANGED vars
      => UNCHANGED <<phase, storage, body>>
  BY DEF TFR_on_exit, UnitOverrun, RunUnit, EndSuite, ReadsBehind, EmptySuite, FreeCrashes, Halt, vars,
         optionVars, tableVars
<1> QED
  BY <1>2, <1>3, <1>4, <1>5, <1>6, <1>7, <1>8, <1>9 DEF Next, ClientStep, RunStep

LEMMA UndefinedKept ==
    ASSUME FrameInvariant, [Next]_vars
    PROVE  UndefinedOnly'
<1>1. /\ TypeOK /\ CountsUnits /\ BodyLeft /\ Filled /\ Ready /\ UndefinedOnly
      /\ Tally /\ UnitsAtHome
  BY DEF FrameInvariant
<1>2. CASE UnitOverrun
  <2>1. /\ phase' = "main" /\ suite' = suite /\ suite # NULL
        /\ body # <<>> /\ ~(counter < MaxUnits)
    BY <1>2 DEF UnitOverrun, In, Halt, tableVars, Room
  <2>2. PICK units \in Bodies[suite] : Len(units) = counter + Len(body)
    BY <1>1, <2>1 DEF BodyLeft
  <2>3. Len(units) > MaxUnits
    <3>1. counter \in Nat /\ Len(body) \in Nat \ {0}
      BY <1>1, <2>1, FrameAssumption DEF TypeOK
    <3> QED
      BY <2>1, <2>2, <3>1, FrameAssumption
  <2> QED
    BY <2>1, <2>3 DEF UndefinedOnly
<1>3. CASE EmptySuite
  <2>1. /\ phase = "run" /\ test # NULL /\ ~AtUnit /\ ~verbose /\ unit_tests = 0
        /\ UNCHANGED <<phase, test, verbose>>
    BY <1>3 DEF EmptySuite, In, Halt, DividesByZero, optionVars, runVars
  <2>2. i = 1 /\ unit[test][1] = NULL
    BY <1>1, <2>1, FrameAssumption DEF TypeOK, CountsUnits, AtUnit, BehindUnits
  <2>3. <<>> \in Bodies[test]
    BY <1>1, <2>1, <2>2 DEF Filled, Linkable, Ready, TypeOK, Maybe
  <2> QED
    BY <2>1, <2>3 DEF UndefinedOnly
<1>4. CASE FreeCrashes
  BY <1>1, <1>4 DEF FreeCrashes, In, Halt, Ready, UndefinedOnly, optionVars, runVars
<1>7. CASE ReadsBehind
  <2>1. /\ phase = "run" /\ test # NULL /\ BehindUnits
        /\ UNCHANGED <<phase, test>>
    BY <1>7 DEF ReadsBehind, In, Halt, runVars
  <2>2. test \in Suites /\ MaxUnits \in Units /\ MaxUnits \in 1..(i - 1)
    BY <1>1, <2>1, FrameAssumption DEF TypeOK, BehindUnits, Units, Maybe
  <2>3. unit[test][MaxUnits] # NULL
    BY <1>1, <2>1, <2>2 DEF Tally
  <2>4. \E units \in Bodies[test] : Len(units) >= MaxUnits
    BY <1>1, <2>2, <2>3 DEF UnitsAtHome
  <2> QED
    BY <2>1, <2>4 DEF UndefinedOnly
<1>5. CASE UNCHANGED vars
  BY <1>1, <1>5 DEF UndefinedOnly, vars, optionVars, tableVars, runVars
<1>6. CASE Next /\ ~(UnitOverrun \/ ReadsBehind \/ EmptySuite \/ FreeCrashes)
  <2>1. fault' = "none"
    BY <1>6 DEF Next, ClientStep, RunStep, TFR_args, TFR_set_focus, TFR_on_exit, TFR_SUITE_DECLARE_M,
                TFR_SUITE_ADD_M, TFR_usage, TFR_run, RunUnit, EndSuite, RunReturns, Between, In
  <2> QED
    BY <2>1 DEF UndefinedOnly
<1> QED
  BY <1>2, <1>3, <1>4, <1>5, <1>6, <1>7

-----------------------------------------------------------------------------
(* What a run counts.  Nothing is counted before it. *)
LEMMA UnstartedKept ==
    ASSUME FrameInvariant, [Next]_vars
    PROVE  Unstarted'
<1>1. Unstarted
  BY DEF FrameInvariant
<1>2. CASE phase' \in {"args", "main"}
  <2>1. phase \in {"args", "main"} /\ UNCHANGED runVars
    BY <1>2 DEF Next, ClientStep, RunStep, TFR_args, TFR_set_focus, TFR_on_exit, TFR_SUITE_DECLARE_M,
                TFR_SUITE_ADD_M, UnitOverrun, TFR_usage, TFR_run, RunUnit, EndSuite,
                ReadsBehind, EmptySuite, RunReturns, FreeCrashes, Halt, Between, In, vars
  <2> QED
    BY <1>1, <2>1 DEF Unstarted, runVars, countVars
<1>3. CASE phase' \notin {"args", "main"}
  BY <1>3 DEF Unstarted
<1> QED
  BY <1>2, <1>3

(* A unit that ends has the outcome it ends with, and no other has changed. *)
LEMMA RunUnitKeepsTally ==
    ASSUME FrameInvariant, RunUnit
    PROVE  Tally'
<1>1. PICK o \in Outcome \ {"none"} :
        /\ outcome' = [outcome EXCEPT ![test][i] = o]
        /\ unit_tests' = IF Counts(o) THEN unit_tests + 1 ELSE unit_tests
        /\ unit_success' = IF o = "passed" THEN unit_success + 1 ELSE unit_success
  BY DEF RunUnit
<1>2. /\ TypeOK /\ CountsUnits /\ Tally /\ phase = "run" /\ phase' = "run"
      /\ AtUnit /\ i' = i + 1
      /\ UNCHANGED <<first, link, unit, test, suite_tests, suite_success>>
  BY DEF FrameInvariant, RunUnit, In, chainVars, tableVars
<1>3. /\ test \in Suites /\ i \in Units /\ unit[test][i] # NULL
      /\ unit_tests \in Nat /\ unit_success \in 0..unit_tests /\ unit_tests = i - 1
  BY <1>2, FrameAssumption DEF RunUnit, TypeOK, AtUnit, BehindUnits, Maybe, Units, CountsUnits
<1>4. \A s \in Suites, k \in Units :
        outcome'[s][k] = IF s = test /\ k = i THEN o ELSE outcome[s][k]
  BY <1>1, <1>2, <1>3 DEF TypeOK
<1>5. Finished' = Finished /\ test \notin Finished /\ Finished \subseteq Suites
  BY <1>2, <1>3, FromStep DEF Finished, Listed, From, Closed
<1>6. \A s \in Suites, k \in Units :
        outcome'[s][k] # "none" <=>
            unit'[s][k] # NULL /\ (s \in Finished' \/ (s = test' /\ k < i'))
  <2> SUFFICES ASSUME NEW s \in Suites, NEW k \in Units
               PROVE  outcome'[s][k] # "none" <=>
                        unit[s][k] # NULL /\ (s \in Finished \/ (s = test /\ k < i + 1))
    BY <1>2, <1>5
  <2>1. outcome[s][k] # "none" <=> unit[s][k] # NULL /\ (s \in Finished \/ (s = test /\ k < i))
    BY <1>2 DEF Tally
  <2>2. k < i + 1 <=> k < i \/ k = i
    BY <1>3 DEF Units
  <2> QED
    BY <1>3, <1>4, <2>1, <2>2
<1>7. suite_success' = suite_tests' <=> \A s \in Finished', k \in Units : Passed(outcome'[s][k])
  BY <1>2, <1>4, <1>5 DEF Tally
<1>8. unit_success' = unit_tests' <=> \A k \in 1..(i' - 1) : outcome'[test'][k] = "passed"
  <2>1. unit_success = unit_tests <=> \A k \in 1..(i - 1) : outcome[test][k] = "passed"
    BY <1>2 DEF Tally
  <2>2. 1..(i' - 1) = 1..(i - 1) \cup {i} /\ i \notin 1..(i - 1) /\ 1..(i - 1) \subseteq Units
    BY <1>2, <1>3, FrameAssumption DEF Units
  <2>3. unit_success' = unit_tests' <=> unit_success = unit_tests /\ o = "passed"
    BY <1>1, <1>3 DEF Counts
  <2>4. (\A k \in 1..(i' - 1) : outcome'[test'][k] = "passed")
          <=> o = "passed" /\ \A k \in 1..(i - 1) : outcome[test][k] = "passed"
    BY <1>2, <1>3, <1>4, <2>2
  <2> QED
    BY <2>1, <2>3, <2>4
<1>9. (From(test) \subseteq Listed)'
  BY <1>2 DEF Tally, From, Listed, Closed
<1>10. \A k \in 1..(i' - 1) : unit'[test'][k] # NULL
  <2>1. \A k \in 1..(i - 1) : unit[test][k] # NULL
    BY <1>2 DEF Tally
  <2>2. 1..(i' - 1) = 1..(i - 1) \cup {i}
    BY <1>2, <1>3 DEF Units
  <2> QED
    BY <1>2, <1>3, <2>1, <2>2
<1> QED
  BY <1>2, <1>3, <1>6, <1>7, <1>8, <1>9, <1>10, FrameAssumption DEF Tally

(* A suite that ends joins the finished ones, and its units have all run:  *)
(* those from i on are not there.                                          *)
LEMMA EndSuiteKeepsTally ==
    ASSUME FrameInvariant, EndSuite
    PROVE  Tally'
<1>1. /\ TypeOK /\ CountsUnits /\ Acyclic /\ Packed /\ Tally /\ phase = "run" /\ phase' = "run"
      /\ ~AtUnit /\ test' = link[test] /\ i' = 1 /\ unit_tests' = 0 /\ unit_success' = 0
      /\ suite_tests' = suite_tests + 1
      /\ suite_success' = IF unit_success = unit_tests THEN suite_success + 1 ELSE suite_success
      /\ UNCHANGED <<first, link, unit, outcome>>
  BY DEF FrameInvariant, EndSuite, In, chainVars, tableVars
<1>2. /\ test \in Suites /\ i \in 1..(MaxUnits + 1) /\ MaxUnits \in Nat
      /\ suite_tests \in Nat /\ suite_success \in 0..suite_tests
  BY <1>1, FrameAssumption DEF EndSuite, TypeOK, Maybe
<1>3. Listed' = Listed /\ From(test)' = From(link[test])
  BY <1>1 DEF From, Listed, Closed
<1>4. /\ From(test) \subseteq Listed
      /\ \A s \in Suites, k \in Units :
            outcome[s][k] # "none" <=> unit[s][k] # NULL /\ (s \in Finished \/ (s = test /\ k < i))
      /\ suite_success = suite_tests <=> \A s \in Finished, k \in Units : Passed(outcome[s][k])
      /\ unit_success = unit_tests <=> \A k \in 1..(i - 1) : outcome[test][k] = "passed"
      /\ \A k \in 1..(i - 1) : unit[test][k] # NULL
  BY <1>1 DEF Tally
<1>5. /\ Finished' = Finished \cup {test}
      /\ test \notin Finished /\ Finished \subseteq Suites
      /\ From(test)' \subseteq Listed'
  <2>1. test \in From(test) /\ From(test) = {test} \cup From(link[test]) /\ test \notin From(link[test])
    BY <1>1, <1>2, FromStep, FromAcyclic
  <2> QED
    BY <1>3, <1>4, <2>1 DEF Finished, Listed, From
<1>6. \A k \in Units : unit[test][k] # NULL => k < i
  <2> SUFFICES ASSUME NEW k \in Units, unit[test][k] # NULL, ~(k < i) PROVE FALSE
    OBVIOUS
  <2>1. i \in Units /\ (i = k \/ i < k)
    BY <1>2 DEF Units
  <2>2. unit[test][i] # NULL
    BY <1>1, <1>2, <2>1 DEF Packed
  <2> QED
    BY <1>1, <1>2, <2>1, <2>2 DEF AtUnit, BehindUnits, Units
<1>7. \A s \in Suites, k \in Units :
        outcome'[s][k] # "none" <=>
            unit'[s][k] # NULL /\ (s \in Finished' \/ (s = test' /\ k < i'))
  <2> SUFFICES ASSUME NEW s \in Suites, NEW k \in Units
               PROVE  outcome[s][k] # "none" <=> unit[s][k] # NULL /\ (s \in Finished \/ s = test)
    <3>1. \A k \in Units : ~(k < 1)
      BY <1>2 DEF Units
    <3> QED
      BY <1>1, <1>5, <3>1
  <2> QED
    BY <1>2, <1>4, <1>6
<1>8. unit_success = unit_tests <=> \A k \in Units : Passed(outcome[test][k])
  <2>1. 1..(i - 1) \subseteq Units /\ \A k \in Units : k < i => k \in 1..(i - 1)
    BY <1>2 DEF Units
  <2>2. \A k \in 1..(i - 1) : outcome[test][k] # "none"
    <3>1. \A k \in 1..(i - 1) : k < i
      BY <1>2
    <3> QED
      BY <1>2, <1>4, <2>1, <3>1
  <2>3. \A k \in Units : k < i \/ outcome[test][k] = "none"
    BY <1>2, <1>4, <1>5
  <2> QED
    BY <1>4, <2>1, <2>2, <2>3 DEF Passed
<1>9. suite_success' = suite_tests' <=> \A s \in Finished', k \in Units : Passed(outcome'[s][k])
  <2>1. suite_success' = suite_tests' <=> suite_success = suite_tests /\ unit_success = unit_tests
    BY <1>1, <1>2
  <2> QED
    BY <1>1, <1>4, <1>5, <1>8, <2>1
<1>10. 1..(i' - 1) = {}
  BY <1>1
<1> QED
  BY <1>1, <1>5, <1>7, <1>9, <1>10 DEF Tally

LEMMA TallyKept ==
    ASSUME FrameInvariant, [Next]_vars
    PROVE  Tally'
<1>1. TypeOK /\ CountsUnits /\ Unstarted /\ Tally
  BY DEF FrameInvariant
<1>2. CASE TFR_run
  <2>1. /\ phase = "main" /\ phase' = "run" /\ test' = first
        /\ UNCHANGED <<first, link, unit, i, suite_tests, suite_success, unit_tests, unit_success, outcome>>
    BY <1>2 DEF TFR_run, Between, In, chainVars, tableVars, countVars
  <2>2. /\ i = 1 /\ suite_tests = 0 /\ suite_success = 0 /\ unit_tests = 0 /\ unit_success = 0
        /\ \A s \in Suites, k \in Units : outcome[s][k] = "none"
    BY <1>1, <2>1 DEF Unstarted, TypeOK, CountsUnits
  <2>3. From(test)' = Listed' /\ Finished' = {}
    BY <2>1 DEF From, Listed, Closed, Finished
  <2>4. 1..(i' - 1) = {} /\ \A k \in Units : ~(k < i')
    BY <2>1, <2>2, FrameAssumption DEF Units
  <2> QED
    BY <2>1, <2>2, <2>3, <2>4 DEF Tally
<1>3. CASE RunReturns
  <2>1. /\ phase = "run" /\ test = NULL /\ result' = (suite_success = suite_tests)
        /\ UNCHANGED <<first, link, unit, test, i, suite_tests, suite_success, unit_tests, unit_success, outcome>>
    BY <1>3 DEF RunReturns, In, chainVars, tableVars, runVars, countVars
  <2>2. Listed' = Listed /\ From(test)' = From(test) /\ Finished' = Finished
    BY <2>1 DEF From, Listed, Closed, Finished
  <2> QED
    BY <1>1, <2>1, <2>2 DEF Tally
<1>4. CASE RunUnit
  BY <1>4, RunUnitKeepsTally
<1>5. CASE EndSuite
  BY <1>5, EndSuiteKeepsTally
<1>6. CASE TFR_usage
  BY <1>6 DEF TFR_usage, Tally, optionVars
<1>7. CASE TFR_args \/ ClientStep
  <2>1. phase' = "main"
    BY <1>7 DEF ClientStep, TFR_args, TFR_set_focus, TFR_on_exit, TFR_SUITE_DECLARE_M,
                TFR_SUITE_ADD_M, UnitOverrun, Halt, Between, In
  <2> QED
    BY <2>1 DEF Tally
<1>8. CASE ReadsBehind \/ EmptySuite \/ FreeCrashes \/ UNCHANGED vars
  <2>1. UNCHANGED <<phase, help, chainVars, unit, runVars, result>>
    BY <1>8 DEF ReadsBehind, EmptySuite, FreeCrashes, Halt, vars, optionVars, tableVars, endVars
  <2>2. Listed' = Listed /\ From(test)' = From(test) /\ Finished' = Finished
    BY <2>1 DEF From, Listed, Closed, Finished, chainVars, runVars
  <2> QED
    BY <1>1, <2>1, <2>2 DEF Tally, runVars, countVars
<1> QED
  BY <1>2, <1>3, <1>4, <1>5, <1>6, <1>7, <1>8 DEF Next, RunStep

-----------------------------------------------------------------------------
LEMMA FrameStep == FrameInvariant /\ [Next]_vars => FrameInvariant'
<1> SUFFICES ASSUME FrameInvariant, [Next]_vars PROVE FrameInvariant'
  OBVIOUS
<1> QED
  BY FrameTyped, UnitsKept, ReadyKept, UndefinedKept, UnstartedKept, TallyKept DEF FrameInvariant

LEMMA FrameInvariantHolds == Spec => []FrameInvariant
  BY FrameInit, FrameStep, PTL DEF Spec

(* Whatever suites are declared and however often, also again with other   *)
(* units, a run that returns has called each unit of each suite on the     *)
(* list and no other, and says true iff every one opened and passed        *)
(* (test.c:192-223, 268).                                                  *)
THEOREM VerdictExactHolds == Spec => []VerdictExact
<1>1. FrameInvariant => VerdictExact
  <2> SUFFICES ASSUME FrameInvariant, phase = "done", ~help
               PROVE  /\ \A s \in Suites, k \in Units :
                            outcome[s][k] # "none" <=> s \in Listed /\ unit[s][k] # NULL
                      /\ result <=> \A s \in Listed, k \in Units : outcome[s][k] \in {"none", "passed"}
    BY DEF VerdictExact
  <2>1. TypeOK /\ Tally /\ test = NULL
    BY DEF FrameInvariant, Tally
  <2>2. Finished = Listed
    BY <2>1, FromNull DEF Finished
  <2>3. \A s \in Suites, k \in Units :
           outcome[s][k] # "none" <=> s \in Listed /\ unit[s][k] # NULL
    BY <2>1, <2>2, FrameAssumption DEF Tally
  <2>4. result <=> \A s \in Listed, k \in Units : outcome[s][k] \in {"none", "passed"}
    BY <2>1, <2>2 DEF Tally, Passed
  <2> QED
    BY <2>3, <2>4
<1> QED
  BY <1>1, FrameInvariantHolds, PTL

(* No unit strays into a suite it was not declared with, or to another     *)
(* place of it (UnitsAtHome), whichever suites a focus keeps off the list  *)
(* (test.c:120-126, 356-365).                                              *)
THEOREM UnitsAtHomeHolds == Spec => []UnitsAtHome
<1>1. FrameInvariant => UnitsAtHome
  BY DEF FrameInvariant
<1> QED
  BY <1>1, FrameInvariantHolds, PTL

(* The program dies only of units beyond a suite's array, of the loop over *)
(* a suite that fills its array, of a suite that may be declared without   *)
(* units, or of a focus TFR_main set (test.c:192, 230, 258-261, 342, 361). *)
THEOREM FrameUndefinedOnly == Spec => []UndefinedOnly
<1>1. FrameInvariant => UndefinedOnly
  BY DEF FrameInvariant
<1> QED
  BY <1>1, FrameInvariantHolds, PTL

-----------------------------------------------------------------------------
(* The chain of suites that the links spell out.                           *)

LEMMA LeastFacts ==
    ASSUME NEW S \in SUBSET Nat, S # {}
    PROVE  \E x \in S : \A y \in S : x <= y
<1>. DEFINE Less == {p \in Nat \X Nat : p[1] < p[2]}
<1>1. IsWellFoundedOn(Less, Nat)
  BY NatLessThanWellFounded DEF OpToRel
<1>2. \E x \in S : \A y \in S : ~(<<y, x>> \in Less)
  <2>. HIDE DEF Less
  <2>. QED  BY <1>1, WFMin
<1>3. PICK x \in S : \A y \in S : ~(<<y, x>> \in Less)
  BY <1>2
<1>4. ASSUME NEW y \in S PROVE x =< y
  <2>1. ~(y < x)
    BY <1>3, <<y, x>> \in Nat \X Nat
  <2>. QED  BY <2>1
<1>. QED
  BY <1>4

(* Following the links any number of times is well defined. *)
Most == Cardinality(Suites)

Follows(f, from, n) ==
    \A k \in 0..n : f[k] = IF k = 0 THEN from ELSE IF f[k - 1] = NULL THEN NULL ELSE link[f[k - 1]]

LEMMA FollowsExists ==
    ASSUME TypeOK, NEW from \in Maybe(Suites), NEW m \in Nat
    PROVE  \E f \in [0..m -> Maybe(Suites)] : Follows(f, from, m)
<1> DEFINE Bad == {n \in Nat : ~\E f \in [0..n -> Maybe(Suites)] : Follows(f, from, n)}
<1> SUFFICES ASSUME Bad # {} PROVE FALSE
  OBVIOUS
<1>1. PICK n \in Bad : \A y \in Bad : n <= y
  <2>1. Bad \in SUBSET Nat
    OBVIOUS
  <2> HIDE DEF Bad
  <2> QED
    BY <2>1, LeastFacts
<1>2. CASE n = 0
  <2>1. [k \in 0..0 |-> from] \in [0..0 -> Maybe(Suites)] /\ Follows([k \in 0..0 |-> from], from, 0)
    BY DEF Follows
  <2> QED
    BY <1>1, <1>2, <2>1
<1>3. CASE n # 0
  <2>1. n - 1 \in Nat /\ n - 1 \notin Bad /\ n \in Nat
    BY <1>1, <1>3
  <2>2. PICK g \in [0..(n - 1) -> Maybe(Suites)] : Follows(g, from, n - 1)
    BY <2>1
  <2> DEFINE last == IF g[n - 1] = NULL THEN NULL ELSE link[g[n - 1]]
             f == [k \in 0..n |-> IF k = n THEN last ELSE g[k]]
  <2>3. n - 1 \in 0..(n - 1) /\ g[n - 1] \in Maybe(Suites)
    BY <2>1
  <2>4. last \in Maybe(Suites)
    BY <2>3 DEF TypeOK, Maybe
  <2> HIDE DEF last
  <2>5. f \in [0..n -> Maybe(Suites)]
    BY <2>1, <2>4
  <2>6. Follows(f, from, n)
    <3> SUFFICES ASSUME NEW k \in 0..n
                 PROVE  f[k] = IF k = 0 THEN from ELSE IF f[k - 1] = NULL THEN NULL ELSE link[f[k - 1]]
      BY DEF Follows
    <3>1. CASE k = n
      <4>1. f[k] = last /\ k # 0 /\ k - 1 \in 0..n /\ f[k - 1] = g[n - 1]
        BY <1>3, <2>1, <3>1
      <4> QED
        BY <4>1 DEF last
    <3>2. CASE k # n
      <4>1. k \in 0..(n - 1) /\ f[k] = g[k] /\ (k # 0 => f[k - 1] = g[k - 1])
        BY <2>1, <3>2
      <4> HIDE DEF f
      <4> QED
        BY <2>2, <4>1 DEF Follows
    <3> QED
      BY <3>1, <3>2
  <2> HIDE DEF f
  <2> QED
    BY <1>1, <2>5, <2>6
<1> QED
  BY <1>2, <1>3

LEMMA FollowedFacts ==
    ASSUME TypeOK, NEW from \in Maybe(Suites)
    PROVE  /\ Most \in Nat
           /\ Followed(from) \in [0..Most -> Maybe(Suites)]
           /\ Follows(Followed(from), from, Most)
<1>1. Most \in Nat
  BY SuitesAssumption, FS_CardinalityType DEF Most
<1> DEFINE Is(f) == f = [k \in 0..Most |-> IF k = 0 THEN from ELSE IF f[k - 1] = NULL THEN NULL ELSE link[f[k - 1]]]
<1>2. PICK f \in [0..Most -> Maybe(Suites)] : Follows(f, from, Most)
  BY <1>1, FollowsExists
<1>3. Is(f)
  BY <1>2 DEF Follows
<1>4. Followed(from) = CHOOSE g : Is(g)
  BY DEF Followed, Most
<1>5. Is(Followed(from))
  <2> HIDE DEF Is
  <2> QED
    BY <1>3, <1>4
<1> DEFINE at == Followed(from)
<1>6. /\ DOMAIN at = 0..Most
      /\ \A k \in 0..Most : at[k] = IF k = 0 THEN from ELSE IF at[k - 1] = NULL THEN NULL ELSE link[at[k - 1]]
      /\ at = [k \in 0..Most |-> at[k]]
  <2> HIDE DEF at
  <2>1. Is(at)
    BY <1>5 DEF at
  <2> QED
    BY <2>1
<1>7. Follows(at, from, Most)
  BY <1>6 DEF Follows
<1> HIDE DEF at
<1>8. \A k \in 0..Most : at[k] \in Maybe(Suites)
  <2> DEFINE Bad == {k \in 0..Most : at[k] \notin Maybe(Suites)}
  <2> SUFFICES ASSUME Bad # {} PROVE FALSE
    OBVIOUS
  <2>1. PICK k \in Bad : \A y \in Bad : k <= y
    <3>1. Bad \in SUBSET Nat
      BY <1>1
    <3> HIDE DEF Bad
    <3> QED
      BY <3>1, LeastFacts
  <2>2. k \in 0..Most /\ at[k] = IF k = 0 THEN from ELSE IF at[k - 1] = NULL THEN NULL ELSE link[at[k - 1]]
    BY <1>7, <2>1 DEF Follows
  <2>3. k # 0
    BY <2>1, <2>2
  <2>4. k - 1 \in 0..Most /\ k - 1 \notin Bad
    BY <1>1, <2>1, <2>2, <2>3
  <2>5. at[k - 1] \in Maybe(Suites)
    BY <2>4
  <2> QED
    BY <2>1, <2>2, <2>3, <2>5 DEF TypeOK, Maybe
<1> QED
  BY <1>1, <1>6, <1>7, <1>8 DEF at

(* No suite is passed twice: the suites in between would be a cycle. *)
LEMMA FollowedOnce ==
    ASSUME TypeOK, Acyclic, NEW from \in Maybe(Suites),
           NEW j \in 0..Most, NEW k \in 0..Most, j < k, Followed(from)[k] # NULL
    PROVE  /\ Followed(from)[j] # NULL
           /\ Followed(from)[j] # Followed(from)[k]
<1> DEFINE at == Followed(from)
<1>1. Most \in Nat /\ at \in [0..Most -> Maybe(Suites)] /\ Follows(at, from, Most)
  BY FollowedFacts
<1> HIDE DEF at
<1>2. ASSUME NEW m \in 0..Most, m < Most
      PROVE  at[m + 1] = IF at[m] = NULL THEN NULL ELSE link[at[m]]
  <2>1. m + 1 \in 0..Most /\ m + 1 # 0 /\ (m + 1) - 1 = m
    BY <1>1, <1>2
  <2> QED
    BY <1>1, <2>1 DEF Follows
<1>3. \A m \in 0..k : at[m] # NULL
  <2> DEFINE Bad == {d \in 0..k : at[k - d] = NULL}
  <2> SUFFICES ASSUME NEW m \in 0..k, at[m] = NULL PROVE FALSE
    OBVIOUS
  <2>1. k - m \in Bad
    BY <1>1
  <2>2. PICK d \in Bad : \A y \in Bad : d <= y
    <3>1. Bad \in SUBSET Nat
      BY <1>1
    <3> HIDE DEF Bad
    <3> QED
      BY <2>1, <3>1, LeastFacts
  <2>3. d \in 0..k /\ at[k - d] = NULL /\ k - d \in 0..Most
    BY <1>1, <2>2
  <2>4. d # 0
    BY <2>3 DEF at
  <2>5. at[(k - d) + 1] = NULL /\ (k - d) + 1 = k - (d - 1)
    <3>1. k - d < Most
      BY <1>1, <2>3, <2>4
    <3> QED
      BY <1>2, <2>3, <3>1
  <2>6. d - 1 \in Bad
    BY <1>1, <2>3, <2>4, <2>5
  <2> QED
    BY <2>2, <2>3, <2>6
<1>4. at[j] # at[k]
  <2> SUFFICES ASSUME at[j] = at[k] PROVE FALSE
    OBVIOUS
  <2> DEFINE S == {at[m] : m \in j..(k - 1)}
  <2>1. at[j] \in S
    BY <1>1
  <2>2. S \in SUBSET Suites
    <3>1. \A m \in j..(k - 1) : m \in 0..k /\ m \in 0..Most
      BY <1>1
    <3> QED
      BY <1>1, <1>3, <3>1 DEF Maybe
  <2>3. ASSUME NEW q \in S PROVE link[q] \in S
    <3>1. PICK m \in j..(k - 1) : q = at[m]
      OBVIOUS
    <3>2. m \in 0..Most /\ m < Most /\ m \in 0..k /\ m + 1 \in j..k
      BY <1>1
    <3>3. link[q] = at[m + 1]
      BY <1>2, <1>3, <3>1, <3>2
    <3>4. m + 1 = k \/ m + 1 \in j..(k - 1)
      BY <3>2
    <3> QED
      BY <2>1, <3>3, <3>4
  <2> HIDE DEF S
  <2> QED
    BY <2>1, <2>2, <2>3 DEF Acyclic
<1> QED
  BY <1>1, <1>3, <1>4 DEF at

(* There are no more suites to pass than there are. *)
LEMMA FollowedEnds ==
    ASSUME TypeOK, Acyclic, NEW from \in Maybe(Suites)
    PROVE  Followed(from)[Most] = NULL
<1> SUFFICES ASSUME Followed(from)[Most] # NULL PROVE FALSE
  OBVIOUS
<1> DEFINE at == Followed(from)
<1>1. Most \in Nat /\ at \in [0..Most -> Maybe(Suites)]
  BY FollowedFacts
<1>2. \A j, k \in 0..Most : j < k /\ at[k] # NULL => at[j] # NULL /\ at[j] # at[k]
  BY FollowedOnce
<1>3. at[Most] # NULL
  OBVIOUS
<1> HIDE DEF at
<1>4. \A j \in 0..Most : at[j] # NULL
  BY <1>1, <1>2, <1>3
<1>5. \A j, k \in 0..Most : at[j] = at[k] => j = k
  BY <1>1, <1>2, <1>4
<1>6. at \in Injection(0..Most, Suites)
  BY <1>1, <1>4, <1>5 DEF Maybe, Injection, IsInjective
<1>7. Cardinality(0..Most) <= Most
  BY <1>6, SuitesAssumption, FS_Injection DEF Most
<1>8. Cardinality(0..Most) = Most + 1
  BY <1>1, FS_Interval
<1> QED
  BY <1>1, <1>7, <1>8

LEMMA ChainUpTo ==
    ASSUME TypeOK, Acyclic, NEW from \in Maybe(Suites), NEW n \in 0..Most,
           Followed(from)[n] = NULL, \A j \in 0..Most : j < n => Followed(from)[j] # NULL
    PROVE  Chain(from) = [k \in 1..n |-> Followed(from)[k - 1]]
<1> DEFINE at == Followed(from)
<1>1. Most \in Nat /\ at \in [0..Most -> Maybe(Suites)]
  BY FollowedFacts
<1>2. \A j \in 0..Most : n < j => at[j] = NULL
  BY FollowedOnce
<1>3. {j \in 0..(Most - 1) : at[j] # NULL} = 0..(n - 1)
  <2>1. /\ at[n] = NULL
        /\ \A j \in 0..Most : j < n => at[j] # NULL
    OBVIOUS
  <2> HIDE DEF at
  <2>2. \A j \in 0..(Most - 1) : at[j] # NULL <=> j < n
    BY <1>1, <1>2, <2>1
  <2> QED
    BY <1>1, <2>2
<1>4. Cardinality(0..(n - 1)) = n
  BY <1>1, FS_Interval
<1> QED
  BY <1>3, <1>4 DEF Chain, Most

Spells(d, from) ==
    /\ d = <<>> <=> from = NULL
    /\ from # NULL => d[1] = from
    /\ \A k \in 1..Len(d) : link[d[k]] = IF k = Len(d) THEN NULL ELSE d[k + 1]

LEMMA ChainSpells ==
    ASSUME TypeOK, Acyclic, NEW from \in Maybe(Suites)
    PROVE  /\ Chain(from) \in Seq(Suites) /\ Spells(Chain(from), from)
           /\ \A j, k \in 1..Len(Chain(from)) : Chain(from)[j] = Chain(from)[k] => j = k
<1> DEFINE at == Followed(from)
<1>1. Most \in Nat /\ at \in [0..Most -> Maybe(Suites)] /\ Follows(at, from, Most)
  BY FollowedFacts
<1>2. PICK n \in 0..Most : at[n] = NULL /\ \A j \in 0..Most : j < n => at[j] # NULL
  <2> DEFINE Ends == {j \in 0..Most : at[j] = NULL}
  <2>1. Most \in Ends
    BY <1>1, FollowedEnds
  <2>2. Ends \in SUBSET Nat
    BY <1>1
  <2>3. PICK n \in Ends : \A y \in Ends : n <= y
    <3> HIDE DEF Ends
    <3> QED
      BY <2>1, <2>2, LeastFacts
  <2>4. \A j \in 0..Most : j < n => j \notin Ends
    BY <1>1, <2>2, <2>3
  <2> QED
    BY <2>3, <2>4
<1>3. Chain(from) = [k \in 1..n |-> at[k - 1]]
  BY <1>2, ChainUpTo
<1>4. \A j, k \in 0..Most : j < k /\ at[k] # NULL => at[j] # at[k]
  BY FollowedOnce
<1>5. NULL \notin Suites
  BY FrameAssumption
<1> HIDE DEF at
<1>6. \A k \in 1..n : k - 1 \in 0..Most /\ k - 1 < n /\ at[k - 1] \in Suites
  BY <1>1, <1>2 DEF Maybe
<1>7. Chain(from) \in Seq(Suites) /\ Len(Chain(from)) = n
  BY <1>1, <1>3, <1>6
<1>8. \A j, k \in 1..n : Chain(from)[j] = Chain(from)[k] => j = k
  <2> SUFFICES ASSUME NEW j \in 1..n, NEW k \in 1..n, at[j - 1] = at[k - 1] PROVE j = k
    BY <1>3
  <2>1. j - 1 \in 0..Most /\ k - 1 \in 0..Most /\ at[j - 1] # NULL /\ at[k - 1] # NULL
    BY <1>5, <1>6
  <2>2. ~(j - 1 < k - 1) /\ ~(k - 1 < j - 1)
    BY <1>4, <2>1
  <2> QED
    BY <2>2
<1>9. Spells(Chain(from), from)
  <2>1. at[0] = from /\ 0 \in 0..Most
    BY <1>1 DEF Follows
  <2>2. Chain(from) = <<>> <=> from = NULL
    <3>1. Chain(from) = <<>> <=> n = 0
      BY <1>7
    <3>2. n = 0 <=> from = NULL
      BY <1>2, <2>1
    <3> QED
      BY <3>1, <3>2
  <2>3. from # NULL => Chain(from)[1] = from
    <3> SUFFICES ASSUME from # NULL PROVE Chain(from)[1] = from
      OBVIOUS
    <3>1. n # 0
      BY <1>2, <2>1
    <3>2. 1 \in 1..n /\ 1 - 1 = 0
      BY <1>2, <3>1
    <3> QED
      BY <1>3, <2>1, <3>2
  <2>4. ASSUME NEW k \in 1..n
        PROVE  link[Chain(from)[k]] = IF k = n THEN NULL ELSE Chain(from)[k + 1]
    <3>1. k \in 0..Most /\ k # 0 /\ Chain(from)[k] = at[k - 1] /\ at[k - 1] # NULL
      BY <1>1, <1>3, <1>5, <1>6
    <3>2. at[k] = link[at[k - 1]]
      BY <1>1, <3>1 DEF Follows
    <3>3. k # n => k + 1 \in 1..n /\ (k + 1) - 1 = k
      BY <1>2
    <3>4. k # n => Chain(from)[k + 1] = at[k]
      BY <1>3, <3>3
    <3> QED
      BY <1>2, <3>1, <3>2, <3>4
  <2> QED
    BY <1>7, <2>2, <2>3, <2>4 DEF Spells
<1> QED
  BY <1>7, <1>8, <1>9

LEMMA SpelledIsChain ==
    ASSUME TypeOK, Acyclic, NEW from \in Maybe(Suites), NEW d \in Seq(Suites), Spells(d, from)
    PROVE  Chain(from) = d
<1> DEFINE at == Followed(from)
           Is(k) == at[k] = IF k < Len(d) THEN d[k + 1] ELSE NULL
<1>1. /\ Most \in Nat /\ at \in [0..Most -> Maybe(Suites)] /\ Follows(at, from, Most)
      /\ at[Most] = NULL
  BY FollowedFacts, FollowedEnds
<1>2. /\ Len(d) \in Nat /\ \A k \in 1..Len(d) : d[k] \in Suites /\ d[k] # NULL
  BY FrameAssumption
<1> HIDE DEF at
<1>3. \A k \in 0..Most : Is(k)
  <2> DEFINE Bad == {k \in 0..Most : ~Is(k)}
  <2> SUFFICES ASSUME Bad # {} PROVE FALSE
    OBVIOUS
  <2>1. PICK k \in Bad : \A y \in Bad : k <= y
    <3>1. Bad \in SUBSET Nat
      BY <1>1
    <3> HIDE DEF Bad
    <3> QED
      BY <3>1, LeastFacts
  <2>2. /\ k \in 0..Most /\ ~Is(k) /\ k \in Nat
        /\ at[k] = IF k = 0 THEN from ELSE IF at[k - 1] = NULL THEN NULL ELSE link[at[k - 1]]
    BY <1>1, <2>1 DEF Follows
  <2>3. CASE k = 0
    <3>1. Is(0)
      BY <1>2, <2>2, <2>3 DEF Spells
    <3> QED
      BY <2>2, <2>3, <3>1
  <2>4. CASE k # 0
    <3>1. k - 1 \in 0..Most /\ k - 1 \notin Bad /\ (k - 1) + 1 = k
      BY <1>1, <2>1, <2>2, <2>4
    <3>2. Is(k - 1)
      BY <3>1
    <3>3. CASE k <= Len(d)
      <4>1. k \in 1..Len(d) /\ at[k - 1] = d[k]
        BY <1>2, <2>2, <2>4, <3>1, <3>2, <3>3
      <4>2. at[k] = link[d[k]]
        BY <1>2, <2>2, <2>4, <4>1
      <4>3. link[d[k]] = IF k = Len(d) THEN NULL ELSE d[k + 1]
        BY <4>1 DEF Spells
      <4>4. k < Len(d) <=> k # Len(d)
        BY <1>2, <2>2, <3>3
      <4> QED
        BY <2>2, <4>2, <4>3, <4>4
    <3>4. CASE ~(k <= Len(d))
      <4>1. at[k - 1] = NULL /\ ~(k < Len(d))
        BY <1>2, <2>2, <3>1, <3>2, <3>4
      <4> QED
        BY <2>2, <2>4, <4>1
    <3> QED
      BY <3>3, <3>4
  <2> QED
    BY <2>3, <2>4
<1>4. Len(d) <= Most
  <2> SUFFICES ASSUME Most < Len(d) PROVE FALSE
    BY <1>1, <1>2
  <2>1. at[Most] = d[Most + 1] /\ Most + 1 \in 1..Len(d)
    BY <1>1, <1>2, <1>3
  <2> QED
    BY <1>1, <1>2, <2>1
<1>5. /\ Len(d) \in 0..Most /\ at[Len(d)] = NULL
      /\ \A j \in 0..Most : j < Len(d) => at[j] # NULL
  <2>1. Len(d) \in 0..Most
    BY <1>1, <1>2, <1>4
  <2>2. ASSUME NEW j \in 0..Most, j < Len(d) PROVE at[j] # NULL
    <3>1. j + 1 \in 1..Len(d)
      BY <1>2, <2>2
    <3> QED
      BY <1>2, <1>3, <2>2, <3>1
  <2> QED
    BY <1>2, <1>3, <2>1, <2>2
<1>6. Chain(from) = [k \in 1..Len(d) |-> at[k - 1]]
  BY <1>5, ChainUpTo DEF at
<1>7. \A k \in 1..Len(d) : at[k - 1] = d[k]
  <2> SUFFICES ASSUME NEW k \in 1..Len(d) PROVE at[k - 1] = d[k]
    OBVIOUS
  <2>1. k - 1 \in 0..Most /\ k - 1 < Len(d) /\ (k - 1) + 1 = k
    BY <1>1, <1>2, <1>4
  <2> QED
    BY <1>3, <2>1
<1>8. d = [k \in 1..Len(d) |-> d[k]]
  OBVIOUS
<1> QED
  BY <1>6, <1>7, <1>8

LEMMA ChainSpellsNext ==
    \A from : TypeOK' /\ Acyclic' /\ from \in Maybe(Suites) =>
        /\ Chain(from)' \in Seq(Suites) /\ Spells(Chain(from), from)'
        /\ \A j, k \in 1..Len(Chain(from)') : Chain(from)'[j] = Chain(from)'[k] => j = k
<1>1. \A from : TypeOK /\ Acyclic /\ from \in Maybe(Suites) =>
        /\ Chain(from) \in Seq(Suites) /\ Spells(Chain(from), from)
        /\ \A j, k \in 1..Len(Chain(from)) : Chain(from)[j] = Chain(from)[k] => j = k
  BY ChainSpells
<1>2. (\A from : TypeOK /\ Acyclic /\ from \in Maybe(Suites) =>
        /\ Chain(from) \in Seq(Suites) /\ Spells(Chain(from), from)
        /\ \A j, k \in 1..Len(Chain(from)) : Chain(from)[j] = Chain(from)[k] => j = k)'
  BY <1>1, PTL
<1> QED
  BY <1>2

LEMMA SpelledNext ==
    \A from, d : TypeOK' /\ Acyclic' /\ from \in Maybe(Suites) /\ d \in Seq(Suites) /\ Spells(d, from)'
                 => Chain(from)' = d
<1>1. \A from, d : TypeOK /\ Acyclic /\ from \in Maybe(Suites) /\ d \in Seq(Suites) /\ Spells(d, from)
                   => Chain(from) = d
  BY SpelledIsChain
<1>2. (\A from, d : TypeOK /\ Acyclic /\ from \in Maybe(Suites) /\ d \in Seq(Suites) /\ Spells(d, from)
                   => Chain(from) = d)'
  BY <1>1, PTL
<1> QED
  BY <1>2

LEMMA ChainNull ==
    ASSUME TypeOK, Acyclic
    PROVE  Chain(NULL) = <<>>
<1>1. <<>> \in Seq(Suites) /\ Spells(<<>>, NULL) /\ NULL \in Maybe(Suites)
  BY DEF Spells, Maybe
<1> QED
  BY <1>1, SpelledIsChain

LEMMA SpelledFirst ==
    ASSUME TypeOK', Acyclic', first' \in Suites, NEW d \in Seq(Suites), d # <<>>, d[1] = first',
           \A k \in 1..Len(d) : link'[d[k]] = IF k = Len(d) THEN NULL ELSE d[k + 1]
    PROVE  Chain(first)' = d
<1>1. first' \in Maybe(Suites) /\ first' # NULL
  BY FrameAssumption DEF Maybe
<1>2. Spells(d, first)'
  BY <1>1 DEF Spells
<1> QED
  BY <1>1, <1>2, SpelledNext

(* While the links stay, so does every chain. *)
LEMMA ChainKept ==
    ASSUME UNCHANGED link
    PROVE  \A from : Chain(from)' = Chain(from)
BY DEF Chain, Followed

(* The suite after the first of a chain starts the rest of it. *)
LEMMA ChainTail ==
    ASSUME TypeOK, Acyclic, NEW s \in Suites
    PROVE  Chain(s) # <<>> /\ Chain(link[s]) = Tail(Chain(s))
<1> DEFINE c == Chain(s)
           n == Len(c)
<1>1. s \in Maybe(Suites) /\ s # NULL /\ link[s] \in Maybe(Suites)
  BY FrameAssumption DEF TypeOK, Maybe
<1>2. c \in Seq(Suites) /\ Spells(c, s)
  BY <1>1, ChainSpells
<1> HIDE DEF c
<1>3. /\ c # <<>> /\ c[1] = s /\ n \in Nat \ {0}
      /\ \A k \in 1..n : link[c[k]] = IF k = n THEN NULL ELSE c[k + 1]
  BY <1>1, <1>2 DEF Spells
<1> DEFINE d == Tail(c)
<1>4. /\ d \in Seq(Suites) /\ Len(d) = n - 1
      /\ \A k \in 1..(n - 1) : d[k] = c[k + 1]
  BY <1>2, <1>3
<1> HIDE DEF d
<1>5. link[s] = IF n = 1 THEN NULL ELSE c[2]
  <2>1. 1 \in 1..n /\ 1 + 1 = 2
    BY <1>3
  <2>2. link[c[1]] = IF 1 = n THEN NULL ELSE c[1 + 1]
    BY <1>3, <2>1
  <2> QED
    BY <1>3, <2>1, <2>2
<1>6. d = <<>> <=> link[s] = NULL
  <2>1. n # 1 => 2 \in 1..n /\ c[2] # NULL
    <3>1. n # 1 => 2 \in 1..n
      <4>1. n \in Nat \ {0}
        BY <1>3
      <4> HIDE DEF n
      <4> QED
        BY <4>1
    <3>2. \A k \in 1..n : c[k] \in Suites /\ c[k] # NULL
      BY <1>2, FrameAssumption
    <3> QED
      BY <3>1, <3>2
  <2>2. d = <<>> <=> n = 1
    BY <1>3, <1>4
  <2> QED
    BY <1>5, <2>1, <2>2
<1>7. link[s] # NULL => d[1] = link[s]
  <2>1. n # 1 => 1 \in 1..(n - 1) /\ 1 + 1 = 2
    <3>1. n \in Nat \ {0}
      BY <1>3
    <3> HIDE DEF n
    <3> QED
      BY <3>1
  <2> QED
    BY <1>4, <1>5, <2>1
<1>8. ASSUME NEW k \in 1..Len(d)
      PROVE  link[d[k]] = IF k = Len(d) THEN NULL ELSE d[k + 1]
  <2>1. k \in 1..(n - 1) /\ k + 1 \in 1..n /\ (k = n - 1 <=> k + 1 = n)
        /\ (k # n - 1 => k + 1 \in 1..(n - 1))
    BY <1>3, <1>4
  <2> QED
    BY <1>3, <1>4, <2>1
<1>9. Spells(d, link[s])
  BY <1>6, <1>7, <1>8 DEF Spells
<1> QED
  BY <1>1, <1>3, <1>4, <1>9, SpelledIsChain DEF c, d

(* What TFR_add makes of the list: a suite that is in it ends it. *)
LEMMA ChainLinked ==
    ASSUME FrameInvariant, HookedLast, TypeOK', Acyclic',
           NEW s \in Suites, TFR_add(s), ~Excluded(s)
    PROVE  LET c == Chain(first)
               d == IF \E k \in 1..Len(c) : c[k] = s
                    THEN SubSeq(c, 1, CHOOSE k \in 1..Len(c) : c[k] = s) ELSE Append(c, s)
           IN  /\ Chain(first)' = d
               /\ d \in Seq(Suites) /\ d # <<>> /\ d[Len(d)] = s
<1> DEFINE c == Chain(first)
           n == Len(c)
           listed == \E k \in 1..n : c[k] = s
           p == CHOOSE k \in 1..n : c[k] = s
           d == IF listed THEN SubSeq(c, 1, p) ELSE Append(c, s)
<1>1. /\ TypeOK /\ Acyclic /\ first \in Maybe(Suites) /\ NULL \notin Suites
      /\ link' = Linked(s) /\ first' = IF hook = NULL THEN s ELSE first
  BY FrameAssumption DEF FrameInvariant, TFR_add, TypeOK
<1>2. /\ c \in Seq(Suites) /\ Spells(c, first) /\ n \in Nat
      /\ \A j, k \in 1..n : c[j] = c[k] => j = k
  BY <1>1, ChainSpells
<1>3. /\ hook = IF c = <<>> THEN NULL ELSE c[n]
      /\ c = <<>> <=> first = NULL
      /\ first # NULL => c[1] = first
      /\ \A k \in 1..n : link[c[k]] = IF k = n THEN NULL ELSE c[k + 1]
  BY <1>2 DEF HookedLast, Spells
<1>4. /\ link'[s] = NULL
      /\ \A q \in Suites \ {s} : link'[q] = IF q = hook THEN s ELSE link[q]
  BY <1>1, LinkedFacts
<1>5. \A k \in 1..n : c[k] \in Suites /\ c[k] # NULL
  BY <1>1, <1>2
<1>6. first' \in Suites /\ (c # <<>> => first' = c[1]) /\ (c = <<>> => first' = s)
  <2>1. c # <<>> => n \in 1..n
    BY <1>2
  <2>2. c # <<>> => hook # NULL /\ first # NULL
    BY <1>3, <1>5, <2>1
  <2> QED
    BY <1>1, <1>3, <2>2 DEF Maybe
<1> HIDE DEF c
<1>7. CASE listed
  <2>1. p \in 1..n /\ c[p] = s
    BY <1>7
  <2> HIDE DEF p
  <2>2. /\ d \in Seq(Suites) /\ Len(d) = p /\ p \in Nat \ {0}
        /\ \A k \in 1..p : d[k] = c[k]
    BY <1>2, <1>7, <2>1
  <2> HIDE DEF d
  <2>3. d # <<>> /\ d[1] = first' /\ d[Len(d)] = s
    <3>1. 1 \in 1..p /\ p \in 1..p /\ c # <<>>
      BY <1>2, <2>1, <2>2
    <3> QED
      BY <1>6, <2>1, <2>2, <3>1
  <2>4. ASSUME NEW k \in 1..p
        PROVE  link'[d[k]] = IF k = p THEN NULL ELSE d[k + 1]
    <3>1. CASE k = p
      BY <1>4, <2>1, <2>2, <3>1
    <3>2. CASE k # p
      <4>1. k \in 1..n /\ k # n /\ k + 1 \in 1..p /\ n \in 1..n /\ c # <<>>
        BY <1>2, <2>1, <2>2, <3>2
      <4>2. c[k] # s /\ c[k] # hook /\ c[k] \in Suites
        BY <1>2, <1>3, <1>5, <2>1, <3>2, <4>1
      <4> QED
        BY <1>3, <1>4, <2>2, <3>2, <4>1, <4>2
    <3> QED
      BY <3>1, <3>2
  <2>7. Chain(first)' = d
    BY <1>6, <2>2, <2>3, <2>4, SpelledFirst
  <2> QED
    BY <2>2, <2>3, <2>7 DEF c, d, p
<1>8. CASE ~listed
  <2>2. /\ d \in Seq(Suites) /\ Len(d) = n + 1 /\ d[n + 1] = s
        /\ \A k \in 1..n : d[k] = c[k]
    BY <1>2, <1>8
  <2> HIDE DEF d
  <2>3. d # <<>> /\ d[1] = first' /\ d[Len(d)] = s
    <3>1. c # <<>> => 1 \in 1..n
      BY <1>2
    <3>2. c = <<>> => n = 0
      OBVIOUS
    <3> QED
      BY <1>2, <1>6, <2>2, <3>1, <3>2
  <2>4. ASSUME NEW k \in 1..(n + 1)
        PROVE  link'[d[k]] = IF k = n + 1 THEN NULL ELSE d[k + 1]
    <3>1. CASE k = n + 1
      BY <1>4, <2>2, <3>1
    <3>2. CASE k # n + 1
      <4>1. k \in 1..n /\ k + 1 \in 1..(n + 1) /\ (k # n => k + 1 \in 1..n) /\ n \in 1..n /\ c # <<>>
        BY <1>2, <3>2
      <4>2. c[k] # s /\ c[k] \in Suites /\ (c[k] = hook <=> k = n)
        BY <1>2, <1>3, <1>5, <1>8, <4>1
      <4> QED
        BY <1>3, <1>4, <2>2, <3>2, <4>1, <4>2
    <3> QED
      BY <3>1, <3>2
  <2>7. Chain(first)' = d
    BY <1>6, <2>2, <2>3, <2>4, SpelledFirst
  <2> QED
    BY <2>2, <2>3, <2>7 DEF c, d
<1> QED
  BY <1>7, <1>8

-----------------------------------------------------------------------------
(* Each step is one of the list's, or leaves the list alone.               *)

LEMMA HookedInit == Init => HookedLast
<1> SUFFICES ASSUME Init PROVE HookedLast
  OBVIOUS
<1>1. TypeOK /\ Acyclic
  BY FrameInit DEF FrameInvariant
<1>2. first = NULL /\ hook = NULL /\ test = NULL
  BY DEF Init
<1> QED
  BY <1>1, <1>2, ChainNull DEF HookedLast

LEMMA ListInit == Init => List!Init
<1> SUFFICES ASSUME Init PROVE List!Init
  OBVIOUS
<1>1. TypeOK /\ Acyclic
  BY FrameInit DEF FrameInvariant
<1>2. /\ first = NULL /\ test = NULL /\ phase = "args" /\ result = FALSE /\ focus = NULL
      /\ suite_success = 0 /\ suite_tests = 0
  BY DEF Init
<1>3. Chain(first) = <<>> /\ Chain(test) = <<>>
  BY <1>1, <1>2, ChainNull
<1> QED
  BY <1>2, <1>3 DEF List!Init

LEMMA ListUnchanged ==
    ASSUME FrameInvariant, HookedLast,
           UNCHANGED <<phase, focus, first, hook, test, link, suite_success, suite_tests, result>>
    PROVE  HookedLast' /\ UNCHANGED List!suiteVars
<1>1. Chain(first)' = Chain(first) /\ Chain(test)' = Chain(test)
  BY ChainKept
<1> QED
  BY <1>1 DEF HookedLast, List!suiteVars

LEMMA ListDeclare ==
    ASSUME FrameInvariant, HookedLast, TypeOK', Acyclic', NEW s \in Suites, TFR_SUITE_DECLARE_M(s)
    PROVE  HookedLast' /\ [List!Next]_(List!suiteVars)
<1>1. /\ phase = "main" /\ phase' = "main" /\ TFR_add(s) /\ test = NULL /\ test' = NULL
      /\ UNCHANGED <<focus, suite_success, suite_tests, result>>
  BY DEF TFR_SUITE_DECLARE_M, Between, In, optionVars, runVars, countVars, endVars, HookedLast
<1>2. CASE Excluded(s)
  BY <1>1, <1>2, ListUnchanged DEF TFR_add, chainVars
<1>3. CASE ~Excluded(s)
  <2> DEFINE c == Chain(first)
             d == IF \E k \in 1..Len(c) : c[k] = s
                  THEN SubSeq(c, 1, CHOOSE k \in 1..Len(c) : c[k] = s) ELSE Append(c, s)
  <2>1. Chain(first)' = d /\ d # <<>> /\ d[Len(d)] = s
    BY <1>1, <1>3, ChainLinked
  <2>2. TypeOK /\ Acyclic /\ hook' = s
    BY <1>1, <1>3 DEF FrameInvariant, TFR_add
  <2>3. HookedLast'
    <3> HIDE DEF d
    <3> QED
      BY <1>1, <2>1, <2>2 DEF HookedLast
  <2>4. Chain(test) = <<>> /\ Chain(test)' = <<>>
    <3>1. (TypeOK /\ Acyclic => Chain(NULL) = <<>>)'
      BY ChainNull, PTL
    <3>2. Chain(NULL)' = <<>> 
      BY <3>1
    <3>3. Chain(test)' = <<>>
      BY <1>1, <3>2
    <3> QED
      BY <1>1, <2>2, <3>3, ChainNull
  <2>5. c \in Seq(Suites) /\ DOMAIN c = 1..Len(c)
    BY <2>2, ChainSpells DEF TypeOK
  <2>6. List!Declare(s)
    <3>1. d = IF \E k \in 1..Len(c) : c[k] = s THEN List!Upto(s) ELSE Append(c, s)
      BY <2>5 DEF List!Upto
    <3> HIDE DEF c, d
    <3> QED
      BY <1>1, <1>3, <2>1, <2>4, <3>1 DEF List!Declare, List!Wanted, Excluded, List!Contains, c
  <2> QED
    BY <2>3, <2>6 DEF List!Next
<1> QED
  BY <1>2, <1>3

LEMMA ListEndSuite ==
    ASSUME FrameInvariant, HookedLast, EndSuite
    PROVE  HookedLast' /\ List!Suite
<1>1. /\ TypeOK /\ Acyclic /\ phase = "run" /\ phase' = "run" /\ test' = link[test] /\ test # NULL
      /\ UNCHANGED <<focus, first, hook, link, result>>
      /\ suite_tests' = suite_tests + 1
      /\ suite_success' = IF unit_success = unit_tests THEN suite_success + 1 ELSE suite_success
  BY DEF FrameInvariant, EndSuite, In, optionVars, chainVars, endVars
<1>2. test \in Suites /\ suite_tests \in Nat /\ suite_success \in 0..suite_tests
  BY <1>1 DEF TypeOK, Maybe
<1>3. Chain(test) # <<>> /\ Chain(link[test]) = Tail(Chain(test))
  BY <1>1, <1>2, ChainTail
<1>4. Chain(first)' = Chain(first) /\ Chain(test)' = Tail(Chain(test))
  <2>1. \A from : Chain(from)' = Chain(from)
    BY <1>1, ChainKept
  <2> QED
    BY <1>1, <1>3, <2>1
<1>5. (suite_success' = suite_tests') = ((suite_success = suite_tests) /\ (unit_success = unit_tests))
  <2>1. suite_success' = suite_tests' <=> suite_success = suite_tests /\ unit_success = unit_tests
    BY <1>1, <1>2
  <2> QED
    BY <2>1
<1>6. \E ok \in BOOLEAN : (suite_success' = suite_tests') = ((suite_success = suite_tests) /\ ok)
  BY <1>5
<1> QED
  BY <1>1, <1>3, <1>4, <1>6 DEF HookedLast, List!Suite

LEMMA ListStep ==
    ASSUME FrameInvariant, HookedLast, FrameInvariant', [Next]_vars
    PROVE  HookedLast' /\ [List!Next]_(List!suiteVars)
<1>1. TypeOK /\ Acyclic /\ TypeOK' /\ Acyclic'
  BY DEF FrameInvariant
<1>2. ASSUME NEW s \in Suites, TFR_SUITE_DECLARE_M(s)
      PROVE  HookedLast' /\ [List!Next]_(List!suiteVars)
  BY <1>1, <1>2, ListDeclare
<1>3. CASE EndSuite
  BY <1>3, ListEndSuite DEF List!Next
<1>4. CASE TFR_usage
  <2>1. /\ phase = "main" /\ phase' = "done" /\ result' = TRUE
        /\ UNCHANGED <<focus, first, hook, test, link, suite_success, suite_tests>>
    BY <1>4 DEF TFR_usage, Between, In, optionVars, chainVars, runVars, countVars
  <2>2. Chain(first)' = Chain(first) /\ Chain(test)' = Chain(test)
    BY <2>1, ChainKept
  <2>3. HookedLast' /\ List!Help
    BY <2>1, <2>2 DEF HookedLast, List!Help
  <2> QED
    BY <2>3 DEF List!Next
<1>5. CASE TFR_run
  <2>1. /\ phase = "main" /\ phase' = "run" /\ test' = first
        /\ UNCHANGED <<focus, first, hook, link, suite_success, suite_tests, result>>
    BY <1>5 DEF TFR_run, Between, In, optionVars, chainVars, countVars, endVars
  <2>2. Chain(first)' = Chain(first) /\ Chain(test)' = Chain(first)
    <3>1. \A from : Chain(from)' = Chain(from)
      BY <2>1, ChainKept
    <3> QED
      BY <2>1, <3>1
  <2>3. HookedLast' /\ List!Begin
    BY <2>1, <2>2 DEF HookedLast, List!Begin
  <2> QED
    BY <2>3 DEF List!Next
<1>6. CASE RunReturns
  <2>1. /\ phase = "run" /\ phase' = "done" /\ test = NULL /\ result' = (suite_success = suite_tests)
        /\ UNCHANGED <<focus, first, hook, test, link, suite_success, suite_tests>>
    BY <1>6 DEF RunReturns, In, chainVars, runVars, countVars
  <2>2. Chain(first)' = Chain(first) /\ Chain(test)' = Chain(test) /\ Chain(test) = <<>>
    BY <1>1, <2>1, ChainKept, ChainNull
  <2>3. HookedLast' /\ List!End
    BY <2>1, <2>2 DEF HookedLast, List!End
  <2> QED
    BY <2>3 DEF List!Next
<1>7. CASE \/ TFR_on_exit \/ TFR_SUITE_ADD_M \/ UnitOverrun \/ RunUnit \/ ReadsBehind
           \/ EmptySuite \/ FreeCrashes \/ UNCHANGED vars
  <2>1. UNCHANGED <<phase, focus, first, hook, test, link, suite_success, suite_tests, result>>
    BY <1>7 DEF TFR_on_exit, TFR_SUITE_ADD_M, UnitOverrun, RunUnit, ReadsBehind, EmptySuite, FreeCrashes,
                Halt, Between, In, vars, optionVars, chainVars, runVars, countVars, endVars
  <2> QED
    BY <2>1, ListUnchanged
<1>8. CASE TFR_args \/ \E f \in Maybe(Focus) : TFR_set_focus(f)
  <2>1. /\ UNCHANGED <<first, hook, test, link, suite_success, suite_tests, result>>
        /\ phase \in {"args", "main"} /\ phase' = "main" /\ focus' \in Maybe(Focus)
    BY <1>1, <1>8 DEF TypeOK, TFR_args, TFR_set_focus, Between, In, chainVars, runVars, countVars, endVars
  <2>2. Chain(first)' = Chain(first) /\ Chain(test)' = Chain(test)
    BY <2>1, ChainKept
  <2>3. HookedLast' /\ List!SetFocus
    BY <2>1, <2>2 DEF HookedLast, List!SetFocus, Focus, Maybe
  <2> QED
    BY <2>3 DEF List!Next
<1> QED
  BY <1>2, <1>3, <1>4, <1>5, <1>6, <1>7, <1>8 DEF Next, ClientStep, RunStep

(* The links, the counters and the focus implement a list (ImplementsList):*)
(* whatever is declared, in whatever order and however often, and whenever *)
(* a focus is set, the suites run are those of the list, in its order and  *)
(* each once, and TFR_run is true iff each of them succeeded               *)
(* (test.c:116-141, 144-268).                                              *)
THEOREM ImplementsListHolds == Spec => ImplementsList
<1>1. Init => FrameInvariant /\ HookedLast /\ List!Init
  BY FrameInit, HookedInit, ListInit
<1>2. FrameInvariant /\ HookedLast /\ [Next]_vars
      => (FrameInvariant /\ HookedLast)' /\ [List!Next]_(List!suiteVars)
  BY FrameStep, ListStep
<1> QED
  BY <1>1, <1>2, PTL DEF Spec, ImplementsList, List!Spec

=============================================================================
