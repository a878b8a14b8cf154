---------------------------- MODULE MCTestFrame -----------------------------
(***************************************************************************)
(* Instances of TestFrame for TLC.  The first suite may be declared with   *)
(* one unit more than fits, the second with none or as many as fit.        *)
(***************************************************************************)
EXTENDS FrameProps

CONSTANTS s1, s2, s3, t1, t2

AllSuites == {s1, s2, s3}
NamedTwo  == [f \in {"one", "nobody"} |-> IF f = "one" THEN {s1, s3} ELSE {}]
AnyBodies == [s \in AllSuites |-> CASE s = s1 -> {<<t1>>, <<t1, t1, t1>>}
                                    [] s = s2 -> {<<>>, <<t2, t2>>}
                                    [] s = s3 -> {<<t1>>}]
AnyEarly  == {<<>>, <<t2>>}

(* Suites of one unit, one of them with a name. *)
TwoSuites   == {s1, s2}
NamedOne    == [f \in {"one"} |-> {s1}]
PlainBodies == [s \in TwoSuites |-> {<<t1>>}]
NotEarly    == {<<>>}
=============================================================================
