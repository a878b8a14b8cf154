------------------------------ MODULE MCDriver ------------------------------
(***************************************************************************)
(* An instance of TestDriver for TLC: command lines over the options of    *)
(* testframe, three files they may name, two suites.                         *)
(***************************************************************************)
EXTENDS DriverProps

CONSTANTS s1, s2, t1, t2

Words == {"help", "h", "?", "argfile", "A", "focus", "f", "verbosity", "v",
          "one", "cfg", "2", "prog", "doc"}
Dashed == [w \in {"h", "?", "A", "f", "focus", "v"} |->
    CASE w = "h" -> "-h" [] w = "?" -> "-?" [] w = "A" -> "-A" [] w = "f" -> "-f"
      [] w = "focus" -> "-focus" [] w = "v" -> "-v"]
Minus  == {Dashed[w] : w \in DOMAIN Dashed}
MCText == Words \cup Minus \cup {"+h", "+f"}

MCFirst == [t \in MCText |-> CASE t \in Words -> "other" [] t \in Minus -> "-" [] OTHER -> "+"]
MCRest  == [t \in MCText |-> CASE t \in Minus -> CHOOSE w \in DOMAIN Dashed : Dashed[w] = t
                               [] t = "+h" -> "h" [] t = "+f" -> "f" [] OTHER -> t]
MCAtoi  == [t \in MCText |-> IF t = "2" THEN 2 ELSE 0]
MCNamed == [t \in MCText |-> IF t = "one" THEN {s1} ELSE {}]

LineOf(kind, key, value) == [kind |-> kind, key |-> key, value |-> value]
MCFiles == [t \in MCText |->
    CASE t = "cfg" -> <<LineOf("set", "f", "one"), LineOf("off", "h", "prog"), LineOf("set", "v", "doc"),
                        LineOf("bare", "?", "prog"), LineOf("on", "?", "prog")>>
      [] t = "one" -> <<LineOf("comment", "h", "h"), LineOf("on", "h", "prog")>>
      [] t = "2"   -> <<LineOf("set", "f", "2"), LineOf("unterminated", "h", "h")>>
      [] OTHER     -> NULL]

Given == Minus \cup {"+f", "+h", "one", "cfg", "2"}
MCVectors == {<<"prog">> \o args : args \in
    UNION {[1..k -> Given] : k \in 0..2}
    \cup {<<"-f", "one", "-A", "cfg">>, <<"-f", "one", "+f">>, <<"-f", "2", "-f", "one">>, <<"-A", "one", "-v", "2">>}}
MCSuites  == {s1, s2}
MCEarly   == {<<>>}
MCBodies  == [s \in MCSuites |-> IF s = s1 THEN {<<t1>>, <<>>} ELSE {<<t2, t2, t2>>, <<t2>>}]
=============================================================================
