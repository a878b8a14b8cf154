----------------------------- MODULE MCMiniconf -----------------------------
(***************************************************************************)
(* Instances of Miniconf for TLC: a handful of texts, two arrays of        *)
(* options, the argument vectors and config files made from them.          *)
(***************************************************************************)
EXTENDS CfgProps, TLC

(* Option names and abbreviations, the arguments and values that use them. *)
Words == {"v", "n", "s", "z", "7"}
Dashed == [w \in Words |-> CASE w = "v" -> "-v" [] w = "n" -> "-n" [] w = "s" -> "-s"
                             [] w = "z" -> "-z" [] w = "7" -> "-7"]
Plussed == [w \in Words |-> CASE w = "v" -> "+v" [] w = "n" -> "+n" [] w = "s" -> "+s"
                              [] w = "z" -> "+z" [] w = "7" -> "+7"]
Signed(f) == {f[w] : w \in Words}
MCText == Words \cup {"prog"} \cup Signed(Dashed) \cup Signed(Plussed)

MCFirst == [t \in MCText |-> IF t \in Signed(Dashed) THEN "-"
                             ELSE IF t \in Signed(Plussed) THEN "+" ELSE "other"]
MCRest == [t \in MCText |-> IF t \in Words \cup {"prog"} THEN t
                            ELSE CHOOSE w \in Words : Dashed[w] = t \/ Plussed[w] = t]

(* atoi and atof read a number or give 0; the float is in tenths. *)
MCAtoi == [t \in MCText |-> CASE t = "7" -> 7 [] t = "-7" -> -7 [] OTHER -> 0]
MCAtof == [t \in MCText |-> 10 * MCAtoi[t]]

-----------------------------------------------------------------------------
Option4(name, abbrev, type, num, str) ==
    [name |-> name, abbrev |-> abbrev, desc |-> NULL, type |-> type, num |-> num, str |-> str]

Switch == Option4("v", NULL, "SWITCH", 0, NULL)
Int_   == Option4("n", NULL, "INT", 3, NULL)

(* Its abbreviation is the name of Int_, which is found first. *)
String == Option4("s", "n", "STRING", 0, "z")

(* Its abbreviation is its own; it has a description. *)
Float  == [Option4("z", "7", "FLOAT", 25, NULL) EXCEPT !.desc = "s"]

(* One array with every type, and pairs that may clash. *)
ArgsLists   == {<<Switch, Int_, String>>}
ClientLists == {<<Switch, Float>>, <<Int_, String>>}
OOMLists    == {<<String, [Switch EXCEPT !.desc = "s"]>>}

(* Vectors of at most n arguments from a set, after argv[0]. *)
Vectors(args, n) == {<<"prog">> \o a : a \in UNION {[1..k -> args] : k \in 0..n}}

ArgsVectors   == Vectors({"-v", "+v", "-n", "+n", "-s", "-z", "7"}, 4)
ClientVectors == {<<"prog">>, <<"prog", "-s", "z", "-s", "-7">>, <<"prog", "-7", "7", "+v", "s">>,
                  <<"prog", "7", "-v", "-n">>, <<"prog", "+z", "-v">>,
                  <<"prog", "-v", "-v", "-v", "-v", "-v">>}
OOMVectors    == {<<"prog", "-s", "7">>, <<"prog", "7", "-n">>}

LineOf(kind, key, value) == [kind |-> kind, key |-> key, value |-> value]
ClientFiles == {NULL, <<>>,
    <<LineOf("on", "v", "z"), LineOf("set", "7", "7"), LineOf("off", "v", "z")>>,
    <<LineOf("set", "s", "z"), LineOf("set", "n", "7"), LineOf("set", "s", "-7")>>,
    <<LineOf("comment", "z", "z"), LineOf("set", "v", "7"), LineOf("bare", "z", "z"),
      LineOf("on", "v", "z")>>,
    <<LineOf("off", "s", "z")>>,
    <<LineOf("unterminated", "s", "z")>>}
OOMFiles == {<<LineOf("on", "v", "z"), LineOf("set", "s", "7")>>, <<LineOf("bare", "z", "z")>>}

NoFiles == {}
=============================================================================
