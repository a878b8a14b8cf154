------------------------------- MODULE MCDeps -------------------------------
(***************************************************************************)
(* An instance of SourceDep for TLC: two headers that include each other,  *)
(* one of them in both directories of the search path, two generated ones  *)
(* that may include each other, and one that nobody has written.           *)
(***************************************************************************)
EXTENDS DepProps

MCDirs   == {"src", "sr3"}
MCNames  == {"a", "b", "g", "h"}
MCSource == <<"src", "main">>
MCWritten == {<<"src", "a">>, <<"src", "b">>, <<"sr3", "b">>}

Plain(name)  == [name |-> name, autogen |-> FALSE]
Tagged(name) == [name |-> name, autogen |-> TRUE]

SourceContents == {<<Plain("a"), Tagged("g")>>, <<Tagged("g"), Plain("b"), Plain("b")>>, <<Plain("h")>>}
Choices(f) == CASE f = MCSource        -> SourceContents
                [] f = <<"src", "a">>  -> {<<Plain("b")>>, <<>>}
                [] f = <<"src", "b">>  -> {<<Plain("a")>>}
                [] f = <<"sr3", "b">>  -> {<<Tagged("h")>>}
                [] f = <<"obj", "g">>  -> {<<Plain("h")>>, <<Plain("a")>>}
                [] f = <<"obj", "h">>  -> {<<Plain("g")>>, <<>>}
                [] OTHER               -> {<<>>}

(* What the source, a, g and h hold is chosen; the others hold one thing. *)
MCContents ==
    {[f \in File |-> CASE f = MCSource -> m [] f = <<"src", "a">> -> a [] f = <<"obj", "g">> -> g
                       [] f = <<"obj", "h">> -> h [] OTHER -> CHOOSE c \in Choices(f) : TRUE] :
        m \in Choices(MCSource), a \in Choices(<<"src", "a">>),
        g \in Choices(<<"obj", "g">>), h \in Choices(<<"obj", "h">>)}
=============================================================================
