----------------------------- MODULE DriverProps ----------------------------
(***************************************************************************)
(* What a test program must satisfy that neither testframe nor miniconf    *)
(* can promise alone.                                                      *)
(***************************************************************************)
EXTENDS TestDriver, FiniteSetsExt

(* The whole program does what TestFrame says: what TFR_args makes of the  *)
(* command line and the file is some focus and some -help, and the focus   *)
(* the suites are compared with is a copy, which cfg_exit does not free    *)
(* (test.c:306-353, 67-86, 144-155).                                       *)
ImplementsFrame == Frame!Spec

-----------------------------------------------------------------------------
(* The reference reading of the command line and of the file it names,     *)
(* by the grammar that CfgProps states for each.                           *)
Args == INSTANCE CfgProps WITH
    fault <- cfg_fault, result <- cfg_result,
    OptionLists <- {}, ArgVectors <- {}, ConfigFiles <- {},
    Keys <- {}, Numbers <- {}, Strings <- {}, MaxCells <- 0, MaxLives <- 1,
    call <- "read_args", input <- argv, next <- Len(argv) + 1

Last(places, Given(_), default) == IF places = {} THEN default ELSE Given(Max(places))

(* The value of an option after the first n - 1 arguments. *)
InArgv(n, name, default) ==
    LET o        == Conf!cfg_find(name)
        Given(p) == Args!Given(p, o)
    IN  Last({p \in 2..(n - 1) : Args!Sets(p, o)}, Given, default)

InAllArgv(name, default) == InArgv(Len(argv) + 1, name, default)

LinesOf(path) == IF path = NULL \/ Files[path] = NULL THEN <<>> ELSE Files[path]
Lines == LinesOf(InAllArgv("argfile", NULL))

File == INSTANCE CfgProps WITH
    fault <- cfg_fault, result <- cfg_result,
    OptionLists <- {}, ArgVectors <- {}, ConfigFiles <- {},
    Keys <- {}, Numbers <- {}, Strings <- {}, MaxCells <- 0, MaxLives <- 1,
    call <- "read_file", input <- Lines, next <- Len(Lines) + 1

(* A line that is none ends the reading; what comes later in the file, and *)
(* the file after the command line, wins.                                  *)
InFile(n, name, default) ==
    LET o        == Conf!cfg_find(name)
        Given(p) == File!Given(p, o)
        Read(p)  == File!Sets(p, o) /\ \A q \in 1..p : Lines[q].kind # "bare"
    IN  Last({p \in 1..(n - 1) : Read(p)}, Given, InAllArgv(name, default))

Asked(name, default) == InFile(Len(Lines) + 1, name, default)

Accepted == \A p \in DOMAIN argv : ~Args!IsRefused(p)

(* The options of TFR_args are at the first n places of the table.         *)
StockedTo(n) ==
    /\ Len(opts) = n
    /\ \A k \in 1..n : opts[k].type = Options[k].type /\ Args!StoredAs(k, Options[k])

AsAsked ==
    /\ storage # "static" => focus = IF Accepted THEN Asked("focus", NULL) ELSE NULL
    /\ verbose <=> Accepted /\ Asked("verbosity", 0) # 0
    /\ help <=> Accepted /\ 1 \in {Asked("help", 0), Asked("?", 0)}

(* When TFR_main runs, the focus, the verbosity and -help are what the     *)
(* command line and the file it names ask for, or none of it if there is   *)
(* an argument that is refused.  If an allocation was, what was read may   *)
(* be lost, but nothing is taken from a table that is not complete         *)
(* (test.c:328-343).                                                       *)
OptionsAsAsked ==
    phase = "main" /\ at = "main" =>
        /\ ~failed => AsAsked
        /\ help \/ verbose \/ storage = "heap" => StockedTo(Len(Options))

(* The report that -help prints has a line for every option of TFR_args,   *)
(* whatever allocations were refused: the help is asked for only where all *)
(* of them are in the table (test.c:328-337).  No line names the type of   *)
(* its option, though cfg_value_type_name is to return it as a string      *)
(* (util.h:54): its range test excludes every type (util.c:73).            *)
HelpComplete ==
    help /\ at = "exit" => Len(shown) = Len(Options) /\ \A k \in DOMAIN shown : shown[k] = NULL

-----------------------------------------------------------------------------
(* Memory that is allocated, and no part of the program can free. *)
Held == Conf!Owned \cup (IF storage = "heap" THEN {copy} ELSE {})
Lost == {a \in DOMAIN mem : mem[a] # Freed} \ Held

(* Memory is lost in two places: an argument replaces the old value of a   *)
(* string option, TFR_main sets a focus over the copy of the one it was    *)
(* given.  At the end nothing else is allocated, but the copy of the focus *)
(* if -help was given (config.c:280, test.c:112, 151-154, 260).            *)
OnlyKnownLeaks ==
    [][ /\ Lost' \subseteq Lost \cup
             (IF at = "reading" /\ state = "CAPTURE" THEN {opts[Conf!cfg_find(current_option)].str}
              ELSE IF at = "main" /\ storage' = "static" THEN {copy} ELSE {})
        /\ phase' = "done" =>
             \A a \in DOMAIN mem' : mem'[a] # Freed => a \in Lost' \/ (help /\ a = copy) ]_vars

-----------------------------------------------------------------------------
(* The inductive invariant behind these, besides what miniconf keeps on    *)
(* its own.  Where TFR_args, TFR_main and TFR_run stand says which call of *)
(* miniconf runs, and on what.                                             *)
InTFR_args == {"init", "add", "adding", "args", "reading", "argfile", "file", "values", "failed"}

Control ==
    /\ IF at \in InTFR_args THEN phase = "args"
       ELSE IF at = "run" THEN phase \in {"run", "done"}
       ELSE at \in {"main", "report", "exit"} /\ phase = "main"
    /\ CASE at = "adding"  -> call = "add_options" /\ input = Options
         [] at = "reading" -> call = "read_args" /\ input = argv
         [] at = "file"    -> call = "read_file" /\ input \in {Files[path] : path \in Text}
         [] OTHER          -> call = "none"
    /\ IF at = "init" THEN ~initialized /\ lives = 0
       ELSE (initialized <=> at # "run") /\ lives = 1
    /\ at \in {"init", "add"} => opts = <<>>
    /\ cfg_fault # "none" => at \in {"adding", "args", "reading", "file"}
    /\ argv \in Vectors /\ shown \in Seq({NULL})

(* What testframe took from miniconf: the focus is nothing, the copy, or   *)
(* what TFR_main set.                                                      *)
Focused ==
    /\ at \in InTFR_args => /\ fault = "none" /\ copy = NULL
                            /\ focus = NULL /\ storage = "none" /\ verbose = FALSE /\ help = FALSE
    /\ storage = "heap" => focus # NULL /\ copy # NULL
    /\ storage \in {"none", "static", "heap", "freed"} /\ (storage = "none" => focus = NULL)
    /\ at = "report" => help

(* The table has the options of TFR_args as far as they are added; all of  *)
(* them unless one was refused for lack of memory.                         *)
Stocked ==
    /\ at = "adding" => next <= Len(Options) + 1 /\ StockedTo(next - 1)
    /\ \/ at \in {"args", "reading", "argfile", "file", "values"}
       \/ at \in {"failed", "main", "report", "exit"} /\ (help \/ verbose \/ storage = "heap" \/ ~failed)
       => StockedTo(Len(Options))

(* The value an option has as long as nothing is read. *)
Default(k) == IF Options[k].type = "STRING" THEN NULL ELSE 0

(* The values of the options are what was read so far asks for. *)
AskedSoFar(k) ==
    LET name == Options[k].name
    IN  Conf!ValueOf(k) =
          CASE at = "adding"  -> Default(k)
            [] at = "args"    -> Default(k)
            [] at = "reading" -> InArgv(next, name, Default(k))
            [] at = "argfile" -> InAllArgv(name, Default(k))
            [] at = "file"    -> InFile(next, name, Default(k))
            [] at = "values"  -> Asked(name, Default(k))

ReadAsAsked ==
    ~failed /\ cfg_fault = "none" =>
        /\ at \in {"adding", "args", "reading", "argfile", "file", "values"} =>
              \A k \in DOMAIN opts : AskedSoFar(k)
        /\ at = "file" => /\ input = Lines /\ next <= Len(Lines) + 1
                          /\ \A q \in 1..(next - 1) : Lines[q].kind # "bare"
        /\ at \in {"argfile", "file", "values"} => Accepted
        /\ at = "failed" => ~Accepted

(* After cfg_exit nothing it owned is allocated. *)
Released == at = "run" => \A ptr \in Conf!Owned : ~Conf!Live(mem, ptr)

DriverInvariant == Control /\ Focused /\ Stocked /\ ReadAsAsked /\ Released /\ OptionsAsAsked

=============================================================================
