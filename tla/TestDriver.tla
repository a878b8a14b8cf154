----------------------------- MODULE TestDriver -----------------------------
(***************************************************************************)
(* A test program as it is linked: testframe (TestFrame) reads its options *)
(* with miniconf (Miniconf) in TFR_args, shuts miniconf down in TFR_usage, *)
(* and uses the copy of the focus until TFR_run frees it.  The two share   *)
(* the heap.                                                               *)
(***************************************************************************)
EXTENDS Naturals, Sequences

CONSTANTS
    NULL, CanFail,
    Text, Raw, Freed, First, Rest, Atoi, Atof, MaxOptions, MaxArgs, MaxBlocks, MaxFiles,
    Vectors,        \* what main may be called with
    Files,          \* path -> the lines of the file there, or NULL
    Doc,            \* the description of every option, or NULL to leave them out
    Suites, Tests, MaxUnits, Named, Bodies, Early, MaxSuites,
    MainFocus       \* what TFR_main may set the focus to

VARIABLES
    mem, failed, opts, blocks, block, state, current_option, files, buffer,
    call, input, next, cfg_result, initialized, lives, cfg_fault,
    phase, focus, storage, verbose, help, exit_handler, first, hook, link,
    unit, suite, counter, body, test, i, suite_tests, suite_success,
    unit_tests, unit_success, outcome, result, exited, fault,
    at,             \* where TFR_args or the beginning of TFR_run stands
    argv,           \* what main was called with
    copy,           \* the address of the copy of the focus, or NULL
    shown           \* the types cfg_report has printed, by option

(* The table in TFR_args. *)
OptionOf(name, abbrev, type) ==
    [name |-> name, abbrev |-> abbrev, desc |-> Doc, type |-> type, num |-> 0, str |-> NULL]

Options == <<OptionOf("help", "h", "SWITCH"), OptionOf("?", NULL, "SWITCH"),
             OptionOf("argfile", "A", "STRING"), OptionOf("focus", "f", "STRING"),
             OptionOf("verbosity", "v", "INT")>>

Conf == INSTANCE Miniconf WITH
    fault <- cfg_fault, result <- cfg_result,
    OptionLists <- {Options}, ArgVectors <- Vectors, ConfigFiles <- {Files[path] : path \in DOMAIN Files},
    Keys <- {}, Numbers <- {}, Strings <- {}, MaxCells <- NULL, MaxLives <- 1

Frame == INSTANCE TestFrame

tableVars == <<opts, blocks, block, state, current_option, files, buffer,
               call, input, next, cfg_result, initialized, lives, cfg_fault>>
confVars  == <<mem, failed, tableVars>>
suiteVars == <<exit_handler, first, hook, link, unit, suite, counter, body, test, i, suite_tests,
               suite_success, unit_tests, unit_success, outcome, result, exited, fault>>
frameVars == <<phase, focus, storage, verbose, help, suiteVars>>
vars == <<confVars, frameVars, at, argv, copy, shown>>

(* Besides what miniconf and testframe assume: a file can be opened, and    *)
(* a name for a focus is any string.                                       *)
ASSUME DriverAssumption ==
    /\ Conf!HeapAssumption /\ Conf!DataAssumption /\ Conf!ClientAssumption
    /\ Frame!FrameAssumption
    /\ Files \in [Text -> Seq(Conf!Line) \cup {NULL}] /\ MaxFiles > 0
    /\ Named \in [Text -> SUBSET Suites] /\ MainFocus \subseteq Text

Init ==
    /\ Conf!Init /\ Frame!Init
    /\ at = "init" /\ argv \in Vectors /\ copy = NULL /\ shown = <<>>

-----------------------------------------------------------------------------
(* TFR_args: cfg_init, then the calls of miniconf one after the other.     *)

ConfStep(from, step) ==
    /\ at = from /\ step
    /\ UNCHANGED <<frameVars, argv, copy, shown>>

(* Where a call that runs, or has returned, leaves TFR_args. *)
After(done, otherwise) ==
    at' = IF call' # "none" \/ cfg_fault' # "none" THEN at
          ELSE IF cfg_result' THEN done ELSE otherwise

InitConfig == ConfStep("init", Conf!cfg_init /\ at' = "add")

AddOptions == ConfStep("add", Conf!AddOptions(Options) /\ at' = "adding")

StoreOptions == ConfStep("adding", Conf!StoreStep /\ After("args", "failed"))

ReadArgs ==
    ConfStep("args", \/ Conf!ReadArgs(argv) /\ at' = "reading"
                     \/ Conf!ReadArgsHalts(argv) /\ UNCHANGED at)

ReadArg == ConfStep("reading", Conf!ArgStep /\ After("argfile", "failed"))

(* cfg_switch, cfg_int or cfg_string of an option by its name *)
Value(name) == Conf!ValueOf(Conf!cfg_find(name))

(* Whether the file can be read is not looked at. *)
ReadFile ==
    LET path == Value("argfile")
    IN  ConfStep("argfile",
            IF path = NULL THEN at' = "values" /\ UNCHANGED confVars
            ELSE \/ Conf!ReadFile(Files[path]) /\ at' = "file"
                 \/ Conf!ReadFileMissing(Files[path]) /\ at' = "values"
                 \/ Conf!ReadFileNoBuffer(Files[path]) /\ at' = "values")

ReadLine == ConfStep("file", Conf!LineStep /\ After("values", "values"))

(* Variant of FocusRead: the other string option is read. *)
FocusRead_Argfile == Value("argfile")

(* The string miniconf has. *)
FocusRead == Value("focus")

(* strdup *)
Copied(f, ok) ==
    LET new == Conf!cfg_copy_string(mem, f, ok)
    IN  copy' = new.ptr /\ mem' = new.mem /\ failed' = (failed \/ Conf!Refused(f, new))

TakeValues ==
    /\ at = "values" /\ at' = "main" /\ phase' = "main"
    /\ \E ok \in Conf!Grant :
          LET stored == Frame!StoredFocus(FocusRead, ok)
          IN  /\ focus' = stored.focus /\ storage' = stored.storage
              /\ Copied(FocusRead, ok)
    /\ verbose' = (Value("verbosity") # 0)
    /\ help' = (Value("help") = 1 \/ Value("?") = 1)
    /\ UNCHANGED <<tableVars, suiteVars, argv, shown>>

(* Variant of TakeNone: the focus read so far is used as it is. *)
TakeNone_HalfRead ==
    /\ at = "failed" /\ at' = "main" /\ phase' = "main"
    /\ focus' = IF Conf!cfg_type("focus") # "STRING" THEN NULL ELSE FocusRead
    /\ storage' = IF focus' = NULL THEN "none" ELSE "config"
    /\ UNCHANGED <<confVars, verbose, help, suiteVars, argv, copy, shown>>

(* The options or the arguments were refused: TFR_args is true all the     *)
(* same, and the program runs with none.                                   *)
TakeNone ==
    /\ at = "failed" /\ at' = "main" /\ phase' = "main"
    /\ UNCHANGED <<confVars, focus, storage, verbose, help, suiteVars, argv, copy, shown>>

-----------------------------------------------------------------------------
(* TFR_main, and TFR_run, which begins with TFR_usage. *)

FrameStep(from, step) ==
    /\ at = from /\ step
    /\ UNCHANGED <<confVars, argv, copy, shown>>

TFR_main ==
    FrameStep("main",
        /\ \/ \E f \in MainFocus : Frame!TFR_set_focus(f)
           \/ \E s \in Suites : Frame!TFR_SUITE_DECLARE_M(s)
           \/ Frame!TFR_SUITE_ADD_M
           \/ Frame!UnitOverrun
        /\ UNCHANGED at)

TFR_run ==
    FrameStep("main",
        /\ Frame!Between
        /\ at' = IF help THEN "report" ELSE "exit"
        /\ UNCHANGED frameVars)

(* cfgValueType, and the bit it has when the option was input. *)
TypeCode(slot) ==
    (CASE slot.type = "SWITCH" -> 0 [] slot.type = "INT" -> 1
       [] slot.type = "STRING" -> 2 [] slot.type = "FLOAT" -> 3)
    + (IF slot.input THEN 256 ELSE 0)
COUNT   == 4
NOEXIST == 255
TypeNames == <<"<nonexistent>", "switch", "integer", "string", "real">>

cfg_value_type_name(type) ==
    IF type < NOEXIST \/ type >= COUNT THEN NULL ELSE TypeNames[type - NOEXIST + 1]

(* cfg_report walks the table, cfg_default_report prints an option. *)
Report ==
    LET slot == opts[Len(shown) + 1]
    IN  /\ at = "report" /\ cfg_fault = "none" /\ Len(shown) < Len(opts)
        /\ IF Conf!Live(mem, slot.name)
           THEN shown' = Append(shown, cfg_value_type_name(TypeCode(slot))) /\ UNCHANGED confVars
           ELSE Conf!Halt("undefined") /\ UNCHANGED shown
        /\ UNCHANGED <<frameVars, at, argv, copy>>

(* Variant of Reported: the loop ends one option early. *)
Reported_Early ==
    ConfStep("report", Len(shown) + 1 = Len(opts) /\ at' = "exit" /\ UNCHANGED confVars)

Reported ==
    ConfStep("report", Len(shown) = Len(opts) /\ at' = "exit" /\ UNCHANGED confVars)

(* The end of TFR_usage: TFR_run goes on, or returns at once. *)
ExitConfig ==
    /\ at = "exit"
    /\ IF \A ptr \in Conf!Owned : Conf!Live(mem, ptr)
       THEN Conf!cfg_exit /\ at' = "run" /\ (Frame!TFR_usage \/ Frame!TFR_run)
       ELSE Conf!ExitCrashes /\ UNCHANGED <<frameVars, at>>
    /\ UNCHANGED <<argv, copy, shown>>

(* Variant of FreedAtEnd: the focus is forgotten. *)
FreedAtEnd_Nothing == {}

(* free(TFR_test_S.focus), if it is set *)
FreedAtEnd == IF focus = NULL THEN {} ELSE {copy}

RunStep ==
    /\ at = "run"
    /\ \/ /\ \/ Frame!RunUnit \/ Frame!ReadsBehind \/ Frame!EndSuite
             \/ Frame!EmptySuite \/ Frame!FreeCrashes
          /\ UNCHANGED confVars
       \/ /\ Frame!RunReturns
          /\ mem' = Conf!cfgFREE(mem, FreedAtEnd)
          /\ UNCHANGED <<failed, tableVars>>
    /\ UNCHANGED <<at, argv, copy, shown>>

-----------------------------------------------------------------------------
ArgsStep == InitConfig \/ AddOptions \/ StoreOptions \/ ReadArgs \/ ReadArg
            \/ ReadFile \/ ReadLine \/ TakeValues \/ TakeNone

Next == ArgsStep \/ TFR_main \/ TFR_run \/ Report \/ Reported
        \/ ExitConfig \/ RunStep

Spec == Init /\ [][Next]_vars

=============================================================================
