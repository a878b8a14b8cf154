---------------------------- MODULE DriverProofs ----------------------------
(***************************************************************************)
(* What holds of a test program for any command lines, files, suites and   *)
(* failing allocations: it implements TestFrame, its options are what the  *)
(* command line and the file ask for, and it loses memory in the known     *)
(* places only.  What miniconf promises is taken from ReadProofs.          *)
(***************************************************************************)
EXTENDS DriverProps, TLAPS

Cfg == INSTANCE ReadProofs WITH
    fault <- cfg_fault, result <- cfg_result,
    OptionLists <- {Options}, ArgVectors <- Vectors, ConfigFiles <- {Files[path] : path \in DOMAIN Files},
    Keys <- {}, Numbers <- {}, Strings <- {}, MaxCells <- NULL, MaxLives <- 1

(* What miniconf assumes is assumed. *)
LEMMA CfgAssumes == Cfg!HeapAssumption /\ Cfg!DataAssumption /\ Cfg!ClientAssumption
BY DriverAssumption
   DEF Cfg!HeapAssumption, Conf!HeapAssumption, Cfg!DataAssumption, Conf!DataAssumption,
       Cfg!Marks, Conf!Marks, Cfg!ClientAssumption, Conf!ClientAssumption,
       Cfg!Option, Conf!Option, Cfg!ValueType, Conf!ValueType, Cfg!Line, Conf!Line,
       Cfg!LineKind, Conf!LineKind, Cfg!Block, Conf!Block, Cfg!Ptr, Conf!Ptr,
       Cfg!Switches, Conf!Switches

-----------------------------------------------------------------------------
(* The operators of miniconf, as TestDriver and ReadProofs name them.      *)
LEMMA FindIs ==
    \A key : /\ Conf!cfg_find(key) = Cfg!cfg_find(key)
             /\ Conf!cfg_type(key) = Cfg!cfg_type(key)
             /\ Conf!Crashes(key) <=> Cfg!Crashes(key)
<1>1. \A key : Conf!cfg_find(key) = Cfg!cfg_find(key)
  BY DEF Conf!cfg_find, Cfg!cfg_find, Conf!StopsAt, Cfg!StopsAt, Conf!Live, Cfg!Live,
         Conf!Matches, Cfg!Matches, Conf!Min, Cfg!Min
<1>. QED  BY <1>1 DEF Conf!cfg_type, Cfg!cfg_type, Conf!Crashes, Cfg!Crashes, Conf!Live, Cfg!Live

LEMMA ValueIs == \A k : Conf!ValueOf(k) = Cfg!ValueOf(k)
BY DEF Conf!ValueOf, Cfg!ValueOf

LEMMA CopyIs ==
    /\ \A m, s, ok : Conf!cfg_copy_string(m, s, ok) = Cfg!cfg_copy_string(m, s, ok)
    /\ \A s, new : Conf!Refused(s, new) <=> Cfg!Refused(s, new)
    /\ Conf!Grant = Cfg!Grant
    /\ \A m, ptrs : Conf!cfgFREE(m, ptrs) = Cfg!cfgFREE(m, ptrs)
    /\ \A m, ptr : Conf!Live(m, ptr) <=> Cfg!Live(m, ptr)
BY DEF Conf!cfg_copy_string, Cfg!cfg_copy_string, Conf!cfgALLOC, Cfg!cfgALLOC, Conf!Refused, Cfg!Refused,
       Conf!Grant, Cfg!Grant, Conf!cfgFREE, Cfg!cfgFREE, Conf!Live, Cfg!Live

LEMMA OwnedIs == Conf!Owned = Cfg!Owned
BY DEF Conf!Owned, Cfg!Owned, Conf!Owners, Cfg!Owners, Conf!OptionOwners, Cfg!OptionOwners,
       Conf!ArgOwners, Cfg!ArgOwners, Conf!AllBlocks, Cfg!AllBlocks, Conf!Points, Cfg!Points

LEMMA InitIs == Conf!Init <=> Cfg!Init
BY DEF Conf!Init, Cfg!Init

USE DEF Conf!heapVars, Cfg!heapVars, Conf!argVars, Cfg!argVars, Conf!fileVars, Cfg!fileVars,
        Conf!callVars, Cfg!callVars, Conf!lifeVars, Cfg!lifeVars

LEMMA ControlIs ==
    /\ Conf!Idle <=> Cfg!Idle
    /\ \A c : Conf!In(c) <=> Cfg!In(c)
    /\ Conf!More <=> Cfg!More
    /\ Conf!Advance <=> Cfg!Advance
    /\ \A c, in, n : Conf!Enter(c, in, n) <=> Cfg!Enter(c, in, n)
    /\ \A r : Conf!Return(r) <=> Cfg!Return(r)
    /\ \A how : Conf!Halt(how) <=> Cfg!Halt(how)
BY DEF Conf!Idle, Cfg!Idle, Conf!In, Cfg!In, Conf!More, Cfg!More, Conf!Advance, Cfg!Advance,
       Conf!Enter, Cfg!Enter, Conf!Return, Cfg!Return, Conf!Halt, Cfg!Halt

LEMMA LifeIs ==
    /\ Conf!cfg_init <=> Cfg!cfg_init
    /\ Conf!cfg_exit <=> Cfg!cfg_exit
    /\ Conf!ExitCrashes <=> Cfg!ExitCrashes
<1>1. Conf!cfg_init <=> Cfg!cfg_init
  BY ControlIs DEF Conf!cfg_init, Cfg!cfg_init
<1>2. \A slot : Conf!Disposed(slot) = Cfg!Disposed(slot)
  BY DEF Conf!Disposed, Cfg!Disposed
<1>3. Conf!cfg_exit <=> Cfg!cfg_exit
  BY ControlIs, OwnedIs, CopyIs, <1>2 DEF Conf!cfg_exit, Cfg!cfg_exit
<1>4. Conf!ExitCrashes <=> Cfg!ExitCrashes
  BY ControlIs, OwnedIs, CopyIs DEF Conf!ExitCrashes, Cfg!ExitCrashes
<1>. QED  BY <1>1, <1>3, <1>4

LEMMA AddIs ==
    /\ \A list : Conf!AddOptions(list) <=> Cfg!AddOptions(list)
    /\ Conf!StoreStep <=> Cfg!StoreStep
<1>1. \A list : Conf!AddOptions(list) <=> Cfg!AddOptions(list)
  BY ControlIs DEF Conf!AddOptions, Cfg!AddOptions
<1>2. \A o : Conf!Storable(o) <=> Cfg!Storable(o)
  BY FindIs DEF Conf!Storable, Cfg!Storable
<1>3. \A o, ok : Conf!cfg_store(o, ok) <=> Cfg!cfg_store(o, ok)
  BY DEF Conf!cfg_store, Cfg!cfg_store, Conf!cfg_copy_string, Cfg!cfg_copy_string,
         Conf!cfgALLOC, Cfg!cfgALLOC, Conf!Refused, Cfg!Refused, Conf!Complete, Cfg!Complete,
         Conf!Advance, Cfg!Advance, Conf!Return, Cfg!Return
<1>4. Conf!StoreOption <=> Cfg!StoreOption
  BY ControlIs, CopyIs, <1>2, <1>3 DEF Conf!StoreOption, Cfg!StoreOption
<1>5. Conf!StoreHalts <=> Cfg!StoreHalts
  BY ControlIs, FindIs, <1>2 DEF Conf!StoreHalts, Cfg!StoreHalts
<1>6. Conf!AddOptionsReturns <=> Cfg!AddOptionsReturns
  BY ControlIs DEF Conf!AddOptionsReturns, Cfg!AddOptionsReturns
<1>. QED  BY <1>1, <1>4, <1>5, <1>6 DEF Conf!StoreStep, Cfg!StoreStep

LEMMA AssignIs ==
    /\ \A o, n : Conf!SetNumber(o, n) <=> Cfg!SetNumber(o, n)
    /\ \A o, s : Conf!Assign(o, s) <=> Cfg!Assign(o, s)
    /\ \A o, s : Conf!ReplaceString(o, s) <=> Cfg!ReplaceString(o, s)
    /\ \A type, s : Conf!Number(type, s) = Cfg!Number(type, s)
<1>1. \A o, n : Conf!SetNumber(o, n) <=> Cfg!SetNumber(o, n)
  BY ControlIs DEF Conf!SetNumber, Cfg!SetNumber
<1>2. \A m, o, s, ok : Conf!SetString(m, o, s, ok) <=> Cfg!SetString(m, o, s, ok)
  BY CopyIs DEF Conf!SetString, Cfg!SetString
<1>3. \A type, s : Conf!Number(type, s) = Cfg!Number(type, s)
  BY DEF Conf!Number, Cfg!Number
<1>4. \A o, s : Conf!Assign(o, s) <=> Cfg!Assign(o, s)
  BY CopyIs, <1>1, <1>2, <1>3 DEF Conf!Assign, Cfg!Assign
<1>5. \A o, s : Conf!ReplaceString(o, s) <=> Cfg!ReplaceString(o, s)
  BY CopyIs, <1>2 DEF Conf!ReplaceString, Cfg!ReplaceString
<1>. QED  BY <1>1, <1>3, <1>4, <1>5

LEMMA ArgsIs ==
    /\ \A args : Conf!ReadArgs(args) <=> Cfg!ReadArgs(args)
    /\ \A args : Conf!ReadArgsHalts(args) <=> Cfg!ReadArgsHalts(args)
    /\ Conf!ArgStep <=> Cfg!ArgStep
<1>1. \A args : Conf!ReadArgs(args) <=> Cfg!ReadArgs(args)
  BY ControlIs, CopyIs DEF Conf!ReadArgs, Cfg!ReadArgs, Conf!Admissible, Cfg!Admissible,
     Conf!cfgALLOC, Cfg!cfgALLOC, Conf!NewBlock, Cfg!NewBlock, Conf!FirstArg, Cfg!FirstArg
<1>2. \A args : Conf!ReadArgsHalts(args) <=> Cfg!ReadArgsHalts(args)
  BY ControlIs DEF Conf!ReadArgsHalts, Cfg!ReadArgsHalts, Conf!Admissible, Cfg!Admissible
<1>3. /\ Conf!Arg = Cfg!Arg /\ Conf!Key = Cfg!Key /\ (Conf!InArgs <=> Cfg!InArgs)
      /\ Conf!LooksUp <=> Cfg!LooksUp
      /\ \A mark : Conf!Normal(mark) <=> Cfg!Normal(mark)
      /\ \A s : Conf!Copy(s) <=> Cfg!Copy(s)
      /\ \A r : Conf!Finish(r) <=> Cfg!Finish(r)
      /\ Conf!Capturing = Cfg!Capturing
  <2>1. /\ Conf!Arg = Cfg!Arg /\ Conf!Capturing = Cfg!Capturing /\ (Conf!InArgs <=> Cfg!InArgs)
    BY ControlIs DEF Conf!Arg, Cfg!Arg, Conf!Capturing, Cfg!Capturing, Conf!InArgs, Cfg!InArgs
  <2>2. Conf!Key = Cfg!Key /\ (Conf!LooksUp <=> Cfg!LooksUp)
    BY <2>1 DEF Conf!Key, Cfg!Key, Conf!LooksUp, Cfg!LooksUp
  <2>3. \A mark : Conf!Normal(mark) <=> Cfg!Normal(mark)
    BY <2>1, FindIs DEF Conf!Normal, Cfg!Normal
  <2>4. \A s : Conf!Copy(s) <=> Cfg!Copy(s)
    BY CopyIs DEF Conf!Copy, Cfg!Copy
  <2>5. \A r : Conf!Finish(r) <=> Cfg!Finish(r)
    BY ControlIs DEF Conf!Finish, Cfg!Finish
  <2>. QED  BY <2>1, <2>2, <2>3, <2>4, <2>5
<1>4. /\ Conf!ArgSwitchOff <=> Cfg!ArgSwitchOff
      /\ Conf!ArgRefused <=> Cfg!ArgRefused
      /\ Conf!ArgSwitchOn <=> Cfg!ArgSwitchOn
  BY <1>3, ControlIs, FindIs, AssignIs
     DEF Conf!ArgSwitchOff, Cfg!ArgSwitchOff, Conf!ArgRefused, Cfg!ArgRefused,
         Conf!ArgSwitchOn, Cfg!ArgSwitchOn
<1>5. /\ Conf!ArgCapture <=> Cfg!ArgCapture
      /\ Conf!ArgCopied <=> Cfg!ArgCopied
  BY <1>3, ControlIs, FindIs DEF Conf!ArgCapture, Cfg!ArgCapture, Conf!ArgCopied, Cfg!ArgCopied
<1>6. /\ Conf!ArgValue <=> Cfg!ArgValue
      /\ Conf!ArgCrashes <=> Cfg!ArgCrashes
      /\ Conf!ArgsReturn <=> Cfg!ArgsReturn
  BY <1>3, ControlIs, FindIs, AssignIs
     DEF Conf!ArgValue, Cfg!ArgValue, Conf!ArgCrashes, Cfg!ArgCrashes, Conf!ArgsReturn, Cfg!ArgsReturn
<1>. QED  BY <1>1, <1>2, <1>4, <1>5, <1>6 DEF Conf!ArgStep, Cfg!ArgStep

LEMMA FileIs ==
    /\ \A lines : Conf!ReadFile(lines) <=> Cfg!ReadFile(lines)
    /\ \A lines : Conf!ReadFileMissing(lines) <=> Cfg!ReadFileMissing(lines)
    /\ \A lines : Conf!ReadFileNoBuffer(lines) <=> Cfg!ReadFileNoBuffer(lines)
    /\ Conf!LineStep <=> Cfg!LineStep
<1>1. \A lines : Conf!Opens(lines) <=> Cfg!Opens(lines)
  BY DEF Conf!Opens, Cfg!Opens
<1>2. /\ \A lines : Conf!ReadFile(lines) <=> Cfg!ReadFile(lines)
      /\ \A lines : Conf!ReadFileMissing(lines) <=> Cfg!ReadFileMissing(lines)
      /\ \A lines : Conf!ReadFileNoBuffer(lines) <=> Cfg!ReadFileNoBuffer(lines)
  BY <1>1, ControlIs
     DEF Conf!ReadFile, Cfg!ReadFile, Conf!ReadFileMissing, Cfg!ReadFileMissing,
         Conf!ReadFileNoBuffer, Cfg!ReadFileNoBuffer, Conf!cfgALLOC, Cfg!cfgALLOC
<1>3. /\ Conf!TheLine = Cfg!TheLine /\ Conf!Capturing = Cfg!Capturing
      /\ \A kinds : Conf!At(kinds) <=> Cfg!At(kinds)
      /\ Conf!Known <=> Cfg!Known
      /\ \A r : Conf!Close(r) <=> Cfg!Close(r)
  <2>1. Conf!TheLine = Cfg!TheLine /\ Conf!Capturing = Cfg!Capturing
    BY DEF Conf!TheLine, Cfg!TheLine, Conf!Capturing, Cfg!Capturing
  <2>2. \A kinds : Conf!At(kinds) <=> Cfg!At(kinds)
    BY <2>1, ControlIs DEF Conf!At, Cfg!At
  <2>3. Conf!Known <=> Cfg!Known
    BY <2>1, FindIs DEF Conf!Known, Cfg!Known
  <2>4. \A r : Conf!Close(r) <=> Cfg!Close(r)
    BY ControlIs, CopyIs DEF Conf!Close, Cfg!Close
  <2>. QED  BY <2>1, <2>2, <2>3, <2>4
<1>4. Conf!LineSwitch <=> Cfg!LineSwitch
  BY <1>3, ControlIs, FindIs, AssignIs DEF Conf!LineSwitch, Cfg!LineSwitch
<1>5. Conf!LineValue <=> Cfg!LineValue
  BY <1>3, ControlIs, FindIs, AssignIs DEF Conf!LineValue, Cfg!LineValue
<1>6. (Conf!LineSkipped <=> Cfg!LineSkipped) /\ (Conf!LineRefused <=> Cfg!LineRefused)
  BY <1>3, ControlIs, FindIs DEF Conf!LineSkipped, Cfg!LineSkipped, Conf!LineRefused, Cfg!LineRefused
<1>7. /\ Conf!LineHalts <=> Cfg!LineHalts
      /\ Conf!LineCrashes <=> Cfg!LineCrashes
      /\ Conf!FileReturns <=> Cfg!FileReturns
  BY <1>3, ControlIs, FindIs
     DEF Conf!LineHalts, Cfg!LineHalts, Conf!LineCrashes, Cfg!LineCrashes,
         Conf!FileReturns, Cfg!FileReturns
<1>. QED  BY <1>2, <1>4, <1>5, <1>6, <1>7 DEF Conf!LineStep, Cfg!LineStep

HIDE DEF Conf!heapVars, Cfg!heapVars, Conf!argVars, Cfg!argVars, Conf!fileVars, Cfg!fileVars,
         Conf!callVars, Cfg!callVars, Conf!lifeVars, Cfg!lifeVars

-----------------------------------------------------------------------------
(* miniconf keeps its invariant up to cfg_exit: every step of the program  *)
(* is one of miniconf, or leaves it alone, but for the copy of the focus.  *)
Linked == IF at = "run" THEN mem \in Seq(Cfg!Content) ELSE Cfg!LibraryInvariant

ProgramInvariant == DriverInvariant /\ Linked

(* The options TFR_args asks for. *)
LEMMA OptionFacts ==
    /\ Options \in Seq(Cfg!Option) /\ Len(Options) = 5 /\ DOMAIN Options = 1..5
    /\ \A k \in 1..5 : Options[k] \in Cfg!Option /\ Options[k].name \in Text
    /\ Options[1].name = "help" /\ Options[2].name = "?" /\ Options[3].name = "argfile"
    /\ Options[4].name = "focus" /\ Options[5].name = "verbosity"
    /\ Options[1].type = "SWITCH" /\ Options[2].type = "SWITCH" /\ Options[3].type = "STRING"
    /\ Options[4].type = "STRING" /\ Options[5].type = "INT"
    /\ \A k \in 1..5 : Options[k].num = 0 /\ Options[k].str = NULL
<1>1. Options \in Seq(Cfg!Option)
  BY CfgAssumes DEF Cfg!ClientAssumption
<1>2. Len(Options) = 5 /\ DOMAIN Options = 1..5
  BY DEF Options
<1>3. \A k \in 1..5 : Options[k] \in Cfg!Option
  <2>1. \A S, seq : seq \in Seq(S) => \A k \in 1..Len(seq) : seq[k] \in S
    OBVIOUS
  <2>. QED  BY <1>1, <1>2, <2>1, Zenon
<1>4. \A k \in 1..5 : Options[k].name \in Text
  BY <1>3 DEF Cfg!Option
<1>. QED  BY <1>1, <1>2, <1>3, <1>4 DEF Options, OptionOf

LEMMA StoredIs == \A k, o : Args!StoredAs(k, o) <=> Cfg!StoredAs(k, o)
BY DEF Args!StoredAs, Cfg!StoredAs, Args!Live, Cfg!Live

(* Each of them is found by its name, and has a value of its type. *)
LEMMA StockedFacts ==
    ASSUME Cfg!LibraryInvariant, StockedTo(5)
    PROVE  /\ ~Cfg!Nameless /\ Cfg!Intact
           /\ \A k \in 1..5 : /\ Conf!cfg_find(Options[k].name) = k
                             /\ opts[k].type = Options[k].type
                             /\ Conf!cfg_type(Options[k].name) = Options[k].type
                             /\ Conf!Live(mem, opts[k].name)
                             /\ Cfg!Legal(Options[k].type, Conf!ValueOf(k))
<1>1. /\ Cfg!TypeOK /\ Cfg!NamesApart /\ Cfg!Valued /\ Cfg!Whole /\ Len(opts) = 5
      /\ mem \in Seq(Cfg!Content) /\ opts \in Seq(Cfg!Slot) /\ DOMAIN opts = 1..5
  BY DEF Cfg!LibraryInvariant, Cfg!Naming, StockedTo, Cfg!TypeOK
<1>2. Cfg!NameLookup
  BY <1>1, CfgAssumes, Cfg!NamingLookup
<1>3. ASSUME NEW k \in 1..5
      PROVE  /\ Cfg!Live(mem, opts[k].name) /\ mem[opts[k].name] = Options[k].name
             /\ opts[k].type = Options[k].type
  BY StoredIs DEF StockedTo, Cfg!StoredAs
<1>4. ~Cfg!Nameless
  <2>1. NULL \notin DOMAIN mem
    BY <1>1, CfgAssumes DEF Cfg!HeapAssumption
  <2>. QED  BY <1>3, <2>1 DEF Cfg!Nameless, Cfg!Live
<1>5. Cfg!Intact
  BY <1>1, <1>4 DEF Cfg!Whole
<1>6. ASSUME NEW k \in 1..5
      PROVE  /\ Conf!cfg_find(Options[k].name) = k
             /\ Conf!cfg_type(Options[k].name) = Options[k].type
             /\ Conf!Live(mem, opts[k].name)
             /\ Cfg!Legal(Options[k].type, Conf!ValueOf(k))
  <2>1. Cfg!cfg_find(Options[k].name) = k
    BY <1>1, <1>2, <1>3 DEF Cfg!NameLookup
  <2>2. Cfg!cfg_type(Options[k].name) = Options[k].type
    BY <1>3, <2>1 DEF Cfg!cfg_type
  <2>3. Cfg!Legal(Options[k].type, Cfg!ValueOf(k))
    BY <1>1, <1>3, <1>4 DEF Cfg!Valued
  <2>. QED  BY <1>3, <2>1, <2>2, <2>3, FindIs, ValueIs, CopyIs
<1>. QED  BY <1>3, <1>4, <1>5, <1>6

(* strdup: nothing but a cell is added, which holds the string. *)
LEMMA CopiedFacts ==
    ASSUME mem \in Seq(Cfg!Content), failed \in BOOLEAN,
           NEW f \in Text \cup {NULL}, NEW ok \in Conf!Grant, Copied(f, ok)
    PROVE  /\ Cfg!Extends(mem, mem') /\ failed' \in BOOLEAN /\ (failed => failed')
           /\ \A a \in Len(mem) + 1 .. Len(mem') : mem'[a] # Freed /\ a = copy'
           /\ IF f # NULL /\ ok THEN copy' = Len(mem) + 1 /\ Len(mem') = Len(mem) + 1
              ELSE copy' = NULL /\ mem' = mem
           /\ f # NULL /\ ~ok => failed'
<1>. DEFINE new == Cfg!cfg_copy_string(mem, f, ok)
<1>1. copy' = new.ptr /\ mem' = new.mem /\ failed' = (failed \/ Cfg!Refused(f, new))
  BY CopyIs DEF Copied
<1>2. ok \in BOOLEAN
  BY DEF Conf!Grant
<1>3. Cfg!Extends(mem, new.mem)
  BY <1>2, CfgAssumes, Cfg!CopyExtends
<1>4. new = IF f # NULL /\ ok THEN [mem |-> Append(mem, f), ptr |-> Len(mem) + 1]
                              ELSE [mem |-> mem, ptr |-> NULL]
  BY <1>2 DEF Cfg!cfg_copy_string, Cfg!cfgALLOC
<1>. HIDE DEF new
<1>5. CASE f # NULL /\ ok
  <2>1. copy' = Len(mem) + 1 /\ mem' = Append(mem, f) /\ f \in Cfg!Content /\ f # Freed
    BY <1>1, <1>4, <1>5, CfgAssumes DEF Cfg!Content, Cfg!HeapAssumption
  <2>2. Len(mem') = Len(mem) + 1 /\ mem'[Len(mem) + 1] = f /\ Len(mem) \in Nat
    BY <2>1
  <2>3. \A a \in Len(mem) + 1 .. Len(mem') : a = Len(mem) + 1
    BY <2>2
  <2>. QED  BY <1>1, <1>3, <1>5, <2>1, <2>2, <2>3 DEF Cfg!Refused
<1>6. CASE ~(f # NULL /\ ok)
  <2>1. copy' = NULL /\ mem' = mem /\ (f # NULL => failed')
    BY <1>1, <1>4, <1>6 DEF Cfg!Refused
  <2>2. Len(mem) + 1 .. Len(mem') = {}
    BY <2>1
  <2>. QED  BY <1>1, <1>3, <1>6, <2>1, <2>2 DEF Cfg!Refused
<1>. QED  BY <1>5, <1>6

(* When the values are taken, every option is there and has one of its type. *)
LEMMA ValuesTaken ==
    ASSUME ProgramInvariant, at \in {"args", "reading", "argfile", "file", "values"}
    PROVE  /\ Cfg!LibraryInvariant /\ StockedTo(5)
           /\ Value("argfile") \in Text \cup {NULL} /\ Value("focus") \in Text \cup {NULL}
<1>1. Cfg!LibraryInvariant /\ StockedTo(5)
  BY OptionFacts DEF ProgramInvariant, Linked, DriverInvariant, Stocked
<1>2. /\ \A k \in {3, 4} : Cfg!Legal("STRING", Conf!ValueOf(k))
      /\ Conf!cfg_find("argfile") = 3 /\ Conf!cfg_find("focus") = 4
  BY <1>1, StockedFacts, OptionFacts
<1>. QED  BY <1>1, <1>2 DEF Value, Cfg!Legal

LEMMA SameLibrary == UNCHANGED confVars => UNCHANGED Cfg!vars
BY DEF confVars, tableVars, Cfg!vars, Cfg!heapVars, Cfg!argVars, Cfg!fileVars, Cfg!callVars, Cfg!lifeVars

(* The report and cfg_exit find every pointer live. *)
LEMMA EndsWell ==
    ASSUME ProgramInvariant
    PROVE  ~(Report /\ Conf!Halt("undefined")) /\ ~Conf!ExitCrashes
<1>1. ASSUME Report, Conf!Halt("undefined") PROVE FALSE
  <2>1. at = "report" /\ cfg_fault = "none" /\ help
    BY <1>1 DEF Report, ProgramInvariant, DriverInvariant, Focused
  <2>2. Cfg!LibraryInvariant /\ StockedTo(5)
    BY <2>1, OptionFacts DEF ProgramInvariant, Linked, DriverInvariant, Stocked
  <2>3. Len(shown) + 1 \in 1..5
    BY <1>1, <2>2 DEF Report, StockedTo, ProgramInvariant, DriverInvariant, Control
  <2>4. Conf!Live(mem, opts[Len(shown) + 1].name)
    BY <2>2, <2>3, StockedFacts
  <2>. QED  BY <1>1, <2>1, <2>4 DEF Report, Conf!Halt, confVars, tableVars
<1>2. ASSUME Conf!ExitCrashes PROVE FALSE
  <2>1. initialized /\ \E ptr \in Cfg!Owned : ~Cfg!Live(mem, ptr)
    BY <1>2, OwnedIs, CopyIs DEF Conf!ExitCrashes, Conf!Idle
  <2>2. at \notin {"init", "run"} /\ lives = 1
    BY <2>1 DEF ProgramInvariant, DriverInvariant, Control
  <2>3. Cfg!OwnedOnce
    BY <2>2 DEF ProgramInvariant, Linked, Cfg!LibraryInvariant, Cfg!MemoryInvariant
  <2>. QED  BY <2>1, <2>2, <2>3 DEF Cfg!OwnedOnce
<1>. QED  BY <1>1, <1>2

(* Everything but strdup and what follows cfg_exit is a step of miniconf. *)
LEMMA LibraryMoves ==
    ASSUME ProgramInvariant, [Next]_vars, at # "run"
    PROVE  TakeValues \/ [Cfg!Next]_(Cfg!vars)
<1>1. CASE UNCHANGED confVars
  BY <1>1, SameLibrary
<1>2. CASE UNCHANGED vars \/ TakeNone \/ TFR_main \/ TFR_run \/ Reported
  <2>1. UNCHANGED confVars
    BY <1>2 DEF vars, TakeNone, TFR_main, TFR_run, Reported, FrameStep, ConfStep
  <2>. QED  BY <2>1, SameLibrary
<1>3. CASE InitConfig
  <2>1. Cfg!cfg_init
    BY <1>3, LifeIs DEF InitConfig, ConfStep
  <2>. QED  BY <2>1 DEF Cfg!Next, Cfg!ClientStep
<1>4. CASE AddOptions
  <2>1. Cfg!AddOptions(Options)
    BY <1>4, AddIs DEF AddOptions, ConfStep
  <2>. QED  BY <2>1 DEF Cfg!Next, Cfg!ClientStep, Cfg!Room
<1>5. CASE StoreOptions
  <2>1. Cfg!StoreStep
    BY <1>5, AddIs DEF StoreOptions, ConfStep
  <2>. QED  BY <2>1 DEF Cfg!Next
<1>6. CASE ReadArgs
  <2>1. argv \in Vectors
    BY DEF ProgramInvariant, DriverInvariant, Control
  <2>2. Cfg!ReadArgs(argv) \/ Cfg!ReadArgsHalts(argv)
    BY <1>6, ArgsIs DEF ReadArgs, ConfStep
  <2>. QED  BY <2>1, <2>2 DEF Cfg!Next, Cfg!ClientStep, Cfg!Room
<1>7. CASE ReadArg
  <2>1. Cfg!ArgStep
    BY <1>7, ArgsIs DEF ReadArg, ConfStep
  <2>. QED  BY <2>1 DEF Cfg!Next
<1>8. CASE ReadFile
  <2>. DEFINE path == Value("argfile")
  <2>1. at = "argfile" /\ path \in Text \cup {NULL}
    BY <1>8, ValuesTaken DEF ReadFile, ConfStep
  <2>2. CASE path = NULL
    <3>1. UNCHANGED confVars
      BY <1>8, <2>2 DEF ReadFile, ConfStep
    <3>. QED  BY <3>1, SameLibrary
  <2>3. CASE path # NULL
    <3>1. DOMAIN Files = Text
      BY DriverAssumption
    <3>2. Files[path] \in {Files[p] : p \in DOMAIN Files}
      BY <2>1, <2>3, <3>1
    <3>3. Conf!ReadFile(Files[path]) \/ Conf!ReadFileMissing(Files[path]) \/ Conf!ReadFileNoBuffer(Files[path])
      BY <1>8, <2>3 DEF ReadFile, ConfStep
    <3>. HIDE DEF path
    <3>4. Cfg!ReadFile(Files[path]) \/ Cfg!ReadFileMissing(Files[path]) \/ Cfg!ReadFileNoBuffer(Files[path])
      BY <3>3, FileIs
    <3>. QED  BY <3>2, <3>4 DEF Cfg!Next, Cfg!ClientStep, Cfg!Room
  <2>. QED  BY <2>2, <2>3
<1>9. CASE ReadLine
  <2>1. Cfg!LineStep
    BY <1>9, FileIs DEF ReadLine, ConfStep
  <2>. QED  BY <2>1 DEF Cfg!Next
<1>10. CASE Report
  <2>1. UNCHANGED confVars \/ Conf!Halt("undefined")
    BY <1>10 DEF Report
  <2>. QED  BY <1>1, <1>10, <2>1, EndsWell
<1>11. CASE ExitConfig
  <2>1. Cfg!cfg_exit
    BY <1>11, EndsWell, LifeIs DEF ExitConfig
  <2>. QED  BY <2>1 DEF Cfg!Next, Cfg!ClientStep
<1>12. ~RunStep
  BY DEF RunStep
<1>. QED  BY <1>2, <1>3, <1>4, <1>5, <1>6, <1>7, <1>8, <1>9, <1>10, <1>11, <1>12 DEF Next, ArgsStep

LEMMA TakeAllocates ==
    ASSUME ProgramInvariant, TakeValues
    PROVE  /\ Cfg!LibraryInvariant /\ Cfg!ClientAllocates
           /\ \A a \in Len(mem) + 1 .. Len(mem') : mem'[a] # Freed /\ a = copy'
           /\ \E ok \in Conf!Grant :
                 LET stored == Frame!StoredFocus(FocusRead, ok)
                 IN  /\ focus' = stored.focus /\ storage' = stored.storage
                     /\ IF FocusRead # NULL /\ ok THEN copy' = Len(mem) + 1 /\ Len(mem') = Len(mem) + 1
                        ELSE copy' = NULL /\ mem' = mem
                     /\ FocusRead # NULL /\ ~ok => failed'
<1>1. at = "values" /\ Cfg!LibraryInvariant /\ FocusRead \in Text \cup {NULL} /\ call = "none"
  BY ValuesTaken DEF TakeValues, FocusRead, ProgramInvariant, DriverInvariant, Control
<1>2. mem \in Seq(Cfg!Content) /\ failed \in BOOLEAN
  BY <1>1 DEF Cfg!LibraryInvariant, Cfg!TypeOK
<1>3. PICK ok \in Conf!Grant :
         LET stored == Frame!StoredFocus(FocusRead, ok)
         IN  /\ focus' = stored.focus /\ storage' = stored.storage /\ Copied(FocusRead, ok)
  BY DEF TakeValues
<1>. DEFINE f == FocusRead
<1>4. f \in Text \cup {NULL} /\ Copied(f, ok)
  BY <1>1, <1>3
<1>. HIDE DEF f
<1>5. /\ Cfg!Extends(mem, mem') /\ failed' \in BOOLEAN /\ (failed => failed')
      /\ \A a \in Len(mem) + 1 .. Len(mem') : mem'[a] # Freed /\ a = copy'
      /\ IF f # NULL /\ ok THEN copy' = Len(mem) + 1 /\ Len(mem') = Len(mem) + 1
         ELSE copy' = NULL /\ mem' = mem
      /\ f # NULL /\ ~ok => failed'
  BY <1>2, <1>4, CopiedFacts
<1>6. UNCHANGED tableVars
  BY DEF TakeValues
<1>7. Cfg!ClientAllocates
  BY <1>1, <1>5, <1>6 DEF Cfg!ClientAllocates, tableVars, Cfg!argVars, Cfg!fileVars, Cfg!callVars, Cfg!lifeVars
<1>. QED  BY <1>1, <1>3, <1>5, <1>7 DEF f

LEMMA LibraryKept ==
    ASSUME ProgramInvariant, [Next]_vars, at # "run"
    PROVE  Cfg!LibraryInvariant'
<1>1. Cfg!LibraryInvariant
  BY DEF ProgramInvariant, Linked
<1>2. CASE TakeValues
  BY <1>2, TakeAllocates, CfgAssumes, Cfg!ClientKeepsLibrary
<1>3. CASE [Cfg!Next]_(Cfg!vars)
  BY <1>1, <1>3, CfgAssumes, Cfg!LibraryStep
<1>. QED  BY <1>2, <1>3, LibraryMoves

LEMMA LinkedKept ==
    ASSUME ProgramInvariant, [Next]_vars
    PROVE  Linked'
<1>1. CASE at # "run"
  <2>1. Cfg!LibraryInvariant'
    BY <1>1, LibraryKept
  <2>2. mem' \in Seq(Cfg!Content)
    BY <2>1 DEF Cfg!LibraryInvariant, Cfg!TypeOK
  <2>. QED  BY <2>1, <2>2 DEF Linked
<1>2. CASE at = "run"
  <2>1. mem \in Seq(Cfg!Content)
    BY <1>2 DEF ProgramInvariant, Linked
  <2>2. UNCHANGED mem \/ mem' = Cfg!cfgFREE(mem, FreedAtEnd)
    BY <1>2, CopyIs DEF Next, vars, confVars, ArgsStep, InitConfig, AddOptions, StoreOptions, ReadArgs, ReadArg,
       ReadFile, ReadLine, TakeValues, TakeNone, TFR_main, TFR_run, Report, Reported, ExitConfig, RunStep,
       ConfStep, FrameStep
  <2>3. mem' \in Seq(Cfg!Content)
    BY <2>1, <2>2, CfgAssumes, Cfg!FreeFacts
  <2>4. at' = "run"
    BY <1>2 DEF Next, vars, ArgsStep, InitConfig, AddOptions, StoreOptions, ReadArgs, ReadArg,
       ReadFile, ReadLine, TakeValues, TakeNone, TFR_main, TFR_run, Report, Reported, ExitConfig, RunStep,
       ConfStep, FrameStep
  <2>. QED  BY <2>3, <2>4 DEF Linked
<1>. QED  BY <1>1, <1>2

-----------------------------------------------------------------------------
(* Where the program stands says which call of miniconf runs.              *)

(* A step of a loop of miniconf goes on in the call, or returns from it. *)
LEMMA LoopSteps ==
    ASSUME Conf!StoreStep \/ Conf!ArgStep \/ Conf!LineStep
    PROVE  /\ UNCHANGED <<initialized, lives>> /\ cfg_fault = "none"
           /\ UNCHANGED <<call, input>> \/ (call' = "none" /\ cfg_fault' = "none")
<1>1. CASE Conf!StoreStep
  BY <1>1 DEF Conf!StoreStep, Conf!StoreOption, Conf!StoreHalts, Conf!AddOptionsReturns, Conf!cfg_store,
     Conf!In, Conf!Advance, Conf!Return, Conf!Halt, Conf!callVars, Conf!lifeVars
<1>2. CASE Conf!ArgStep
  BY <1>2 DEF Conf!ArgStep, Conf!ArgSwitchOff, Conf!ArgRefused, Conf!ArgSwitchOn, Conf!ArgCapture,
     Conf!ArgCopied, Conf!ArgValue, Conf!ArgCrashes, Conf!ArgsReturn, Conf!Normal, Conf!InArgs, Conf!In,
     Conf!Finish, Conf!Advance, Conf!Return, Conf!Halt, Conf!callVars, Conf!lifeVars
<1>3. CASE Conf!LineStep
  BY <1>3 DEF Conf!LineStep, Conf!LineSwitch, Conf!LineValue, Conf!LineSkipped, Conf!LineRefused,
     Conf!LineHalts, Conf!LineCrashes, Conf!FileReturns, Conf!At, Conf!In, Conf!Close,
     Conf!Advance, Conf!Return, Conf!Halt, Conf!callVars, Conf!lifeVars
<1>. QED  BY <1>1, <1>2, <1>3

(* No line of the report has a name for its option's type. *)
LEMMA ReportPrints ==
    ASSUME ProgramInvariant, Report
    PROVE  UNCHANGED confVars /\ shown' \in Seq({NULL})
<1>1. UNCHANGED confVars /\ Len(shown) < Len(opts)
      /\ shown' = Append(shown, cfg_value_type_name(TypeCode(opts[Len(shown) + 1])))
  BY EndsWell DEF Report
<1>2. shown \in Seq({NULL}) /\ Cfg!TypeOK
  BY DEF Report, ProgramInvariant, DriverInvariant, Control, Linked, Cfg!LibraryInvariant
<1>3. opts[Len(shown) + 1] \in Cfg!Slot
  <2>1. opts \in Seq(Cfg!Slot) /\ Len(shown) \in Nat
    BY <1>2 DEF Cfg!TypeOK
  <2>2. Len(shown) + 1 \in 1..Len(opts)
    BY <1>1, <2>1
  <2>. QED  BY <2>1, <2>2
<1>4. TypeCode(opts[Len(shown) + 1]) \in Nat
  BY <1>3 DEF TypeCode, Cfg!Slot, Cfg!ValueType
<1>5. cfg_value_type_name(TypeCode(opts[Len(shown) + 1])) = NULL
  BY <1>4 DEF cfg_value_type_name, NOEXIST, COUNT
<1>. QED  BY <1>1, <1>2, <1>5

LEMMA ControlStep ==
    ASSUME ProgramInvariant, [Next]_vars
    PROVE  Control'
<1>. USE DEF Control
<1>0. Control
  BY DEF ProgramInvariant, DriverInvariant
<1>1. CASE UNCHANGED vars
  BY <1>0, <1>1 DEF vars, confVars, tableVars, frameVars
<1>2. CASE InitConfig
  BY <1>0, <1>2 DEF InitConfig, ConfStep, Conf!cfg_init, Conf!callVars, frameVars, InTFR_args
<1>3. CASE AddOptions
  BY <1>0, <1>3 DEF AddOptions, ConfStep, Conf!AddOptions, Conf!Enter, Conf!lifeVars, frameVars, InTFR_args
<1>4. CASE StoreOptions
  BY <1>0, <1>4, LoopSteps DEF StoreOptions, ConfStep, After, frameVars, InTFR_args
<1>5. CASE ReadArgs
  <2>1. /\ at = "args" /\ UNCHANGED <<phase, argv, shown, initialized, lives>>
        /\ \/ at' = "reading" /\ call' = "read_args" /\ input' = argv /\ UNCHANGED cfg_fault
           \/ at' = "args" /\ UNCHANGED call
    BY <1>5 DEF ReadArgs, ConfStep, Conf!ReadArgs, Conf!ReadArgsHalts, Conf!Enter, Conf!Halt,
       Conf!callVars, Conf!lifeVars, frameVars
  <2>. QED  BY <1>0, <2>1 DEF InTFR_args
<1>6. CASE ReadArg
  BY <1>0, <1>6, LoopSteps DEF ReadArg, ConfStep, After, frameVars, InTFR_args
<1>7. CASE ReadFile
  <2>. DEFINE path == Value("argfile")
  <2>1. at = "argfile" /\ path \in Text \cup {NULL}
    BY <1>7, ValuesTaken DEF ReadFile, ConfStep
  <2>2. /\ UNCHANGED <<initialized, lives, cfg_fault, phase, argv, shown>>
        /\ \/ at' = "values" /\ call' = "none"
           \/ path # NULL /\ at' = "file" /\ call' = "read_file" /\ input' = Files[path]
    BY <1>0, <1>7 DEF ReadFile, ConfStep, Conf!ReadFile, Conf!ReadFileMissing, Conf!ReadFileNoBuffer,
       Conf!Enter, Conf!Return, Conf!lifeVars, frameVars, confVars, tableVars
  <2>. HIDE DEF path
  <2>. QED  BY <1>0, <2>1, <2>2 DEF InTFR_args
<1>8. CASE ReadLine
  BY <1>0, <1>8, LoopSteps DEF ReadLine, ConfStep, After, frameVars, InTFR_args
<1>9. CASE TakeValues \/ TakeNone
  BY <1>0, <1>9 DEF TakeValues, TakeNone, confVars, tableVars, InTFR_args
<1>10. CASE TFR_main
  <2>1. UNCHANGED phase
    BY <1>10 DEF TFR_main, FrameStep, Frame!TFR_set_focus, Frame!TFR_SUITE_DECLARE_M, Frame!TFR_SUITE_ADD_M,
       Frame!UnitOverrun, Frame!Halt
  <2>. QED  BY <1>0, <1>10, <2>1 DEF TFR_main, FrameStep, confVars, tableVars, InTFR_args
<1>11. CASE TFR_run \/ Reported
  BY <1>0, <1>11 DEF TFR_run, Reported, FrameStep, ConfStep, confVars, tableVars, frameVars, InTFR_args
<1>12. CASE Report
  <2>1. UNCHANGED confVars /\ shown' \in Seq({NULL}) /\ UNCHANGED <<phase, at, argv>>
    BY <1>12, ReportPrints DEF Report, frameVars
  <2>. QED  BY <1>0, <2>1 DEF confVars, tableVars, InTFR_args
<1>13. CASE ExitConfig
  <2>1. Conf!cfg_exit /\ at' = "run" /\ phase' \in {"run", "done"} /\ at = "exit"
    BY <1>13, EndsWell DEF ExitConfig, Frame!TFR_usage, Frame!TFR_run
  <2>. QED  BY <1>0, <1>13, <2>1 DEF ExitConfig, Conf!cfg_exit, Conf!callVars, InTFR_args
<1>14. CASE RunStep
  <2>1. phase' \in {"run", "done"}
    BY <1>0, <1>14 DEF RunStep, Frame!RunUnit, Frame!ReadsBehind, Frame!EndSuite, Frame!EmptySuite, Frame!FreeCrashes,
       Frame!RunReturns, Frame!Halt, Frame!In, InTFR_args
  <2>. QED  BY <1>0, <1>14, <2>1 DEF RunStep, confVars, tableVars, InTFR_args
<1>. QED  BY <1>1, <1>2, <1>3, <1>4, <1>5, <1>6, <1>7, <1>8, <1>9, <1>10, <1>11, <1>12, <1>13, <1>14 DEF Next, ArgsStep

LEMMA FocusedStep ==
    ASSUME ProgramInvariant, [Next]_vars
    PROVE  Focused'
<1>0. Focused /\ Control /\ Control'
  BY ControlStep DEF ProgramInvariant, DriverInvariant
<1>1. CASE UNCHANGED <<frameVars, copy>> /\ (at' \in InTFR_args => at \in InTFR_args)
             /\ (at' = "report" => at = "report")
  <2>1. UNCHANGED <<focus, storage, verbose, help, fault, copy>>
    BY <1>1 DEF frameVars, suiteVars
  <2>. QED  BY <1>0, <1>1, <2>1 DEF Focused
<1>2. CASE UNCHANGED vars
  BY <1>1, <1>2 DEF vars
<1>3. CASE InitConfig \/ AddOptions \/ StoreOptions \/ ReadArgs \/ ReadArg \/ ReadFile \/ ReadLine \/ Reported
  <2>1. UNCHANGED <<frameVars, copy>>
    BY <1>3 DEF InitConfig, AddOptions, StoreOptions, ReadArgs, ReadArg, ReadFile, ReadLine, Reported, ConfStep
  <2>2. (at' \in InTFR_args => at \in InTFR_args) /\ (at' = "report" => at = "report")
    BY <1>3 DEF InitConfig, AddOptions, StoreOptions, ReadArgs, ReadArg, ReadFile, ReadLine, Reported, ConfStep,
       After, InTFR_args
  <2>. QED  BY <1>1, <2>1, <2>2
<1>4. CASE TakeValues
  <2>1. at = "values" /\ at' = "main" /\ Len(mem) \in Nat /\ NULL \notin Nat
    BY <1>4, TakeAllocates, CfgAssumes
       DEF TakeValues, Cfg!LibraryInvariant, Cfg!TypeOK, Cfg!HeapAssumption
  <2>2. PICK ok \in Conf!Grant :
           /\ focus' = Frame!StoredFocus(FocusRead, ok).focus
           /\ storage' = Frame!StoredFocus(FocusRead, ok).storage
           /\ IF FocusRead # NULL /\ ok THEN copy' = Len(mem) + 1 ELSE copy' = NULL
    BY <1>4, TakeAllocates
  <2>3. \/ storage' = "heap" /\ focus' = FocusRead /\ FocusRead # NULL /\ copy' = Len(mem) + 1
        \/ storage' = "none" /\ focus' = NULL
    BY <2>2 DEF Frame!StoredFocus
  <2>4. Len(mem) + 1 # NULL
    BY <2>1
  <2>. QED  BY <2>1, <2>3, <2>4 DEF Focused, InTFR_args
<1>5. CASE TakeNone
  BY <1>0, <1>5 DEF TakeNone, Focused, InTFR_args
<1>6. CASE TFR_main
  <2>1. /\ at = "main" /\ at' = "main" /\ UNCHANGED <<copy, verbose, help>>
        /\ \/ UNCHANGED <<focus, storage>>
           \/ \E f \in MainFocus : focus' = f /\ storage' = IF f = NULL THEN "none" ELSE "static"
    BY <1>6 DEF TFR_main, FrameStep, Frame!TFR_set_focus, Frame!TFR_SUITE_DECLARE_M, Frame!TFR_SUITE_ADD_M,
       Frame!UnitOverrun, Frame!Halt, Frame!optionVars
  <2>2. \A f \in MainFocus : f # NULL
    BY DriverAssumption, CfgAssumes DEF Cfg!HeapAssumption
  <2>. QED  BY <1>0, <2>1, <2>2 DEF Focused, InTFR_args
<1>7. CASE TFR_run \/ Report
  <2>1. UNCHANGED <<frameVars, copy>> /\ at' \notin InTFR_args /\ (at' = "report" => help)
    BY <1>0, <1>7 DEF TFR_run, Report, FrameStep, InTFR_args, Focused
  <2>2. UNCHANGED <<focus, storage, verbose, help, fault, copy>>
    BY <2>1 DEF frameVars, suiteVars
  <2>. QED  BY <1>0, <2>1, <2>2 DEF Focused
<1>8. CASE ExitConfig
  <2>1. at' = "run" /\ UNCHANGED <<copy, focus, storage>>
    BY <1>8, EndsWell DEF ExitConfig, Frame!TFR_usage, Frame!TFR_run, Frame!optionVars
  <2>. QED  BY <1>0, <2>1 DEF Focused, InTFR_args
<1>9. CASE RunStep
  <2>1. at = "run" /\ at' = "run" /\ UNCHANGED <<copy, focus>>
        /\ \/ UNCHANGED storage
           \/ storage' = IF focus = NULL THEN storage ELSE "freed"
    BY <1>9 DEF RunStep, Frame!RunUnit, Frame!ReadsBehind, Frame!EndSuite, Frame!EmptySuite, Frame!FreeCrashes,
       Frame!RunReturns, Frame!Halt, Frame!optionVars
  <2>. QED  BY <1>0, <2>1 DEF Focused, InTFR_args
<1>. QED  BY <1>2, <1>3, <1>4, <1>5, <1>6, <1>7, <1>8, <1>9 DEF Next, ArgsStep

-----------------------------------------------------------------------------
(* The table.  Once it is stocked nothing but cfg_exit changes what is     *)
(* found in it.                                                            *)
LEMMA TableKept ==
    ASSUME ProgramInvariant, [Next]_vars, StockedTo(5), at \notin {"adding", "run"}, at' # "run"
    PROVE  /\ StockedTo(5)' /\ DOMAIN opts' = 1..5
           /\ \A key : /\ Cfg!FindIn(opts', mem', key) = Cfg!FindIn(opts, mem, key)
                       /\ Cfg!TypeIn(opts', mem', key) = Cfg!TypeIn(opts, mem, key)
           /\ \A k \in 1..5 : opts'[k].type = opts[k].type
<1>1. /\ Cfg!LibraryInvariant /\ Cfg!LibraryInvariant' /\ Control /\ Control'
  BY LibraryKept, ControlStep DEF ProgramInvariant, DriverInvariant, Linked
<1>2. Cfg!TypeOK /\ Cfg!TypeOK' /\ Cfg!InRange /\ Cfg!CallState /\ Cfg!Locals /\ Cfg!KeyStored /\ Cfg!Intact
  BY <1>1, StockedFacts DEF Cfg!LibraryInvariant, Cfg!Naming, Cfg!MemoryInvariant
<1>3. \E i_ \in 0..Len(opts) : Cfg!Effect(i_)
  <2>1. CASE TakeValues
    <3>1. UNCHANGED opts /\ Cfg!Extends(mem, mem')
      BY <2>1, TakeAllocates DEF Cfg!ClientAllocates
    <3>. QED  BY <1>2, <3>1, CfgAssumes, Cfg!QuietEffect
  <2>2. CASE [Cfg!Next]_(Cfg!vars)
    <3>1. ~Cfg!cfg_exit
      <4>1. Len(opts) # 0
        BY DEF StockedTo
      <4>2. at # "init" /\ lives = 1
        BY <1>1, <4>1 DEF Control
      <4>. QED  BY <1>1, <4>2 DEF Control, Cfg!cfg_exit
    <3>2. ~Cfg!StoreOption
      BY <1>1 DEF Control, Cfg!StoreOption, Cfg!In
    <3>. QED  BY <1>2, <2>2, <3>1, <3>2, CfgAssumes, Cfg!StepEffect
  <2>. QED  BY <2>1, <2>2, LibraryMoves
<1>4. PICK i_ \in 0..Len(opts) : Cfg!Effect(i_)
  BY <1>3
<1>5. /\ Len(opts') = Len(opts)
      /\ \A key : /\ Cfg!FindIn(opts', mem', key) = Cfg!FindIn(opts, mem, key)
                  /\ Cfg!TypeIn(opts', mem', key) = Cfg!TypeIn(opts, mem, key)
      /\ \A j \in 1..Len(opts) :
            opts'[j].type = opts[j].type /\ \A o : Cfg!StoredAs(j, o) => Cfg!StoredAs(j, o)'
  BY <1>2, <1>4, CfgAssumes, Cfg!EffectKeeps
<1>6. (\A k, o : Args!StoredAs(k, o) <=> Cfg!StoredAs(k, o))'
  BY StoredIs, PTL
<1>7. StockedTo(5)'
  <2>1. Len(opts) = 5 /\ \A k \in 1..5 : opts[k].type = Options[k].type /\ Cfg!StoredAs(k, Options[k])
    BY StoredIs DEF StockedTo
  <2>2. \A k \in 1..5 : opts'[k].type = Options[k].type /\ Cfg!StoredAs(k, Options[k])'
    BY <1>5, <2>1
  <2>. QED  BY <1>5, <1>6, <2>1, <2>2 DEF StockedTo
<1>8. Len(opts) = 5 /\ Len(opts') = 5 /\ DOMAIN opts' = 1..Len(opts')
  BY <1>2, <1>5 DEF StockedTo, Cfg!TypeOK
<1>. QED  BY <1>5, <1>7, <1>8

(* An option is added after the others, which stay as they are, and has    *)
(* the value TFR_args gives it; one that could not be is reported.         *)
LEMMA SlotAdded ==
    ASSUME ProgramInvariant, StoreOptions, Cfg!StoreOption
    PROVE  \/ at' = "failed" /\ failed'
           \/ /\ at' = "adding" /\ next' = next + 1 /\ next \in 1..5 /\ StockedTo(next - 1)'
              /\ (\A k \in 1..(next - 1) : Conf!ValueOf(k) = Default(k))
                   => \A k \in 1..next : Conf!ValueOf(k)' = Default(k)
<1>1. /\ at = "adding" /\ call = "add_options" /\ input = Options /\ StockedTo(next - 1)
      /\ Cfg!TypeOK /\ Cfg!InRange /\ cfg_fault = "none"
  BY DEF ProgramInvariant, DriverInvariant, Control, Linked, Stocked, StoreOptions, ConfStep,
         Cfg!LibraryInvariant, Cfg!Naming, Cfg!StoreOption, Cfg!In
<1>2. next \in 1..5 /\ Len(opts) = next - 1 /\ next \in Nat
  BY <1>1, OptionFacts DEF Cfg!StoreOption, Cfg!More, Cfg!TypeOK, StockedTo
<1>3. /\ Cfg!Extends(mem, mem') /\ cfg_fault' = "none"
      /\ \E slot : opts' = Append(opts, slot) /\ Cfg!SlotOf(Options[next], slot)
  BY <1>1, CfgAssumes, Cfg!SlotStored DEF Cfg!StoreOption
<1>4. PICK slot : opts' = Append(opts, slot) /\ Cfg!SlotOf(Options[next], slot)
  BY <1>3
<1>5. CASE ~Cfg!Advance
  <2>1. call' = "none" /\ cfg_result' = FALSE /\ failed'
    BY <1>4, <1>5 DEF Cfg!SlotOf, Cfg!Return
  <2>2. at' = "failed"
    BY <1>3, <2>1 DEF StoreOptions, ConfStep, After
  <2>. QED  BY <2>1, <2>2
<1>6. CASE Cfg!Advance
  <2>1. next' = next + 1 /\ call' = "add_options" /\ at' = "adding"
    BY <1>1, <1>6 DEF Cfg!Advance, StoreOptions, ConfStep, After
  <2>2. /\ opts \in Seq(Cfg!Slot) /\ slot \in Cfg!Slot /\ DOMAIN opts = 1..(next - 1)
        /\ Len(opts') = next /\ opts'[next] = slot /\ \A k \in 1..(next - 1) : opts'[k] = opts[k]
    BY <1>1, <1>2, <1>4 DEF Cfg!TypeOK, Cfg!SlotOf
  <2>3. \A ptr : Cfg!Live(mem, ptr) => Cfg!Live(mem', ptr) /\ mem'[ptr] = mem[ptr]
    BY <1>3 DEF Cfg!Live, Cfg!Extends
  <2>4. \A k \in 1..(next - 1) : opts[k].type = Options[k].type /\ Cfg!StoredAs(k, Options[k])
    BY <1>1, StoredIs DEF StockedTo
  <2>5. \A k \in 1..(next - 1) : opts'[k].type = Options[k].type /\ Cfg!StoredAs(k, Options[k])'
    BY <2>2, <2>3, <2>4 DEF Cfg!StoredAs
  <2>6. ASSUME NEW k, k = next
        PROVE  /\ opts'[k].type = Options[k].type /\ Cfg!StoredAs(k, Options[k])'
               /\ Conf!ValueOf(k)' = Default(k)
    <3>1. /\ opts'[k] = slot /\ slot.type = Options[k].type /\ slot.num = Options[k].num
          /\ slot.name # NULL /\ (Options[k].abbrev # NULL => slot.abbrev # NULL)
          /\ slot.name # NULL => Cfg!Live(mem', slot.name) /\ mem'[slot.name] = Options[k].name
          /\ slot.abbrev # NULL => Cfg!Live(mem', slot.abbrev) /\ mem'[slot.abbrev] = Options[k].abbrev
          /\ slot.str # NULL => mem'[slot.str] = Options[k].str
      BY <1>4, <1>6, <2>2, <2>6 DEF Cfg!SlotOf
    <3>2. Options[k].num = 0 /\ Options[k].str = NULL
      BY <1>2, <2>6, OptionFacts
    <3>. QED  BY <3>1, <3>2 DEF Cfg!StoredAs, Conf!ValueOf, Default
  <2>7. ASSUME \A k \in 1..(next - 1) : Conf!ValueOf(k) = Default(k)
        PROVE  \A k \in 1..next : Conf!ValueOf(k)' = Default(k)
    <3>1. ASSUME NEW k \in 1..(next - 1) PROVE Conf!ValueOf(k)' = Default(k)
      <4>1. opts'[k] = opts[k] /\ Conf!ValueOf(k) = Default(k)
        BY <2>2, <2>7
      <4>2. opts[k].str # NULL => mem'[opts[k].str] = mem[opts[k].str]
        <5>1. opts[k].str \in DOMAIN mem \cup {NULL}
          BY <1>1, <2>2 DEF Cfg!InRange
        <5>. QED  BY <1>3, <5>1 DEF Cfg!Extends
      <4>. QED  BY <4>1, <4>2 DEF Conf!ValueOf
    <3>2. \A k \in 1..next : k \in 1..(next - 1) \/ k = next
      BY <1>2
    <3>. QED  BY <2>6, <3>1, <3>2
  <2>8. (\A k, o : Args!StoredAs(k, o) <=> Cfg!StoredAs(k, o))'
    BY StoredIs, PTL
  <2>9. StockedTo(next - 1)'
    <3>1. \A k \in 1..next : k \in 1..(next - 1) \/ k = next
      BY <1>2
    <3>2. \A k \in 1..next : opts'[k].type = Options[k].type /\ Args!StoredAs(k, Options[k])'
      BY <2>5, <2>6, <2>8, <3>1
    <3>3. next' - 1 = next
      BY <1>2, <2>1
    <3>. QED  BY <2>2, <3>2, <3>3 DEF StockedTo
  <2>. QED  BY <1>2, <2>1, <2>7, <2>9
<1>. QED  BY <1>5, <1>6

LEMMA AddingStep ==
    ASSUME ProgramInvariant, StoreOptions
    PROVE  \/ Cfg!StoreOption
           \/ at' = at /\ cfg_fault' # "none" /\ UNCHANGED <<mem, failed, opts, next>>
           \/ at' = "args" /\ next = 6 /\ UNCHANGED <<mem, opts, failed, cfg_fault>>
<1>1. /\ at = "adding" /\ call = "add_options" /\ input = Options /\ next <= 6 /\ next \in Nat
  BY OptionFacts DEF ProgramInvariant, DriverInvariant, Control, Linked, Stocked, StoreOptions, ConfStep,
         Cfg!LibraryInvariant, Cfg!TypeOK
<1>2. Cfg!StoreStep
  BY AddIs DEF StoreOptions, ConfStep
<1>3. CASE Cfg!StoreHalts
  <2>1. cfg_fault' # "none" /\ UNCHANGED <<mem, failed, opts, next>>
    BY <1>3 DEF Cfg!StoreHalts, Cfg!Halt, Cfg!heapVars, Cfg!callVars
  <2>. QED  BY <2>1 DEF StoreOptions, ConfStep, After
<1>4. CASE Cfg!AddOptionsReturns
  <2>1. /\ ~Cfg!More /\ call' = "none" /\ cfg_result' = TRUE /\ cfg_fault = "none"
        /\ UNCHANGED <<mem, failed, opts, cfg_fault>>
    BY <1>4 DEF Cfg!AddOptionsReturns, Cfg!Return, Cfg!In, Cfg!heapVars
  <2>2. next = 6
    BY <1>1, <2>1, OptionFacts DEF Cfg!More
  <2>3. at' = "args"
    BY <2>1 DEF StoreOptions, ConfStep, After
  <2>. QED  BY <2>1, <2>2, <2>3
<1>. QED  BY <1>2, <1>3, <1>4 DEF Cfg!StoreStep

LEMMA StockedStep ==
    ASSUME ProgramInvariant, [Next]_vars
    PROVE  Stocked'
<1>. DEFINE Full == \/ at \in {"args", "reading", "argfile", "file", "values"}
                    \/ at \in {"failed", "main", "report", "exit"} /\ (help \/ verbose \/ storage = "heap" \/ ~failed)
<1>0. Stocked /\ Control /\ Focused /\ Stocked /\ (Full => StockedTo(5))
  BY OptionFacts DEF ProgramInvariant, DriverInvariant, Stocked
<1>1. CASE AddOptions
  <2>1. opts' = <<>> /\ next' = 1 /\ at' = "adding"
    BY <1>0, <1>1 DEF AddOptions, ConfStep, Conf!AddOptions, Conf!Enter, Control
  <2>2. Len(<<>>) = 0 /\ 1 - 1 = 0
    OBVIOUS
  <2>3. StockedTo(next - 1)'
    BY <2>1, <2>2 DEF StockedTo
  <2>. QED  BY <2>1, <2>3, OptionFacts DEF Stocked
<1>2. CASE StoreOptions
  <2>1. /\ at = "adding" /\ StockedTo(next - 1) /\ next <= 6
        /\ help' = FALSE /\ verbose' = FALSE /\ storage' = "none"
    BY <1>0, <1>2, OptionFacts DEF StoreOptions, ConfStep, frameVars, Focused, InTFR_args, Stocked
  <2>2. CASE Cfg!StoreOption
    <3>1. CASE at' = "failed" /\ failed'
      BY <2>1, <3>1 DEF Stocked
    <3>2. CASE at' = "adding" /\ next' = next + 1 /\ next \in 1..5 /\ StockedTo(next - 1)'
      BY <3>2, OptionFacts DEF Stocked
    <3>. QED  BY <1>2, <2>2, <3>1, <3>2, SlotAdded
  <2>3. (\A k, o : Args!StoredAs(k, o) <=> Cfg!StoredAs(k, o)) /\ (\A k, o : Args!StoredAs(k, o) <=> Cfg!StoredAs(k, o))'
    BY StoredIs, PTL
  <2>4. CASE at' = at /\ cfg_fault' # "none" /\ UNCHANGED <<mem, failed, opts, next>>
    <3>1. StockedTo(next - 1)'
      BY <2>1, <2>3, <2>4 DEF StockedTo, Cfg!StoredAs
    <3>. QED  BY <2>1, <2>4, <3>1, OptionFacts DEF Stocked
  <2>5. CASE at' = "args" /\ next = 6 /\ UNCHANGED <<mem, opts, failed, cfg_fault>>
    <3>1. StockedTo(5)
      BY <2>1, <2>5
    <3>2. StockedTo(5)'
      BY <2>3, <2>5, <3>1 DEF StockedTo, Cfg!StoredAs
    <3>. QED  BY <2>5, <3>2, OptionFacts DEF Stocked
  <2>. QED  BY <1>2, <2>2, <2>4, <2>5, AddingStep
<1>3. CASE ~StoreOptions /\ Full' /\ at' # "adding"
  <2>1. Full /\ at \notin {"adding", "run"} /\ at' # "run"
    <3>1. CASE UNCHANGED vars
      BY <1>3, <3>1 DEF vars, confVars, frameVars
    <3>2. CASE ReadArgs \/ ReadArg \/ ReadFile \/ ReadLine
      BY <1>3, <3>2 DEF ReadArgs, ReadArg, ReadFile, ReadLine, ConfStep
    <3>3. CASE TakeValues
      BY <1>3, <3>3 DEF TakeValues
    <3>4. CASE TakeNone
      BY <1>0, <1>3, <3>4 DEF TakeNone, confVars
    <3>5. CASE TFR_main
      <4>1. /\ at = "main" /\ at' = "main" /\ UNCHANGED <<help, verbose, failed>>
            /\ storage' = "heap" => storage = "heap"
        BY <3>5 DEF TFR_main, FrameStep, Frame!TFR_set_focus, Frame!TFR_SUITE_DECLARE_M, Frame!TFR_SUITE_ADD_M,
           Frame!UnitOverrun, Frame!Halt, Frame!optionVars, confVars
      <4>. QED  BY <1>3, <4>1
    <3>6. CASE TFR_run \/ Reported
      BY <1>3, <3>6 DEF TFR_run, Reported, FrameStep, ConfStep, frameVars, confVars
    <3>7. CASE Report
      <4>1. at = "report" /\ at' = "report" /\ UNCHANGED <<help, verbose, storage, failed>>
        BY <3>7, ReportPrints DEF Report, frameVars, confVars
      <4>. QED  BY <1>3, <4>1
    <3>8. ~InitConfig /\ ~AddOptions /\ ~RunStep /\ ~ExitConfig
      BY <1>3, EndsWell DEF InitConfig, AddOptions, RunStep, ExitConfig, ConfStep
    <3>. QED  BY <1>3, <3>1, <3>2, <3>3, <3>4, <3>5, <3>6, <3>7, <3>8 DEF Next, ArgsStep
  <2>2. StockedTo(5)'
    BY <1>0, <2>1, TableKept
  <2>. QED  BY <1>3, <2>2, OptionFacts DEF Stocked
<1>4. CASE ~StoreOptions /\ ~AddOptions /\ at' = "adding"
  <2>1. UNCHANGED vars
    BY <1>4, EndsWell
       DEF Next, ArgsStep, InitConfig, ReadArgs, ReadArg, ReadFile, ReadLine, TakeValues, TakeNone,
           TFR_main, TFR_run, Report, Reported, ExitConfig, RunStep, ConfStep, FrameStep, After
  <2>2. UNCHANGED <<at, mem, opts, next>>
    BY <2>1 DEF vars, confVars, tableVars
  <2>3. (\A k, o : Args!StoredAs(k, o) <=> Cfg!StoredAs(k, o)) /\ (\A k, o : Args!StoredAs(k, o) <=> Cfg!StoredAs(k, o))'
    BY StoredIs, PTL
  <2>4. StockedTo(next - 1)'
    BY <1>0, <1>4, <2>2, <2>3 DEF Stocked, StockedTo, Cfg!StoredAs
  <2>. QED  BY <1>0, <1>4, <2>2, <2>4 DEF Stocked
<1>5. CASE at' # "adding" /\ ~Full'
  BY <1>5 DEF Stocked
<1>. QED  BY <1>1, <1>2, <1>3, <1>4, <1>5

-----------------------------------------------------------------------------
(* What testframe sees.                                                    *)
LEMMA SameFrame == UNCHANGED frameVars => UNCHANGED Frame!vars
BY DEF frameVars, suiteVars, Frame!vars, Frame!optionVars, Frame!chainVars, Frame!tableVars,
       Frame!runVars, Frame!countVars, Frame!endVars

LEMMA FrameInit == Init => Frame!Init
BY DEF Init

LEMMA FrameMoves ==
    ASSUME ProgramInvariant, [Next]_vars
    PROVE  [Frame!Next]_(Frame!vars)
<1>0. Control /\ Focused
  BY DEF ProgramInvariant, DriverInvariant
<1>1. CASE UNCHANGED vars \/ InitConfig \/ AddOptions \/ StoreOptions \/ ReadArgs \/ ReadArg \/ ReadFile
             \/ ReadLine \/ Reported \/ TFR_run \/ Report
  <2>1. UNCHANGED frameVars
    BY <1>1 DEF vars, InitConfig, AddOptions, StoreOptions, ReadArgs, ReadArg, ReadFile, ReadLine, Reported,
       ConfStep, TFR_run, FrameStep, Report
  <2>. QED  BY <2>1, SameFrame
<1>2. DOMAIN Named = Text /\ Frame!Focus = Text
  BY DriverAssumption DEF Frame!Focus
<1>3. ASSUME at \in InTFR_args, phase' = "main",
             NEW f \in Text \cup {NULL}, NEW ok \in Conf!Grant,
             focus' = Frame!StoredFocus(f, ok).focus, storage' = Frame!StoredFocus(f, ok).storage,
             verbose' \in BOOLEAN, help' \in BOOLEAN, UNCHANGED suiteVars
      PROVE  Frame!TFR_args
  <2>1. Frame!In("args")
    BY <1>0, <1>3 DEF Control, Focused, Frame!In
  <2>2. f \in Frame!Maybe(Frame!Focus) /\ ok \in IF CanFail THEN BOOLEAN ELSE {TRUE}
    BY <1>2, <1>3 DEF Frame!Maybe, Conf!Grant
  <2>3. UNCHANGED <<exit_handler, Frame!chainVars, Frame!tableVars, Frame!runVars, Frame!endVars, fault>>
    BY <1>3 DEF suiteVars, Frame!chainVars, Frame!tableVars, Frame!runVars, Frame!countVars, Frame!endVars
  <2>. QED  BY <1>3, <2>1, <2>2, <2>3 DEF Frame!TFR_args
<1>4. CASE TakeValues
  <2>. DEFINE f == FocusRead
  <2>1. at = "values" /\ phase' = "main" /\ f \in Text \cup {NULL} /\ UNCHANGED suiteVars
    BY <1>4, ValuesTaken DEF TakeValues, FocusRead
  <2>2. verbose' \in BOOLEAN /\ help' \in BOOLEAN
    BY <1>4 DEF TakeValues
  <2>3. PICK ok \in Conf!Grant :
           focus' = Frame!StoredFocus(f, ok).focus /\ storage' = Frame!StoredFocus(f, ok).storage
    BY <1>4 DEF TakeValues
  <2>. HIDE DEF f
  <2>4. Frame!TFR_args
    BY <1>3, <2>1, <2>2, <2>3 DEF InTFR_args
  <2>. QED  BY <2>4 DEF Frame!Next
<1>5. CASE TakeNone
  <2>1. /\ at = "failed" /\ phase' = "main" /\ UNCHANGED suiteVars
        /\ focus' = NULL /\ storage' = "none" /\ verbose' \in BOOLEAN /\ help' \in BOOLEAN
    BY <1>0, <1>5 DEF TakeNone, Focused, InTFR_args
  <2>2. /\ TRUE \in Conf!Grant /\ at \in InTFR_args /\ NULL \in Text \cup {NULL}
        /\ Frame!StoredFocus(NULL, TRUE).focus = NULL /\ Frame!StoredFocus(NULL, TRUE).storage = "none"
    BY <2>1 DEF Conf!Grant, Frame!StoredFocus, InTFR_args
  <2>3. Frame!TFR_args
    BY <1>3, <2>1, <2>2
  <2>. QED  BY <2>3 DEF Frame!Next
<1>6. CASE TFR_main
  <2>1. \/ \E f \in MainFocus : Frame!TFR_set_focus(f)
        \/ \E s \in Suites : Frame!TFR_SUITE_DECLARE_M(s)
        \/ Frame!TFR_SUITE_ADD_M
        \/ Frame!UnitOverrun
    BY <1>6 DEF TFR_main, FrameStep
  <2>2. MainFocus \subseteq Frame!Maybe(Frame!Focus)
    BY <1>2, DriverAssumption DEF Frame!Maybe
  <2>3. Frame!ClientStep
    BY <2>1, <2>2 DEF Frame!ClientStep
  <2>. QED  BY <2>3 DEF Frame!Next
<1>7. CASE ExitConfig
  <2>1. Frame!TFR_usage \/ Frame!TFR_run
    BY <1>7, EndsWell DEF ExitConfig
  <2>. QED  BY <2>1 DEF Frame!Next
<1>8. CASE RunStep
  <2>1. Frame!RunStep
    BY <1>8 DEF RunStep, Frame!RunStep
  <2>. QED  BY <2>1 DEF Frame!Next
<1>. QED  BY <1>1, <1>4, <1>5, <1>6, <1>7, <1>8 DEF Next, ArgsStep

-----------------------------------------------------------------------------
(* The memory the program holds.                                           *)
LEMMA SameOwned == UNCHANGED <<opts, blocks, block, buffer>> => UNCHANGED Cfg!Owned
<1>. SUFFICES ASSUME UNCHANGED <<opts, blocks, block, buffer>> PROVE UNCHANGED Cfg!Owned
  OBVIOUS
<1>1. UNCHANGED Cfg!AllBlocks
  BY DEF Cfg!AllBlocks
<1>2. UNCHANGED Cfg!Owners
  BY <1>1 DEF Cfg!Owners, Cfg!OptionOwners, Cfg!ArgOwners
<1>3. \A o : Cfg!Points(o)' = Cfg!Points(o)
  BY <1>1 DEF Cfg!Points
<1>. QED  BY <1>2, <1>3 DEF Cfg!Owned

LEMMA ReleasedStep ==
    ASSUME ProgramInvariant, [Next]_vars
    PROVE  Released'
<1>. SUFFICES ASSUME at' = "run"
              PROVE  \A ptr \in Cfg!Owned' : ~Cfg!Live(mem', ptr)
  <2>1. (Conf!Owned = Cfg!Owned)'
    BY OwnedIs, PTL
  <2>2. \A m, ptr : Conf!Live(m, ptr) <=> Cfg!Live(m, ptr)
    BY DEF Conf!Live, Cfg!Live
  <2>. QED  BY <2>1, <2>2 DEF Released
<1>1. CASE at # "run"
  <2>1. ExitConfig
    BY <1>1 DEF Next, vars, ArgsStep, InitConfig, AddOptions, StoreOptions, ReadArgs, ReadArg,
       ReadFile, ReadLine, TakeValues, TakeNone, TFR_main, TFR_run, Report, Reported, RunStep,
       ConfStep, FrameStep, After
  <2>2. Cfg!cfg_exit
    BY <2>1, EndsWell, LifeIs DEF ExitConfig
  <2>3. /\ Cfg!TypeOK /\ Cfg!Locals /\ call = "none"
    BY <1>1, <2>2 DEF ProgramInvariant, Linked, Cfg!LibraryInvariant, Cfg!MemoryInvariant, Cfg!cfg_exit, Cfg!Idle
  <2>4. /\ mem' = Cfg!cfgFREE(mem, Cfg!Owned) /\ DOMAIN opts' = DOMAIN opts
        /\ \A k \in DOMAIN opts : opts'[k] = Cfg!Disposed(opts[k])
        /\ Cfg!AllBlocks' = <<>> /\ buffer' = NULL
    BY <2>2, <2>3 DEF Cfg!cfg_exit, Cfg!AllBlocks, Cfg!Locals, Cfg!fileVars
  <2>5. ASSUME NEW o \in Cfg!Owners', Cfg!Points(o)' # NULL
        PROVE  Cfg!Points(o)' \in Cfg!Owned
    <3>1. \/ \E k \in DOMAIN opts, j \in 1..4 : o = <<"option", k, j>>
          \/ o = <<"buffer", 1, 0>>
      BY <2>4 DEF Cfg!Owners, Cfg!OptionOwners, Cfg!ArgOwners
    <3>2. o # <<"buffer", 1, 0>>
      BY <2>4, <2>5 DEF Cfg!Points
    <3>3. PICK k \in DOMAIN opts, j \in 1..4 : o = <<"option", k, j>>
      BY <3>1, <3>2
    <3>4. /\ opts'[k].name = NULL /\ opts'[k].abbrev = NULL /\ opts'[k].str = NULL
          /\ opts'[k].desc = opts[k].desc
      <4>1. opts[k] \in Cfg!Slot /\ opts'[k] = Cfg!Disposed(opts[k])
        BY <2>3, <2>4 DEF Cfg!TypeOK
      <4>. QED  BY <4>1 DEF Cfg!Disposed, Cfg!Slot
    <3>5. Cfg!Points(o)' = <<opts'[k].name, opts'[k].abbrev, opts'[k].desc, opts'[k].str>>[j]
      BY <3>3 DEF Cfg!Points
    <3>6. j = 3 /\ Cfg!Points(o)' = opts[k].desc
      BY <2>5, <3>4, <3>5
    <3>7. o \in Cfg!Owners
      BY <3>3 DEF Cfg!Owners, Cfg!OptionOwners
    <3>8. Cfg!Points(o) = opts[k].desc
      BY <3>3, <3>6 DEF Cfg!Points
    <3>. QED  BY <2>5, <3>6, <3>7, <3>8 DEF Cfg!Owned
  <2>6. \A ptr \in Cfg!Owned' : ptr \in Cfg!Owned
    BY <2>5 DEF Cfg!Owned
  <2>. QED  BY <2>4, <2>6 DEF Cfg!Live, Cfg!cfgFREE
<1>2. CASE at = "run"
  <2>1. Released
    BY DEF ProgramInvariant, DriverInvariant
  <2>2. \A ptr \in Cfg!Owned : ~Cfg!Live(mem, ptr)
    BY <1>2, <2>1, OwnedIs, CopyIs DEF Released
  <2>3. /\ UNCHANGED tableVars
        /\ mem' = mem \/ mem' = Cfg!cfgFREE(mem, FreedAtEnd)
    BY <1>2, CopyIs DEF Next, vars, confVars, ArgsStep, InitConfig, AddOptions, StoreOptions, ReadArgs, ReadArg,
       ReadFile, ReadLine, TakeValues, TakeNone, TFR_main, TFR_run, Report, Reported, ExitConfig, RunStep,
       ConfStep, FrameStep
  <2>4. Cfg!Owned' = Cfg!Owned
    BY <2>3, SameOwned DEF tableVars
  <2>. QED  BY <2>2, <2>3, <2>4 DEF Cfg!Live, Cfg!cfgFREE
<1>. QED  BY <1>1, <1>2

(* A cell is lost that is allocated, and neither miniconf nor the focus    *)
(* points to.                                                              *)
LEMMA LostIs == Lost = {b \in Cfg!Stray : ~(storage = "heap" /\ b = copy)}
BY OwnedIs DEF Lost, Held, Cfg!Stray

LEMMA LeaksKnown ==
    ASSUME ProgramInvariant, [Next]_vars, NEW a \in Lost'
    PROVE  \/ a \in Lost
           \/ at = "reading" /\ state = "CAPTURE" /\ a = opts[Conf!cfg_find(current_option)].str
           \/ at = "main" /\ storage' = "static" /\ a = copy
<1>0. Control /\ Focused
  BY DEF ProgramInvariant, DriverInvariant
<1>1. (Lost = {b \in Cfg!Stray : ~(storage = "heap" /\ b = copy)})'
  BY LostIs, PTL
<1>2. a \in Cfg!Stray' /\ ~(storage' = "heap" /\ a = copy')
  BY <1>1
<1>3. ASSUME UNCHANGED <<storage, copy>>, a \in Cfg!Stray
      PROVE  a \in Lost
  BY <1>2, <1>3, LostIs
<1>4. ASSUME UNCHANGED confVars PROVE a \in Cfg!Stray
  <2>1. UNCHANGED <<mem, opts, blocks, block, buffer>>
    BY <1>4 DEF confVars, tableVars
  <2>. QED  BY <1>2, <2>1, SameOwned DEF Cfg!Stray
<1>5. CASE TakeValues
  <2>1. /\ storage = "none" /\ Cfg!TypeOK /\ Cfg!Extends(mem, mem') /\ UNCHANGED <<opts, blocks, block, buffer>>
    BY <1>0, <1>5, TakeAllocates DEF TakeValues, tableVars, Focused, InTFR_args, Cfg!LibraryInvariant, Cfg!ClientAllocates
  <2>2. a \in 1..Len(mem') /\ mem'[a] # Freed /\ a \notin Cfg!Owned /\ Len(mem) \in Nat
    BY <1>2, <2>1, SameOwned DEF Cfg!Stray, Cfg!Extends
  <2>3. a \notin Len(mem) + 1 .. Len(mem')
    <3>1. PICK ok \in Conf!Grant :
             /\ storage' = Frame!StoredFocus(FocusRead, ok).storage
             /\ IF FocusRead # NULL /\ ok THEN copy' = Len(mem) + 1 /\ Len(mem') = Len(mem) + 1
                ELSE copy' = NULL /\ mem' = mem
      BY <1>5, TakeAllocates
    <3>2. \A b \in Len(mem) + 1 .. Len(mem') : b = copy'
      BY <1>5, TakeAllocates
    <3>. QED  BY <1>2, <2>2, <3>1, <3>2 DEF Frame!StoredFocus
  <2>4. a \in 1..Len(mem) /\ mem'[a] = mem[a]
    BY <2>1, <2>2, <2>3 DEF Cfg!Extends
  <2>5. a \in Cfg!Stray
    BY <2>1, <2>2, <2>4 DEF Cfg!Stray, Cfg!Extends
  <2>. QED  BY <2>1, <2>5, LostIs
<1>6. CASE TFR_main
  <2>1. /\ UNCHANGED confVars
        /\ at = "main"
        /\ UNCHANGED copy
    BY <1>6 DEF TFR_main, FrameStep
  <2>2. UNCHANGED storage \/ storage' = "static"
    <3>1. \A f \in MainFocus : f # NULL
      BY DriverAssumption, CfgAssumes DEF Cfg!HeapAssumption
    <3>. QED  BY <1>6, <3>1 DEF TFR_main, FrameStep, Frame!TFR_set_focus, Frame!TFR_SUITE_DECLARE_M,
       Frame!TFR_SUITE_ADD_M, Frame!UnitOverrun, Frame!Halt, Frame!optionVars
  <2>3. CASE UNCHANGED storage
    BY <1>3, <1>4, <2>1, <2>3
  <2>4. CASE storage' = "static"
    <3>1. a \in Cfg!Stray
      BY <1>4, <2>1
    <3>. QED  BY <2>1, <2>4, <3>1, LostIs
  <2>. QED  BY <2>2, <2>3, <2>4
<1>7. CASE RunStep
  <2>1. \/ UNCHANGED <<storage, confVars, copy>>
        \/ /\ UNCHANGED <<tableVars, copy>> /\ mem' = Cfg!cfgFREE(mem, FreedAtEnd)
           /\ storage' = IF focus = NULL THEN storage ELSE "freed"
    BY <1>7, CopyIs DEF RunStep, Frame!RunUnit, Frame!ReadsBehind, Frame!EndSuite, Frame!EmptySuite, Frame!FreeCrashes,
       Frame!RunReturns, Frame!Halt, Frame!optionVars
  <2>2. CASE UNCHANGED <<storage, confVars, copy>>
    BY <1>3, <1>4, <2>2
  <2>3. CASE UNCHANGED <<tableVars, copy>> /\ mem' = Cfg!cfgFREE(mem, FreedAtEnd)
    <3>1. a \in DOMAIN mem /\ mem[a] # Freed /\ a \notin FreedAtEnd /\ a \notin Cfg!Owned
      BY <1>2, <2>3, SameOwned DEF Cfg!Stray, Cfg!cfgFREE, tableVars
    <3>2. ~(storage = "heap" /\ a = copy)
      BY <1>0, <3>1 DEF FreedAtEnd, Focused
    <3>. QED  BY <3>1, <3>2, LostIs DEF Cfg!Stray
  <2>. QED  BY <2>1, <2>2, <2>3
<1>8. CASE ~TakeValues /\ ~TFR_main /\ ~RunStep
  <2>1. (UNCHANGED <<storage, copy>> /\ at # "run") \/ UNCHANGED vars
    BY <1>8, EndsWell DEF Next, ArgsStep, InitConfig, AddOptions, StoreOptions, ReadArgs, ReadArg,
       ReadFile, ReadLine, TakeNone, TFR_run, Report, Reported, ExitConfig,
       ConfStep, FrameStep, frameVars, Frame!TFR_usage, Frame!TFR_run, Frame!optionVars
  <2>2. CASE UNCHANGED vars
    BY <1>3, <1>4, <2>2 DEF vars, frameVars
  <2>3. CASE UNCHANGED <<storage, copy>> /\ at # "run"
    <3>1. [Cfg!Next]_(Cfg!vars) /\ Cfg!LibraryInvariant /\ Cfg!LibraryInvariant'
      BY <1>8, <2>3, LibraryMoves, LibraryKept DEF ProgramInvariant, Linked
    <3>2. \/ a \in Cfg!Stray
          \/ call = "read_args" /\ state = "CAPTURE" /\ a = opts[Cfg!cfg_find(current_option)].str
      BY <1>2, <3>1, CfgAssumes, Cfg!LeaksStep DEF Cfg!LibraryInvariant
    <3>3. call = "read_args" => at = "reading"
      BY <1>0 DEF Control
    <3>. QED  BY <1>3, <2>3, <3>2, <3>3, FindIs
  <2>. QED  BY <2>1, <2>2, <2>3
<1>. QED  BY <1>5, <1>6, <1>7, <1>8

(* At the end everything is freed, or is lost, or is the copy of the focus *)
(* that a program leaves which was asked for help.                         *)
LEMMA EndsClean ==
    ASSUME ProgramInvariant, Next, phase' = "done", NEW a \in DOMAIN mem', mem'[a] # Freed
    PROVE  a \in Lost' \/ (help /\ a = copy)
<1>0. Control /\ Focused /\ Control' /\ Focused' /\ Released'
  BY ControlStep, FocusedStep, ReleasedStep DEF ProgramInvariant, DriverInvariant
<1>1. at' = "run"
  BY <1>0 DEF Control, InTFR_args
<1>2. a \notin Conf!Owned'
  <2>1. (\A m, ptr : Conf!Live(m, ptr) <=> ptr \in DOMAIN m /\ m[ptr] # Freed)
    BY DEF Conf!Live
  <2>. QED  BY <1>0, <1>1, <2>1 DEF Released
<1>3. CASE storage' # "heap" \/ a # copy'
  BY <1>2, <1>3 DEF Lost, Held
<1>4. CASE storage' = "heap" /\ a = copy'
  <2>1. CASE ExitConfig
    <3>1. help /\ copy' = copy
      BY <1>0, <2>1, EndsWell DEF ExitConfig, Frame!TFR_usage, Frame!TFR_run
    <3>. QED  BY <1>4, <3>1
  <2>2. CASE RunStep
    <3>1. Frame!RunReturns
      BY <2>2 DEF RunStep, Frame!RunUnit, Frame!ReadsBehind, Frame!EndSuite, Frame!EmptySuite, Frame!FreeCrashes,
         Frame!Halt, Frame!In
    <3>2. storage' = IF focus = NULL THEN storage ELSE "freed"
      BY <3>1 DEF Frame!RunReturns
    <3>. QED  BY <1>0, <1>4, <3>2 DEF Focused
  <2>3. ~(~ExitConfig /\ ~RunStep)
    BY <1>1 DEF Next, ArgsStep, InitConfig, AddOptions, StoreOptions, ReadArgs, ReadArg,
       ReadFile, ReadLine, TakeValues, TakeNone, TFR_main, TFR_run, Report, Reported,
       ConfStep, FrameStep, After
  <2>. QED  BY <2>1, <2>2, <2>3
<1>. QED  BY <1>3, <1>4

-----------------------------------------------------------------------------
(* What a command line and a file ask for, given any table os and memory m *)
(* in which keys are looked up.                                            *)
ArgvIn(os, m, args, n, o, d) ==
    Cfg!LastIn("read_args", args, Cfg!PlacesIn("read_args", os, m, args, n, o), os[o].type, d)

LinesIn(os, m, args) == LinesOf(ArgvIn(os, m, args, Len(args) + 1, Cfg!FindIn(os, m, "argfile"), NULL))

FilePlaces(os, m, lines, n, o) ==
    {p \in Cfg!PlacesIn("read_file", os, m, lines, n, o) : \A q \in 1..p : lines[q].kind # "bare"}

FileIn(os, m, args, n, o, d) ==
    Cfg!LastIn("read_file", LinesIn(os, m, args), FilePlaces(os, m, LinesIn(os, m, args), n, o),
               os[o].type, ArgvIn(os, m, args, Len(args) + 1, o, d))

AcceptedIn(os, m, args) == \A p \in DOMAIN args : ~Cfg!RefusedIn(os, m, args, p)

LEMMA MaxIs == \A S : Max(S) = Cfg!Max(S) /\ Args!Max(S) = Cfg!Max(S)
BY DEF Max, Cfg!Max, Args!Max

LEMMA ArgsFindIs ==
    \A key : /\ Args!cfg_find(key) = Cfg!FindIn(opts, mem, key)
             /\ Args!cfg_type(key) = Cfg!TypeIn(opts, mem, key)
             /\ File!cfg_find(key) = Cfg!FindIn(opts, mem, key)
             /\ Conf!cfg_find(key) = Cfg!FindIn(opts, mem, key)
<1>1. \A key : Args!cfg_find(key) = Cfg!FindIn(opts, mem, key)
  BY DEF Args!cfg_find, Args!StopsAt, Args!Matches, Args!Live, Args!Min, Cfg!FindIn, Cfg!Live, Cfg!Min
<1>2. \A key : File!cfg_find(key) = Cfg!FindIn(opts, mem, key)
  BY DEF File!cfg_find, File!StopsAt, File!Matches, File!Live, File!Min, Cfg!FindIn, Cfg!Live, Cfg!Min
<1>3. \A key : Conf!cfg_find(key) = Cfg!FindIn(opts, mem, key)
  BY DEF Conf!cfg_find, Conf!StopsAt, Conf!Matches, Conf!Live, Conf!Min, Cfg!FindIn, Cfg!Live, Cfg!Min
<1>4. \A key : Args!cfg_type(key) = Cfg!TypeIn(opts, mem, key)
  BY <1>1 DEF Args!cfg_type, Cfg!TypeIn
<1>. QED  BY <1>1, <1>2, <1>3, <1>4

LEMMA ArgsReadingIs ==
    ASSUME Len(argv) \in Nat, NEW k \in Nat, k >= 2, k <= Len(argv) + 1
    PROVE  /\ Args!IsValue(k) <=> Cfg!ValueIn(opts, mem, argv, k)
           /\ Args!IsRefused(k) <=> Cfg!RefusedIn(opts, mem, argv, k)
<1>. DEFINE N == Cfg!NamesIn(opts, mem, argv)
<1>1. \A j \in 1..Len(argv) : Args!NamesOption(j) <=> j \in N
  BY ArgsFindIs DEF Args!NamesOption, Cfg!NamesIn, Args!Capturing, Cfg!Capturing
<1>2. Args!IsValue(k) <=> Cfg!ValueIn(opts, mem, argv, k)
  <2>. HIDE DEF N
  <2>1. Args!RowBefore(k) = Cfg!Row(N, k)
    <3>1. ASSUME NEW n \in 1..(k - 2)
          PROVE  (\A j \in (k - n)..(k - 1) : Args!NamesOption(j)) <=> (\A j \in (k - n)..(k - 1) : j \in N)
      <4>1. (k - n)..(k - 1) \subseteq 1..Len(argv)
        OBVIOUS
      <4>. QED  BY <1>1, <4>1
    <3>. QED  BY <3>1, MaxIs DEF Args!RowBefore, Cfg!Row, Cfg!RowSet
  <2>. QED  BY <2>1 DEF Args!IsValue, Cfg!ValueIn, N
<1>3. Args!cfg_type(Rest[argv[k]]) = Cfg!TypeIn(opts, mem, Rest[argv[k]])
  BY ArgsFindIs
<1>. QED  BY <1>2, <1>3 DEF Args!IsRefused, Cfg!RefusedIn

LEMMA ArgvForm ==
    Len(argv) \in Nat =>
      \A n \in Nat : n <= Len(argv) + 1 => \A name, d :
        InArgv(n, name, d) = ArgvIn(opts, mem, argv, n, Cfg!FindIn(opts, mem, name), d)
<1>. SUFFICES ASSUME Len(argv) \in Nat, NEW n \in Nat, n <= Len(argv) + 1, NEW name, NEW d
              PROVE  InArgv(n, name, d) = ArgvIn(opts, mem, argv, n, Cfg!FindIn(opts, mem, name), d)
  OBVIOUS
<1>. DEFINE o == Cfg!FindIn(opts, mem, name)
<1>1. Conf!cfg_find(name) = o
  BY ArgsFindIs
<1>. HIDE DEF o
<1>2. ASSUME NEW p \in 2..(n - 1)
      PROVE  Args!Sets(p, o) <=> Cfg!SetsIn("read_args", opts, mem, argv, p, o)
  <2>1. p \in Nat /\ p >= 2 /\ p <= Len(argv) + 1
    OBVIOUS
  <2>. QED  BY <2>1, ArgsReadingIs, ArgsFindIs DEF Args!Sets, Cfg!SetsIn
<1>3. {p \in 2..(n - 1) : Args!Sets(p, o)} = Cfg!PlacesIn("read_args", opts, mem, argv, n, o)
  BY <1>2 DEF Cfg!PlacesIn, Cfg!FirstPlace
<1>4. \A p : Args!Given(p, o) = Cfg!GivenIn("read_args", opts[o].type, argv, p)
  BY DEF Args!Given, Cfg!GivenIn
<1>5. InArgv(n, name, d) = ArgvIn(opts, mem, argv, n, o, d)
  BY <1>1, <1>3, <1>4, MaxIs DEF InArgv, Last, ArgvIn, Cfg!LastIn
<1>. QED  BY <1>5 DEF o

LEMMA LinesForm == Len(argv) \in Nat => Lines = LinesIn(opts, mem, argv)
BY ArgvForm DEF Lines, InAllArgv, LinesIn

LEMMA FileForm ==
    Len(argv) \in Nat => \A n, name, d :
        InFile(n, name, d) = FileIn(opts, mem, argv, n, Cfg!FindIn(opts, mem, name), d)
<1>. SUFFICES ASSUME Len(argv) \in Nat, NEW n, NEW name, NEW d
              PROVE  InFile(n, name, d) = FileIn(opts, mem, argv, n, Cfg!FindIn(opts, mem, name), d)
  OBVIOUS
<1>. DEFINE o == Cfg!FindIn(opts, mem, name)
            lines == LinesIn(opts, mem, argv)
<1>1. Conf!cfg_find(name) = o /\ Lines = lines
  BY ArgsFindIs, LinesForm
<1>2. InAllArgv(name, d) = ArgvIn(opts, mem, argv, Len(argv) + 1, o, d)
  BY ArgvForm DEF InAllArgv
<1>. HIDE DEF o, lines
<1>3. \A p : File!Sets(p, o) <=> Cfg!SetsIn("read_file", opts, mem, lines, p, o)
  BY <1>1, ArgsFindIs DEF File!Sets, Cfg!SetsIn, File!Capturing, Cfg!Capturing
<1>4. {p \in 1..(n - 1) : File!Sets(p, o) /\ \A q \in 1..p : lines[q].kind # "bare"}
        = FilePlaces(opts, mem, lines, n, o)
  BY <1>3 DEF FilePlaces, Cfg!PlacesIn, Cfg!FirstPlace
<1>5. \A p : File!Given(p, o) = Cfg!GivenIn("read_file", opts[o].type, lines, p)
  BY <1>1 DEF File!Given, Cfg!GivenIn
<1>6. InFile(n, name, d) = FileIn(opts, mem, argv, n, o, d)
  BY <1>1, <1>2, <1>4, <1>5, MaxIs DEF InFile, Last, FileIn, Cfg!LastIn, lines
<1>. QED  BY <1>6 DEF o

LEMMA AcceptedForm == argv \in Seq(Text) => (Accepted <=> AcceptedIn(opts, mem, argv))
<1>. SUFFICES ASSUME argv \in Seq(Text), NEW p \in DOMAIN argv
              PROVE  Args!IsRefused(p) <=> Cfg!RefusedIn(opts, mem, argv, p)
  BY DEF Accepted, AcceptedIn
<1>1. p \in Nat /\ p >= 1 /\ p <= Len(argv) + 1 /\ Len(argv) \in Nat
  OBVIOUS
<1>2. CASE p >= 2
  BY <1>1, <1>2, ArgsReadingIs
<1>3. CASE ~(p >= 2)
  <2>1. ~(p > 1)
    BY <1>1, <1>3
  <2>. QED  BY <2>1 DEF Args!IsRefused, Cfg!RefusedIn
<1>. QED  BY <1>2, <1>3

LEMMA FormIs ==
    argv \in Seq(Text) =>
      /\ \A n \in Nat : n <= Len(argv) + 1 => \A name, d :
            InArgv(n, name, d) = ArgvIn(opts, mem, argv, n, Cfg!FindIn(opts, mem, name), d)
      /\ \A name, d : InAllArgv(name, d)
                        = ArgvIn(opts, mem, argv, Len(argv) + 1, Cfg!FindIn(opts, mem, name), d)
      /\ Lines = LinesIn(opts, mem, argv)
      /\ \A n, name, d : InFile(n, name, d) = FileIn(opts, mem, argv, n, Cfg!FindIn(opts, mem, name), d)
      /\ Accepted <=> AcceptedIn(opts, mem, argv)
<1>1. argv \in Seq(Text) => Len(argv) \in Nat
  OBVIOUS
<1>. QED  BY <1>1, ArgvForm, LinesForm, FileForm, AcceptedForm DEF InAllArgv

LEMMA FormWillBe ==
    argv' \in Seq(Text) =>
      /\ \A n \in Nat : n <= Len(argv') + 1 => \A name, d :
            InArgv(n, name, d)' = ArgvIn(opts', mem', argv', n, Cfg!FindIn(opts', mem', name), d)
      /\ \A name, d : InAllArgv(name, d)'
                        = ArgvIn(opts', mem', argv', Len(argv') + 1, Cfg!FindIn(opts', mem', name), d)
      /\ Lines' = LinesIn(opts', mem', argv')
      /\ \A n, name, d : InFile(n, name, d)' = FileIn(opts', mem', argv', n, Cfg!FindIn(opts', mem', name), d)
      /\ Accepted' <=> AcceptedIn(opts', mem', argv')
<1>1. (argv \in Seq(Text) =>
      /\ \A n \in Nat : n <= Len(argv) + 1 => \A name, d :
            InArgv(n, name, d) = ArgvIn(opts, mem, argv, n, Cfg!FindIn(opts, mem, name), d)
      /\ \A name, d : InAllArgv(name, d)
                        = ArgvIn(opts, mem, argv, Len(argv) + 1, Cfg!FindIn(opts, mem, name), d)
      /\ Lines = LinesIn(opts, mem, argv)
      /\ \A n, name, d : InFile(n, name, d) = FileIn(opts, mem, argv, n, Cfg!FindIn(opts, mem, name), d)
      /\ Accepted <=> AcceptedIn(opts, mem, argv))'
  BY FormIs, PTL
<1>. QED  BY <1>1

(* It depends on how the keys are found and on the types of the options. *)
LEMMA KeptIs ==
    \A os, m, os2, m2 :
       (\A key : /\ Cfg!FindIn(os2, m2, key) = Cfg!FindIn(os, m, key)
                 /\ Cfg!TypeIn(os2, m2, key) = Cfg!TypeIn(os, m, key))
       => /\ \A in, p : Cfg!RefusedIn(os2, m2, in, p) <=> Cfg!RefusedIn(os, m, in, p)
          /\ \A o : os2[o].type = os[o].type =>
                \A c, in, n : Cfg!PlacesIn(c, os2, m2, in, n, o) = Cfg!PlacesIn(c, os, m, in, n, o)
BY CfgAssumes, Cfg!ReadingKept

LEMMA FormKept ==
    ASSUME NEW os, NEW m, NEW os2, NEW m2,
           \A key : /\ Cfg!FindIn(os2, m2, key) = Cfg!FindIn(os, m, key)
                    /\ Cfg!TypeIn(os2, m2, key) = Cfg!TypeIn(os, m, key),
           \A o \in 1..5 : os2[o].type = os[o].type, Cfg!FindIn(os, m, "argfile") \in 1..5
    PROVE  /\ \A args : LinesIn(os2, m2, args) = LinesIn(os, m, args)
           /\ \A args : AcceptedIn(os2, m2, args) <=> AcceptedIn(os, m, args)
           /\ \A args, n, d : \A o \in 1..5 :
                 /\ ArgvIn(os2, m2, args, n, o, d) = ArgvIn(os, m, args, n, o, d)
                 /\ FileIn(os2, m2, args, n, o, d) = FileIn(os, m, args, n, o, d)
<1>0. /\ \A in, p : Cfg!RefusedIn(os2, m2, in, p) <=> Cfg!RefusedIn(os, m, in, p)
      /\ \A o : os2[o].type = os[o].type =>
            \A c, in, n : Cfg!PlacesIn(c, os2, m2, in, n, o) = Cfg!PlacesIn(c, os, m, in, n, o)
  BY KeptIs
<1>1. /\ \A in, p : Cfg!RefusedIn(os2, m2, in, p) <=> Cfg!RefusedIn(os, m, in, p)
      /\ \A o \in 1..5 : \A c, in, n : Cfg!PlacesIn(c, os2, m2, in, n, o) = Cfg!PlacesIn(c, os, m, in, n, o)
  BY <1>0
<1>2. \A args, n, d : \A o \in 1..5 : ArgvIn(os2, m2, args, n, o, d) = ArgvIn(os, m, args, n, o, d)
  BY <1>1 DEF ArgvIn
<1>3. \A args : LinesIn(os2, m2, args) = LinesIn(os, m, args)
  BY <1>2 DEF LinesIn
<1>4. \A lines, n : \A o \in 1..5 : FilePlaces(os2, m2, lines, n, o) = FilePlaces(os, m, lines, n, o)
  BY <1>1 DEF FilePlaces
<1>5. \A args, n, d : \A o \in 1..5 : FileIn(os2, m2, args, n, o, d) = FileIn(os, m, args, n, o, d)
  BY <1>2, <1>3, <1>4 DEF FileIn
<1>. QED  BY <1>1, <1>2, <1>3, <1>5 DEF AcceptedIn

-----------------------------------------------------------------------------
(* What the reading has come to where TFR_args stands.                     *)
Reads == {"adding", "args", "reading", "argfile", "file", "values"}

SoFarIn(where, n, os, m, args, o, d) ==
    CASE where = "adding"  -> d
      [] where = "args"    -> d
      [] where = "reading" -> ArgvIn(os, m, args, n, o, d)
      [] where = "argfile" -> ArgvIn(os, m, args, Len(args) + 1, o, d)
      [] where = "file"    -> FileIn(os, m, args, n, o, d)
      [] where = "values"  -> FileIn(os, m, args, Len(LinesIn(os, m, args)) + 1, o, d)

LEMMA SoFarIs ==
    argv \in Seq(Text) /\ at \in Reads /\ (at = "reading" => next \in Nat /\ next <= Len(argv) + 1) =>
      \A k : Cfg!FindIn(opts, mem, Options[k].name) = k =>
        (AskedSoFar(k) <=> Conf!ValueOf(k) = SoFarIn(at, next, opts, mem, argv, k, Default(k)))
<1>. SUFFICES ASSUME argv \in Seq(Text), at \in Reads,
                     at = "reading" => next \in Nat /\ next <= Len(argv) + 1,
                     NEW k, Cfg!FindIn(opts, mem, Options[k].name) = k
              PROVE  AskedSoFar(k) <=> Conf!ValueOf(k) = SoFarIn(at, next, opts, mem, argv, k, Default(k))
  OBVIOUS
<1>. DEFINE name == Options[k].name  d == Default(k)
<1>1. /\ at = "reading" => InArgv(next, name, d) = ArgvIn(opts, mem, argv, next, k, d)
      /\ InAllArgv(name, d) = ArgvIn(opts, mem, argv, Len(argv) + 1, k, d)
      /\ InFile(next, name, d) = FileIn(opts, mem, argv, next, k, d)
      /\ Asked(name, d) = FileIn(opts, mem, argv, Len(LinesIn(opts, mem, argv)) + 1, k, d)
  <2>. HIDE DEF d
  <2>. QED  BY FormIs DEF Asked
<1>2. /\ at = "adding" => (AskedSoFar(k) <=> Conf!ValueOf(k) = d)
      /\ at = "args" => (AskedSoFar(k) <=> Conf!ValueOf(k) = d)
      /\ at = "reading" => (AskedSoFar(k) <=> Conf!ValueOf(k) = InArgv(next, name, d))
      /\ at = "argfile" => (AskedSoFar(k) <=> Conf!ValueOf(k) = InAllArgv(name, d))
      /\ at = "file" => (AskedSoFar(k) <=> Conf!ValueOf(k) = InFile(next, name, d))
      /\ at = "values" => (AskedSoFar(k) <=> Conf!ValueOf(k) = Asked(name, d))
  BY DEF AskedSoFar
<1>. HIDE DEF name, d
<1>3. AskedSoFar(k) <=> Conf!ValueOf(k) = SoFarIn(at, next, opts, mem, argv, k, d)
  BY <1>1, <1>2 DEF SoFarIn, Reads
<1>. QED  BY <1>3 DEF d

LEMMA SoFarWillBe ==
    argv' \in Seq(Text) /\ at' \in Reads /\ (at' = "reading" => next' \in Nat /\ next' <= Len(argv') + 1) =>
      \A k : Cfg!FindIn(opts', mem', Options[k].name) = k =>
        (AskedSoFar(k)' <=> Conf!ValueOf(k)' = SoFarIn(at', next', opts', mem', argv', k, Default(k)))
<1>1. (argv \in Seq(Text) /\ at \in Reads /\ (at = "reading" => next \in Nat /\ next <= Len(argv) + 1) =>
      \A k : Cfg!FindIn(opts, mem, Options[k].name) = k =>
        (AskedSoFar(k) <=> Conf!ValueOf(k) = SoFarIn(at, next, opts, mem, argv, k, Default(k))))'
  BY SoFarIs, PTL
<1>. QED  BY <1>1

(* While TFR_args reads, the table and what is asked for stay the same. *)
LEMMA ReadingFacts ==
    ASSUME ProgramInvariant, [Next]_vars, at \in {"args", "reading", "argfile", "file", "values", "main"},
           StockedTo(5)
    PROVE  /\ Cfg!LibraryInvariant /\ Cfg!LibraryInvariant' /\ Cfg!Intact /\ Control /\ Control'
           /\ DOMAIN opts = 1..5 /\ DOMAIN opts' = 1..5 /\ Len(opts) = 5
           /\ \A k \in 1..5 : /\ Cfg!FindIn(opts, mem, Options[k].name) = k
                             /\ Cfg!FindIn(opts', mem', Options[k].name) = k
                             /\ opts'[k].type = opts[k].type /\ opts[k].type = Options[k].type
           /\ argv' = argv /\ argv \in Seq(Text) /\ Len(argv) \in Nat
           /\ next \in Nat /\ next' \in Nat
           /\ LinesIn(opts', mem', argv) = LinesIn(opts, mem, argv)
           /\ AcceptedIn(opts', mem', argv) <=> AcceptedIn(opts, mem, argv)
           /\ \A n, d : \A o \in 1..5 :
                 /\ ArgvIn(opts', mem', argv, n, o, d) = ArgvIn(opts, mem, argv, n, o, d)
                 /\ FileIn(opts', mem', argv, n, o, d) = FileIn(opts, mem, argv, n, o, d)
<1>1. at' # "run" /\ argv' = argv
  BY EndsWell DEF Next, vars, ArgsStep, InitConfig, AddOptions, StoreOptions, ReadArgs, ReadArg, ReadFile, ReadLine,
     TakeValues, TakeNone, TFR_main, TFR_run, Report, Reported, ExitConfig, RunStep, ConfStep, FrameStep, After
<1>2. Cfg!LibraryInvariant /\ Cfg!LibraryInvariant' /\ Control /\ Control'
  BY LibraryKept, ControlStep DEF ProgramInvariant, DriverInvariant, Linked
<1>3. /\ StockedTo(5)' /\ DOMAIN opts' = 1..5
      /\ \A key : /\ Cfg!FindIn(opts', mem', key) = Cfg!FindIn(opts, mem, key)
                  /\ Cfg!TypeIn(opts', mem', key) = Cfg!TypeIn(opts, mem, key)
      /\ \A k \in 1..5 : opts'[k].type = opts[k].type
  BY <1>1, TableKept
<1>4. /\ Cfg!Intact
      /\ \A k \in 1..5 : /\ Cfg!FindIn(opts, mem, Options[k].name) = k
                        /\ Cfg!FindIn(opts', mem', Options[k].name) = k
                        /\ opts'[k].type = opts[k].type /\ opts[k].type = Options[k].type
  <2>1. Cfg!Intact /\ \A k \in 1..5 : Conf!cfg_find(Options[k].name) = k /\ opts[k].type = Options[k].type
    BY <1>2, StockedFacts
  <2>. QED  BY <1>3, <2>1, ArgsFindIs
<1>5. DOMAIN opts = 1..5 /\ Len(opts) = 5 /\ next \in Nat /\ next' \in Nat
  BY <1>2 DEF StockedTo, Cfg!LibraryInvariant, Cfg!TypeOK
<1>6. argv \in Seq(Text) /\ Len(argv) \in Nat
  <2>1. argv \in Seq(Text)
    BY <1>2, CfgAssumes DEF Control, Cfg!ClientAssumption
  <2>. QED  BY <2>1
<1>7. Cfg!FindIn(opts, mem, "argfile") \in 1..5
  BY <1>4, OptionFacts
<1>8. /\ \A args : LinesIn(opts', mem', args) = LinesIn(opts, mem, args)
      /\ \A args : AcceptedIn(opts', mem', args) <=> AcceptedIn(opts, mem, args)
      /\ \A args, n, d : \A o \in 1..5 :
            /\ ArgvIn(opts', mem', args, n, o, d) = ArgvIn(opts, mem, args, n, o, d)
            /\ FileIn(opts', mem', args, n, o, d) = FileIn(opts, mem, args, n, o, d)
  <2>. DEFINE os2 == opts'  m2 == mem'
  <2>1. /\ \A key : /\ Cfg!FindIn(os2, m2, key) = Cfg!FindIn(opts, mem, key)
                    /\ Cfg!TypeIn(os2, m2, key) = Cfg!TypeIn(opts, mem, key)
        /\ \A o \in 1..5 : os2[o].type = opts[o].type
    BY <1>3
  <2>. HIDE DEF os2, m2
  <2>2. /\ \A args : LinesIn(os2, m2, args) = LinesIn(opts, mem, args)
        /\ \A args : AcceptedIn(os2, m2, args) <=> AcceptedIn(opts, mem, args)
        /\ \A args, n, d : \A o \in 1..5 :
              /\ ArgvIn(os2, m2, args, n, o, d) = ArgvIn(opts, mem, args, n, o, d)
              /\ FileIn(os2, m2, args, n, o, d) = FileIn(opts, mem, args, n, o, d)
    BY <1>7, <2>1, FormKept
  <2>. QED  BY <2>2 DEF os2, m2
<1>. QED  BY <1>1, <1>2, <1>3, <1>4, <1>5, <1>6, <1>8

LEMMA AskedNow ==
    ASSUME ProgramInvariant, StockedTo(5), ~failed, cfg_fault = "none",
           at \in {"args", "reading", "argfile", "file", "values"}
    PROVE  /\ at = "reading" => next <= Len(argv) + 1
           /\ \A k \in 1..5 : Conf!ValueOf(k) = SoFarIn(at, next, opts, mem, argv, k, Default(k))
<1>1. Cfg!LibraryInvariant /\ Control /\ ReadAsAsked
  BY DEF ProgramInvariant, DriverInvariant, Linked
<1>2. argv \in Seq(Text) /\ next \in Nat /\ DOMAIN opts = 1..5 /\ at \in Reads
  BY <1>1, CfgAssumes DEF Control, Cfg!ClientAssumption, Cfg!LibraryInvariant, Cfg!TypeOK, StockedTo, Reads
<1>3. at = "reading" => next <= Len(argv) + 1
  BY <1>1 DEF Control, Cfg!LibraryInvariant, Cfg!MemoryInvariant, Cfg!BlockRoom
<1>4. \A k \in 1..5 : AskedSoFar(k)
  BY <1>1, <1>2 DEF ReadAsAsked
<1>5. \A k \in 1..5 : Cfg!FindIn(opts, mem, Options[k].name) = k
  BY <1>1, StockedFacts, ArgsFindIs
<1>. QED  BY <1>2, <1>3, <1>4, <1>5, SoFarIs

(* The command line begins to be read. *)
LEMMA ArgsStart ==
    ASSUME ProgramInvariant, ReadArgs, ~failed', cfg_fault' = "none"
    PROVE  ReadAsAsked'
<1>1. /\ at = "args" /\ at' = "reading" /\ Cfg!ReadArgs(argv) /\ next' = 2
      /\ ~failed /\ cfg_fault = "none"
  <2>1. Cfg!ReadArgs(argv) \/ Cfg!ReadArgsHalts(argv)
    BY ArgsIs DEF ReadArgs, ConfStep
  <2>2. ~Cfg!ReadArgsHalts(argv)
    BY DEF Cfg!ReadArgsHalts, Cfg!Halt
  <2>3. at = "args" /\ at' = "reading"
    BY <2>2, ArgsIs DEF ReadArgs, ConfStep
  <2>4. next' = 2 /\ ~failed /\ cfg_fault = "none"
    BY <2>1, <2>2 DEF Cfg!ReadArgs, Cfg!Enter, Cfg!FirstArg, Cfg!Idle
  <2>. QED  BY <2>1, <2>2, <2>3, <2>4
<1>2. StockedTo(5) /\ Next
  BY <1>1, ValuesTaken DEF Next, ArgsStep
<1>3. /\ Cfg!LibraryInvariant /\ DOMAIN opts' = 1..5 /\ Len(opts) = 5 /\ argv' = argv
      /\ argv \in Seq(Text) /\ Len(argv) \in Nat /\ argv \in Vectors
      /\ \A k \in 1..5 : Cfg!FindIn(opts', mem', Options[k].name) = k
  BY <1>1, <1>2, ReadingFacts DEF Control
<1>4. \A k \in 1..5 : Conf!ValueOf(k)' = Default(k)
  <2>1. \A k \in 1..5 : Cfg!ValueOf(k)' = Cfg!ValueOf(k)
    BY <1>1, <1>3, CfgAssumes, Cfg!ReadingStarts
  <2>2. \A k \in 1..5 : Conf!ValueOf(k) = Default(k)
    BY <1>1, <1>2, AskedNow DEF SoFarIn
  <2>3. (\A k : Conf!ValueOf(k) = Cfg!ValueOf(k))'
    BY ValueIs, PTL
  <2>. QED  BY <2>1, <2>2, <2>3, ValueIs
<1>5. \A k \in 1..5 : ArgvIn(opts', mem', argv, 2, k, Default(k)) = Default(k)
  <2>1. \A k : Cfg!PlacesIn("read_args", opts', mem', argv, 2, k) = {}
    <3>1. 2..(2 - 1) = {}
      OBVIOUS
    <3>. QED  BY <3>1 DEF Cfg!PlacesIn, Cfg!FirstPlace
  <2>. QED  BY <2>1 DEF ArgvIn, Cfg!LastIn
<1>6. \A k \in 1..5 : AskedSoFar(k)'
  <2>1. at' \in Reads /\ next' \in Nat /\ next' <= Len(argv') + 1
    <3>1. Len(argv) # 0
      BY <1>3, CfgAssumes DEF Cfg!ClientAssumption
    <3>. QED  BY <1>1, <1>3, <3>1 DEF Reads
  <2>. QED  BY <1>1, <1>3, <1>4, <1>5, <2>1, SoFarWillBe DEF SoFarIn
<1>. QED  BY <1>1, <1>3, <1>6 DEF ReadAsAsked

(* An argument is read, or they have all been. *)
LEMMA ArgsGoOn ==
    ASSUME ProgramInvariant, ReadArg, ~failed', cfg_fault' = "none"
    PROVE  ReadAsAsked'
<1>1. /\ at = "reading" /\ Cfg!ArgStep /\ cfg_fault = "none" /\ ~failed
      /\ at' = IF call' # "none" THEN at ELSE IF cfg_result' THEN "argfile" ELSE "failed"
  <2>1. Cfg!ArgStep /\ Conf!ArgStep /\ at = "reading"
    BY ArgsIs DEF ReadArg, ConfStep
  <2>2. failed => failed'
    BY <2>1, CfgAssumes, Cfg!FailedStays DEF Cfg!Next
  <2>. QED  BY <2>1, <2>2, LoopSteps DEF ReadArg, ConfStep, After
<1>2. StockedTo(5) /\ Next
  BY <1>1, ValuesTaken DEF Next, ArgsStep
<1>3. /\ Cfg!LibraryInvariant /\ Cfg!LibraryInvariant' /\ Control /\ Control'
      /\ DOMAIN opts' = 1..5 /\ Len(opts) = 5 /\ argv' = argv
      /\ argv \in Seq(Text) /\ Len(argv) \in Nat /\ next \in Nat /\ next' \in Nat
      /\ AcceptedIn(opts', mem', argv) <=> AcceptedIn(opts, mem, argv)
      /\ \A k \in 1..5 : /\ Cfg!FindIn(opts', mem', Options[k].name) = k
                        /\ opts'[k].type = opts[k].type
      /\ \A n, d : \A o \in 1..5 : ArgvIn(opts', mem', argv, n, o, d) = ArgvIn(opts, mem, argv, n, o, d)
  BY <1>1, <1>2, ReadingFacts
<1>4. call = "read_args" /\ input = argv
  BY <1>1, <1>3 DEF Control
<1>5. \A k \in 1..5 : Conf!ValueOf(k) = ArgvIn(opts, mem, argv, next, k, Default(k))
  BY <1>1, <1>2, AskedNow DEF SoFarIn
<1>6. (\A k : Conf!ValueOf(k) = Cfg!ValueOf(k))'
  BY ValueIs, PTL
<1>7. CASE call' # "none"
  <2>1. at' = "reading" /\ call' = "read_args"
    BY <1>1, <1>3, <1>7 DEF Control
  <2>2. /\ next' = next + 1 /\ next \in 2..Len(argv)
        /\ \A j \in 1..5 : \A d :
              Cfg!ValueOf(j) = Cfg!LastIn("read_args", argv, Cfg!PlacesIn("read_args", opts, mem, argv, next, j), opts[j].type, d)
              => Cfg!ValueOf(j)' =
                   Cfg!LastIn("read_args", argv, Cfg!PlacesIn("read_args", opts', mem', argv, next + 1, j), opts'[j].type, d)
    <3>1. (Cfg!ArgStep /\ call' = "read_args") \/ (Cfg!LineStep /\ call' = "read_file")
      BY <1>1, <2>1
    <3>2. /\ next' = next + 1 /\ next \in Cfg!FirstPlace(call)..Len(input)
          /\ \A j \in 1..Len(opts) : \A d :
               Cfg!ValueOf(j) = Cfg!LastIn(call, input, Cfg!PlacesIn(call, opts, mem, input, next, j), opts[j].type, d)
               => Cfg!ValueOf(j)' =
                    Cfg!LastIn(call, input, Cfg!PlacesIn(call, opts', mem', input, next + 1, j), opts'[j].type, d)
      BY <1>3, <3>1, CfgAssumes, Cfg!ReadingTurn
    <3>3. Cfg!FirstPlace(call) = 2
      BY <1>4 DEF Cfg!FirstPlace
    <3>. QED  BY <1>3, <1>4, <3>2, <3>3
  <2>3. \A k \in 1..5 : Conf!ValueOf(k)' = ArgvIn(opts', mem', argv, next', k, Default(k))
    BY <1>5, <1>6, <2>2, ValueIs DEF ArgvIn
  <2>4. at' \in Reads /\ next' \in Nat /\ next' <= Len(argv') + 1
    BY <1>3, <2>1, <2>2 DEF Reads
  <2>5. \A k \in 1..5 : AskedSoFar(k)'
    BY <1>3, <2>1, <2>3, <2>4, SoFarWillBe DEF SoFarIn
  <2>. QED  BY <1>3, <2>1, <2>5 DEF ReadAsAsked
<1>8. CASE call' = "none"
  <2>1. /\ UNCHANGED <<mem, opts>>
        /\ cfg_result' <=> AcceptedIn(opts, mem, argv)
        /\ cfg_result' => next = Len(argv) + 1
    BY <1>1, <1>3, <1>4, <1>8, CfgAssumes, Cfg!ArgsEnd DEF AcceptedIn
  <2>2. Accepted' <=> cfg_result'
    BY <1>3, <2>1, FormWillBe
  <2>3. CASE at' = "failed"
    BY <1>1, <1>8, <2>2, <2>3 DEF ReadAsAsked
  <2>4. CASE at' = "argfile"
    <3>1. cfg_result'
      BY <1>1, <1>8, <2>4
    <3>2. \A k \in 1..5 : Conf!ValueOf(k)' = Conf!ValueOf(k)
      BY <2>1 DEF Conf!ValueOf
    <3>3. \A k \in 1..5 : Conf!ValueOf(k)' = ArgvIn(opts', mem', argv, Len(argv) + 1, k, Default(k))
      BY <1>3, <1>5, <2>1, <3>1, <3>2
    <3>4. \A k \in 1..5 : AskedSoFar(k)'
      BY <1>3, <2>4, <3>3, SoFarWillBe DEF SoFarIn, Reads
    <3>. QED  BY <1>3, <2>2, <2>4, <3>1, <3>4 DEF ReadAsAsked
  <2>. QED  BY <1>1, <1>8, <2>3, <2>4
<1>. QED  BY <1>7, <1>8

(* No line is read yet, or none is a bare word. *)
LEMMA NoLine == \A os, m, lines, o : FilePlaces(os, m, lines, 1, o) = {}
<1>1. 1..(1 - 1) = {}
  OBVIOUS
<1>. QED  BY <1>1 DEF FilePlaces, Cfg!PlacesIn, Cfg!FirstPlace

(* The file is opened that the command line names, if it is there. *)
LEMMA FileStart ==
    ASSUME ProgramInvariant, ReadFile, ~failed', cfg_fault' = "none"
    PROVE  ReadAsAsked'
<1>. DEFINE path == Value("argfile")
<1>1. at = "argfile" /\ StockedTo(5) /\ Next /\ path \in Text \cup {NULL}
  BY ValuesTaken DEF ReadFile, ConfStep, Next, ArgsStep
<1>2. /\ Cfg!LibraryInvariant /\ DOMAIN opts' = 1..5 /\ Len(opts) = 5
      /\ argv' = argv /\ argv \in Seq(Text) /\ Len(argv) \in Nat
      /\ LinesIn(opts', mem', argv) = LinesIn(opts, mem, argv)
      /\ AcceptedIn(opts', mem', argv) <=> AcceptedIn(opts, mem, argv)
      /\ \A k \in 1..5 : /\ Cfg!FindIn(opts, mem, Options[k].name) = k
                        /\ Cfg!FindIn(opts', mem', Options[k].name) = k
      /\ \A n, d : \A o \in 1..5 : ArgvIn(opts', mem', argv, n, o, d) = ArgvIn(opts, mem, argv, n, o, d)
  BY <1>1, ReadingFacts
<1>3. /\ ~failed /\ cfg_fault = "none" /\ ReadAsAsked
      /\ \/ path = NULL /\ at' = "values" /\ UNCHANGED confVars
         \/ path # NULL /\ at' = "file" /\ Cfg!ReadFile(Files[path])
         \/ path # NULL /\ at' = "values" /\ Cfg!ReadFileMissing(Files[path])
  <2>. HIDE DEF path
  <2>1. \/ path = NULL /\ at' = "values" /\ UNCHANGED confVars
        \/ path # NULL /\ at' = "file" /\ Conf!ReadFile(Files[path])
        \/ path # NULL /\ at' = "values" /\ Conf!ReadFileMissing(Files[path])
        \/ path # NULL /\ at' = "values" /\ Conf!ReadFileNoBuffer(Files[path])
    BY DEF ReadFile, ConfStep, path
  <2>2. ~Cfg!ReadFileNoBuffer(Files[path])
    BY DEF Cfg!ReadFileNoBuffer
  <2>3. \/ path = NULL /\ at' = "values" /\ UNCHANGED confVars
        \/ path # NULL /\ at' = "file" /\ Cfg!ReadFile(Files[path])
        \/ path # NULL /\ at' = "values" /\ Cfg!ReadFileMissing(Files[path])
    BY <2>1, <2>2, FileIs
  <2>4. ~failed
    BY <2>3 DEF Cfg!ReadFile, Cfg!ReadFileMissing, Cfg!heapVars, confVars
  <2>5. cfg_fault = "none"
    BY <1>1 DEF ProgramInvariant, DriverInvariant, Control, ReadFile, ConfStep, Conf!ReadFile, Conf!ReadFileMissing,
       Conf!ReadFileNoBuffer, Conf!Idle, confVars, tableVars
  <2>. QED  BY <2>3, <2>4, <2>5 DEF ProgramInvariant, DriverInvariant
<1>4. \A k \in 1..5 : Conf!ValueOf(k) = ArgvIn(opts, mem, argv, Len(argv) + 1, k, Default(k))
  BY <1>1, <1>3, AskedNow DEF SoFarIn
<1>5. path = ArgvIn(opts, mem, argv, Len(argv) + 1, 3, NULL) /\ LinesIn(opts, mem, argv) = LinesOf(path)
  <2>1. Cfg!FindIn(opts, mem, "argfile") = 3 /\ Default(3) = NULL
    BY <1>2, OptionFacts DEF Default
  <2>. QED  BY <1>4, <2>1, ArgsFindIs DEF Value, LinesIn
<1>. HIDE DEF path
<1>6. Accepted'
  <2>1. Accepted
    BY <1>1, <1>3 DEF ReadAsAsked
  <2>. QED  BY <1>2, <2>1, FormIs, FormWillBe
<1>7. Lines' = LinesOf(path)
  BY <1>2, <1>5, FormWillBe
<1>8. \A k \in 1..5 : FileIn(opts', mem', argv, 1, k, Default(k))
                        = ArgvIn(opts, mem, argv, Len(argv) + 1, k, Default(k))
  BY <1>2, NoLine DEF FileIn, Cfg!LastIn
<1>9. ASSUME UNCHANGED <<mem, opts>>, LinesOf(path) = <<>>, at' = "values"
      PROVE  ReadAsAsked'
  <2>1. \A k \in 1..5 : Conf!ValueOf(k)' = Conf!ValueOf(k)
    BY <1>9 DEF Conf!ValueOf
  <2>2. Len(LinesIn(opts', mem', argv)) + 1 = 1
    BY <1>2, <1>5, <1>9
  <2>3. \A k \in 1..5 : AskedSoFar(k)'
    BY <1>2, <1>4, <1>8, <1>9, <2>1, <2>2, SoFarWillBe DEF SoFarIn, Reads
  <2>. QED  BY <1>2, <1>6, <1>9, <2>3 DEF ReadAsAsked
<1>10. CASE path = NULL /\ at' = "values" /\ UNCHANGED confVars
  <2>1. UNCHANGED <<mem, opts>> /\ LinesOf(path) = <<>>
    BY <1>10 DEF confVars, tableVars, LinesOf
  <2>. QED  BY <1>9, <1>10, <2>1
<1>11. CASE path # NULL /\ at' = "values" /\ Cfg!ReadFileMissing(Files[path])
  <2>1. UNCHANGED <<mem, opts>> /\ ~Cfg!Opens(Files[path]) /\ call = "none"
    BY <1>11 DEF Cfg!ReadFileMissing, Cfg!heapVars, Cfg!Idle
  <2>2. files = 0
    BY <1>2, <1>3, <2>1 DEF Cfg!LibraryInvariant, Cfg!MemoryInvariant, Cfg!FilesCounted
  <2>3. LinesOf(path) = <<>>
    BY <2>1, <2>2, DriverAssumption DEF Cfg!Opens, LinesOf
  <2>. QED  BY <1>9, <1>11, <2>1, <2>3
<1>12. CASE path # NULL /\ at' = "file" /\ Cfg!ReadFile(Files[path])
  <2>1. /\ Files[path] # NULL /\ next' = 1 /\ input' = Files[path] /\ UNCHANGED opts
    BY <1>12 DEF Cfg!ReadFile, Cfg!Opens, Cfg!Enter
  <2>2. input' = Lines' /\ next' <= Len(Lines') + 1
    <3>1. Files[path] \in Seq(Conf!Line)
      BY <1>1, <1>12, <2>1, DriverAssumption
    <3>2. Len(Files[path]) \in Nat
      BY <3>1
    <3>. QED  BY <1>7, <1>12, <2>1, <3>2 DEF LinesOf
  <2>3. \A k \in 1..5 : Conf!ValueOf(k)' = Conf!ValueOf(k)
    <3>1. \A k \in 1..5 : Cfg!ValueOf(k)' = Cfg!ValueOf(k)
      BY <1>2, <1>12, CfgAssumes, Cfg!ReadingStarts
    <3>2. (\A k : Conf!ValueOf(k) = Cfg!ValueOf(k))'
      BY ValueIs, PTL
    <3>. QED  BY <3>1, <3>2, ValueIs
  <2>4. \A k \in 1..5 : AskedSoFar(k)'
    BY <1>2, <1>4, <1>8, <1>12, <2>1, <2>3, SoFarWillBe DEF SoFarIn, Reads
  <2>5. \A q \in 1..(next' - 1) : Lines'[q].kind # "bare"
    BY <2>1
  <2>. QED  BY <1>2, <1>6, <1>12, <2>2, <2>4, <2>5 DEF ReadAsAsked
<1>. QED  BY <1>3, <1>10, <1>11, <1>12

(* Up to the first bare word, every line counts. *)
NoneBare(lines, n) == \A q \in 1..(n - 1) : lines[q].kind # "bare"

LEMMA LinesCount ==
    ASSUME NEW n \in Nat, NEW lines, NoneBare(lines, n), NEW os, NEW m, NEW o
    PROVE  FilePlaces(os, m, lines, n, o) = Cfg!PlacesIn("read_file", os, m, lines, n, o)
<1>1. ASSUME NEW p \in 1..(n - 1) PROVE \A q \in 1..p : lines[q].kind # "bare"
  <2>1. 1..p \subseteq 1..(n - 1)
    OBVIOUS
  <2>. QED  BY <2>1 DEF NoneBare
<1>. QED  BY <1>1 DEF FilePlaces, Cfg!PlacesIn, Cfg!FirstPlace

LEMMA LinesEnd ==
    \A n \in Nat : \A lines : n >= 1 /\ lines[n].kind = "bare" =>
       \A end \in Nat : end >= n =>
          \A os, m, o : FilePlaces(os, m, lines, end, o) = FilePlaces(os, m, lines, n, o)
<1>. SUFFICES ASSUME NEW n \in Nat, NEW lines, n >= 1, lines[n].kind = "bare",
                     NEW end \in Nat, end >= n, NEW os, NEW m, NEW o
              PROVE  FilePlaces(os, m, lines, end, o) = FilePlaces(os, m, lines, n, o)
  OBVIOUS
<1>1. ASSUME NEW p \in 1..(end - 1), \A q \in 1..p : lines[q].kind # "bare"
      PROVE  p \in 1..(n - 1)
  <2>1. n \notin 1..p
    BY <1>1
  <2>. QED  BY <2>1
<1>2. \A p \in 1..(n - 1) : p \in 1..(end - 1)
  OBVIOUS
<1>. QED  BY <1>1, <1>2 DEF FilePlaces, Cfg!PlacesIn, Cfg!FirstPlace

(* A line is read, or the reading is at its end. *)
LEMMA FileGoesOn ==
    ASSUME ProgramInvariant, ReadLine, ~failed', cfg_fault' = "none"
    PROVE  ReadAsAsked'
<1>1. /\ at = "file" /\ Cfg!LineStep /\ cfg_fault = "none" /\ ~failed
      /\ at' = IF call' # "none" THEN at ELSE "values"
  <2>1. Cfg!LineStep /\ Conf!LineStep /\ at = "file"
    BY FileIs DEF ReadLine, ConfStep
  <2>2. failed => failed'
    BY <2>1, CfgAssumes, Cfg!FailedStays DEF Cfg!Next
  <2>. QED  BY <2>1, <2>2, LoopSteps DEF ReadLine, ConfStep, After
<1>2. StockedTo(5) /\ Next /\ ReadAsAsked
  BY <1>1, ValuesTaken DEF Next, ArgsStep, ProgramInvariant, DriverInvariant
<1>3. /\ Cfg!LibraryInvariant /\ Cfg!LibraryInvariant' /\ Control /\ Control' /\ Cfg!Intact
      /\ DOMAIN opts' = 1..5 /\ Len(opts) = 5 /\ argv' = argv
      /\ argv \in Seq(Text) /\ Len(argv) \in Nat /\ next \in Nat /\ next' \in Nat
      /\ LinesIn(opts', mem', argv) = LinesIn(opts, mem, argv)
      /\ AcceptedIn(opts', mem', argv) <=> AcceptedIn(opts, mem, argv)
      /\ \A k \in 1..5 : /\ Cfg!FindIn(opts', mem', Options[k].name) = k
                        /\ opts'[k].type = opts[k].type
      /\ \A n, d : \A o \in 1..5 :
            /\ ArgvIn(opts', mem', argv, n, o, d) = ArgvIn(opts, mem, argv, n, o, d)
            /\ FileIn(opts', mem', argv, n, o, d) = FileIn(opts, mem, argv, n, o, d)
  BY <1>1, <1>2, ReadingFacts
<1>4. call = "read_file" /\ input = Lines /\ input = LinesIn(opts, mem, argv)
  BY <1>1, <1>2, <1>3, FormIs DEF Control, ReadAsAsked
<1>5. /\ next >= 1 /\ next <= Len(input) + 1 /\ Len(input) \in Nat
      /\ \A q \in 1..(next - 1) : input[q].kind # "bare"
  <2>1. next >= 1 /\ Len(input) \in Nat
    BY <1>3, <1>4 DEF Cfg!LibraryInvariant, Cfg!TypeOK
  <2>. QED  BY <1>1, <1>2, <1>4, <2>1 DEF ReadAsAsked
<1>6. \A k \in 1..5 : Conf!ValueOf(k) = FileIn(opts, mem, argv, next, k, Default(k))
  BY <1>1, <1>2, AskedNow DEF SoFarIn
<1>7. (\A k : Conf!ValueOf(k) = Cfg!ValueOf(k))'
  BY ValueIs, PTL
<1>8. Accepted' /\ Lines' = input
  <2>1. Accepted
    BY <1>1, <1>2 DEF ReadAsAsked
  <2>. QED  BY <1>3, <1>4, <2>1, FormIs, FormWillBe
<1>9. CASE call' # "none"
  <2>1. at' = "file" /\ call' = "read_file"
    BY <1>1, <1>3, <1>9 DEF Control
  <2>2. /\ next' = next + 1 /\ next \in Cfg!FirstPlace(call)..Len(input) /\ input' = input
        /\ call = "read_file" => input[next].kind # "bare"
        /\ \A j \in 1..Len(opts) : \A d :
             Cfg!ValueOf(j) = Cfg!LastIn(call, input, Cfg!PlacesIn(call, opts, mem, input, next, j), opts[j].type, d)
             => Cfg!ValueOf(j)' =
                  Cfg!LastIn(call, input, Cfg!PlacesIn(call, opts', mem', input, next + 1, j), opts'[j].type, d)
    <3>1. (Cfg!ArgStep /\ call' = "read_args") \/ (Cfg!LineStep /\ call' = "read_file")
      BY <1>1, <2>1
    <3>. QED  BY <1>3, <3>1, CfgAssumes, Cfg!ReadingTurn
  <2>3. next \in 1..Len(input) /\ next' <= Len(input) + 1
    BY <1>4, <1>5, <2>2 DEF Cfg!FirstPlace
  <2>4. \A q \in 1..(next' - 1) : input[q].kind # "bare"
    BY <1>4, <1>5, <2>2
  <2>5. /\ \A o : FilePlaces(opts, mem, input, next, o) = Cfg!PlacesIn("read_file", opts, mem, input, next, o)
        /\ \A o : FilePlaces(opts', mem', input, next', o)
                    = Cfg!PlacesIn("read_file", opts', mem', input, next', o)
    <3>1. NoneBare(input, next) /\ NoneBare(input, next')
      BY <1>5, <2>4 DEF NoneBare
    <3>. QED  BY <1>3, <3>1, LinesCount
  <2>6. ASSUME NEW k \in 1..5
        PROVE  Conf!ValueOf(k)' = FileIn(opts', mem', argv, next', k, Default(k))
    <3>. DEFINE d == ArgvIn(opts, mem, argv, Len(argv) + 1, k, Default(k))
    <3>1. ArgvIn(opts', mem', argv, Len(argv) + 1, k, Default(k)) = d
      BY <1>3
    <3>2. FileIn(opts, mem, argv, next, k, Default(k))
            = Cfg!LastIn("read_file", input, Cfg!PlacesIn("read_file", opts, mem, input, next, k), opts[k].type, d)
      BY <1>4, <2>5 DEF FileIn
    <3>. HIDE DEF d
    <3>3. Conf!ValueOf(k)'
            = Cfg!LastIn("read_file", input, Cfg!PlacesIn("read_file", opts', mem', input, next + 1, k), opts'[k].type, d)
      BY <1>3, <1>4, <1>6, <1>7, <2>2, <3>2, ValueIs
    <3>4. FileIn(opts', mem', argv, next', k, Default(k))
            = Cfg!LastIn("read_file", input, Cfg!PlacesIn("read_file", opts', mem', input, next', k), opts'[k].type, d)
      BY <1>3, <1>4, <2>5, <3>1 DEF FileIn
    <3>. QED  BY <2>2, <3>3, <3>4
  <2>7. \A k \in 1..5 : AskedSoFar(k)'
    BY <1>3, <2>1, <2>6, SoFarWillBe DEF SoFarIn, Reads
  <2>. QED  BY <1>3, <1>8, <2>1, <2>2, <2>3, <2>4, <2>7 DEF ReadAsAsked
<1>10. CASE call' = "none"
  <2>1. /\ at' = "values" /\ \A k \in 1..5 : Cfg!ValueOf(k)' = Cfg!ValueOf(k)
        /\ next > Len(input) \/ (next \in 1..Len(input) /\ input[next].kind = "bare")
    BY <1>1, <1>3, <1>10, CfgAssumes, Cfg!FileEnds
  <2>2. \A o : FilePlaces(opts, mem, input, Len(input) + 1, o) = FilePlaces(opts, mem, input, next, o)
    <3>1. CASE next > Len(input)
      <4>1. next = Len(input) + 1
        BY <1>3, <1>5, <3>1
      <4>. QED  BY <4>1
    <3>2. CASE next \in 1..Len(input) /\ input[next].kind = "bare"
      <4>1. Len(input) + 1 \in Nat /\ Len(input) + 1 >= next
        BY <1>5
      <4>2. \A end \in Nat : end >= next =>
              \A os, m, o : FilePlaces(os, m, input, end, o) = FilePlaces(os, m, input, next, o)
        BY <1>3, <1>5, <3>2, LinesEnd
      <4>. QED  BY <4>1, <4>2
    <3>. QED  BY <2>1, <3>1, <3>2
  <2>3. \A k \in 1..5 : Conf!ValueOf(k)' = FileIn(opts', mem', argv, Len(LinesIn(opts', mem', argv)) + 1, k, Default(k))
    <3>1. \A k \in 1..5 : FileIn(opts, mem, argv, Len(input) + 1, k, Default(k))
                            = FileIn(opts, mem, argv, next, k, Default(k))
      BY <1>4, <2>2 DEF FileIn
    <3>2. \A k \in 1..5 : Conf!ValueOf(k)' = Conf!ValueOf(k)
      BY <1>7, <2>1, ValueIs
    <3>. QED  BY <1>3, <1>4, <1>6, <3>1, <3>2
  <2>4. \A k \in 1..5 : AskedSoFar(k)'
    BY <1>3, <2>1, <2>3, SoFarWillBe DEF SoFarIn, Reads
  <2>. QED  BY <1>3, <1>8, <2>1, <2>4 DEF ReadAsAsked
<1>. QED  BY <1>9, <1>10

(* While the options are added, they have the values TFR_args gives them. *)
LEMMA AddingReads ==
    ASSUME ProgramInvariant, AddOptions \/ StoreOptions, ~failed', cfg_fault' = "none"
    PROVE  ReadAsAsked'
<1>1. CASE AddOptions
  <2>1. opts' = <<>> /\ at' = "adding"
    BY <1>1 DEF AddOptions, ConfStep, Conf!AddOptions, Conf!Enter, ProgramInvariant, DriverInvariant, Control
  <2>2. DOMAIN opts' = {}
    BY <2>1
  <2>. QED  BY <2>1, <2>2 DEF ReadAsAsked
<1>2. CASE StoreOptions
  <2>1. at = "adding" /\ cfg_fault = "none" /\ ~failed
    <3>1. Cfg!StoreStep /\ Conf!StoreStep /\ at = "adding"
      BY <1>2, AddIs DEF StoreOptions, ConfStep
    <3>2. failed => failed'
      BY <3>1, CfgAssumes, Cfg!FailedStays DEF Cfg!Next
    <3>. QED  BY <3>1, <3>2, LoopSteps
  <2>2. /\ Cfg!LibraryInvariant /\ Cfg!LibraryInvariant'
        /\ StockedTo(next - 1) /\ ReadAsAsked /\ next \in Nat /\ next >= 1
    <3>1. Cfg!LibraryInvariant /\ StockedTo(next - 1) /\ ReadAsAsked
      BY <2>1 DEF ProgramInvariant, DriverInvariant, Linked, Stocked
    <3>2. Cfg!LibraryInvariant'
      BY <1>2, <2>1, LibraryKept DEF Next, ArgsStep
    <3>3. next \in Nat /\ Len(opts) = next - 1 /\ Len(opts) \in Nat
      BY <3>1 DEF Cfg!LibraryInvariant, Cfg!TypeOK, StockedTo
    <3>. QED  BY <3>1, <3>2, <3>3
  <2>3. DOMAIN opts = 1..(next - 1) /\ DOMAIN opts' = 1..Len(opts')
    BY <2>2 DEF Cfg!LibraryInvariant, Cfg!TypeOK, StockedTo
  <2>4. \A k \in 1..(next - 1) : Conf!ValueOf(k) = Default(k)
    BY <2>1, <2>2, <2>3 DEF ReadAsAsked, AskedSoFar
  <2>5. CASE Cfg!StoreOption
    <3>1. /\ at' = "adding" /\ next' = next + 1 /\ StockedTo(next - 1)'
          /\ \A k \in 1..next : Conf!ValueOf(k)' = Default(k)
      BY <1>2, <2>4, <2>5, SlotAdded
    <3>2. DOMAIN opts' = 1..next
      BY <2>2, <2>3, <3>1 DEF StockedTo
    <3>3. \A k \in 1..next : AskedSoFar(k)'
      BY <3>1 DEF AskedSoFar
    <3>. QED  BY <3>1, <3>2, <3>3 DEF ReadAsAsked
  <2>6. CASE at' = "args" /\ next = 6 /\ UNCHANGED <<mem, opts, failed, cfg_fault>>
    <3>1. \A k \in 1..(next - 1) : Conf!ValueOf(k)' = Default(k)
      BY <2>4, <2>6 DEF Conf!ValueOf
    <3>2. \A k \in 1..(next - 1) : AskedSoFar(k)'
      BY <2>6, <3>1 DEF AskedSoFar
    <3>. QED  BY <2>3, <2>6, <3>2 DEF ReadAsAsked
  <2>. QED  BY <1>2, <2>5, <2>6, AddingStep
<1>. QED  BY <1>1, <1>2

(* A step that leaves the values, the arguments and the place alone. *)
LEMMA NothingRead ==
    ASSUME ProgramInvariant, UNCHANGED vars, ~failed', cfg_fault' = "none"
    PROVE  ReadAsAsked'
<1>1. UNCHANGED <<at, mem, opts, argv, next, input, failed, cfg_fault>>
  BY DEF vars, confVars, tableVars
<1>2. ReadAsAsked /\ Control /\ argv \in Seq(Text)
  BY CfgAssumes DEF ProgramInvariant, DriverInvariant, Control, Cfg!ClientAssumption
<1>3. Accepted' <=> Accepted
  BY <1>1, <1>2, FormIs, FormWillBe
<1>4. Lines' = Lines
  BY <1>1, <1>2, FormIs, FormWillBe
<1>5. ASSUME at \in Reads, NEW k \in DOMAIN opts PROVE AskedSoFar(k)'
  <2>1. AskedSoFar(k)
    BY <1>1, <1>2, <1>5 DEF ReadAsAsked, Reads
  <2>2. Conf!ValueOf(k)' = Conf!ValueOf(k)
    BY <1>1 DEF Conf!ValueOf
  <2>3. CASE at = "adding"
    BY <1>1, <2>1, <2>2, <2>3 DEF AskedSoFar
  <2>4. CASE at \in {"args", "reading", "argfile", "file", "values"}
    <3>1. StockedTo(5) /\ Cfg!LibraryInvariant
      BY <2>4, ValuesTaken
    <3>2. k \in 1..5
      BY <1>5, <3>1 DEF StockedTo, Cfg!LibraryInvariant, Cfg!TypeOK
    <3>3. /\ at = "reading" => next <= Len(argv) + 1
          /\ Conf!ValueOf(k) = SoFarIn(at, next, opts, mem, argv, k, Default(k))
      BY <1>1, <2>4, <3>1, <3>2, AskedNow
    <3>4. Cfg!FindIn(opts, mem, Options[k].name) = k
      BY <3>1, <3>2, StockedFacts, ArgsFindIs
    <3>5. next \in Nat
      BY <3>1 DEF Cfg!LibraryInvariant, Cfg!TypeOK
    <3>6. argv' \in Seq(Text) /\ at' \in Reads /\ (at' = "reading" => next' \in Nat /\ next' <= Len(argv') + 1)
      BY <1>1, <1>2, <1>5, <3>3, <3>5
    <3>7. AskedSoFar(k)' <=> Conf!ValueOf(k)' = SoFarIn(at', next', opts', mem', argv', k, Default(k))
      BY <1>1, <3>4, <3>6, SoFarWillBe
    <3>. QED  BY <1>1, <2>2, <3>3, <3>7
  <2>. QED  BY <1>5, <2>3, <2>4 DEF Reads
<1>. QED  BY <1>1, <1>2, <1>3, <1>4, <1>5 DEF ReadAsAsked, Reads

(* What is read is what the command line and the file say. *)
LEMMA ReadAsAskedStep ==
    ASSUME ProgramInvariant, [Next]_vars
    PROVE  ReadAsAsked'
<1>. SUFFICES ASSUME ~failed', cfg_fault' = "none" PROVE ReadAsAsked'
  BY DEF ReadAsAsked
<1>1. CASE at' \notin Reads \cup {"failed"}
  BY <1>1 DEF ReadAsAsked, Reads
<1>2. CASE UNCHANGED vars
  BY <1>2, NothingRead
<1>3. InitConfig \/ TakeValues \/ TakeNone \/ TFR_main \/ TFR_run \/ Report \/ Reported \/ ExitConfig \/ RunStep
      => at' \notin Reads \cup {"failed"}
  BY EndsWell DEF Reads, InitConfig, TakeValues, TakeNone, TFR_main, TFR_run, Report, Reported, ExitConfig, RunStep,
     ConfStep, FrameStep
<1>. QED  BY <1>1, <1>2, <1>3, AddingReads, ArgsStart, ArgsGoOn, FileStart, FileGoesOn DEF Next, ArgsStep

-----------------------------------------------------------------------------
(* What TFR_args takes of it.                                              *)
LEMMA AskedIs ==
    argv \in Seq(Text) =>
      \A name, d : Asked(name, d) = FileIn(opts, mem, argv, Len(LinesIn(opts, mem, argv)) + 1,
                                           Cfg!FindIn(opts, mem, name), d)
BY FormIs DEF Asked

LEMMA AskedWillBe ==
    argv' \in Seq(Text) =>
      \A name, d : Asked(name, d)' = FileIn(opts', mem', argv', Len(LinesIn(opts', mem', argv')) + 1,
                                            Cfg!FindIn(opts', mem', name), d)
<1>1. (argv \in Seq(Text) =>
      \A name, d : Asked(name, d) = FileIn(opts, mem, argv, Len(LinesIn(opts, mem, argv)) + 1,
                                           Cfg!FindIn(opts, mem, name), d))'
  BY AskedIs, PTL
<1>. QED  BY <1>1

Four == {"focus", "verbosity", "help", "?"}

(* Whatever the program does then, what it was asked for does not change. *)
LEMMA AskedKept ==
    ASSUME ProgramInvariant, [Next]_vars, at \in {"values", "main"}, StockedTo(5)
    PROVE  /\ Accepted' <=> Accepted
           /\ \A name \in Four : \A d : Asked(name, d)' = Asked(name, d)
<1>1. /\ \A k \in 1..5 : /\ Cfg!FindIn(opts, mem, Options[k].name) = k
                        /\ Cfg!FindIn(opts', mem', Options[k].name) = k
      /\ argv' = argv /\ argv \in Seq(Text)
      /\ LinesIn(opts', mem', argv) = LinesIn(opts, mem, argv)
      /\ AcceptedIn(opts', mem', argv) <=> AcceptedIn(opts, mem, argv)
      /\ \A n, d : \A o \in 1..5 : FileIn(opts', mem', argv, n, o, d) = FileIn(opts, mem, argv, n, o, d)
  BY ReadingFacts
<1>2. \A name \in Four : \E k \in 1..5 : name = Options[k].name
  BY OptionFacts DEF Four
<1>3. Accepted' <=> Accepted
  BY <1>1, FormIs, FormWillBe
<1>4. ASSUME NEW name \in Four, NEW d PROVE Asked(name, d)' = Asked(name, d)
  <2>1. PICK k \in 1..5 : name = Options[k].name
    BY <1>2
  <2>2. Cfg!FindIn(opts, mem, name) = k /\ Cfg!FindIn(opts', mem', name) = k
    BY <1>1, <2>1
  <2>3. /\ Asked(name, d) = FileIn(opts, mem, argv, Len(LinesIn(opts, mem, argv)) + 1, k, d)
        /\ Asked(name, d)' = FileIn(opts', mem', argv, Len(LinesIn(opts, mem, argv)) + 1, k, d)
    BY <1>1, <2>2, AskedIs, AskedWillBe
  <2>. QED  BY <1>1, <2>1, <2>3
<1>. QED  BY <1>3, <1>4

(* Once everything is read, the options have the values that are asked for. *)
LEMMA ValuesAsked ==
    ASSUME ProgramInvariant, at = "values", ~failed
    PROVE  /\ Accepted /\ StockedTo(5)
           /\ Value("focus") = Asked("focus", NULL) /\ Value("verbosity") = Asked("verbosity", 0)
           /\ Value("help") = Asked("help", 0) /\ Value("?") = Asked("?", 0)
<1>1. Control /\ ReadAsAsked /\ cfg_fault = "none" /\ Cfg!LibraryInvariant /\ StockedTo(5)
  BY ValuesTaken DEF ProgramInvariant, DriverInvariant, Control
<1>2. Accepted
  BY <1>1 DEF ReadAsAsked
<1>3. argv \in Seq(Text)
  BY <1>1, CfgAssumes DEF Control, Cfg!ClientAssumption
<1>4. \A k \in 1..5 : Cfg!FindIn(opts, mem, Options[k].name) = k /\ Value(Options[k].name) = Conf!ValueOf(k)
  BY <1>1, StockedFacts, ArgsFindIs DEF Value
<1>5. \A k \in 1..5 :
         Conf!ValueOf(k) = FileIn(opts, mem, argv, Len(LinesIn(opts, mem, argv)) + 1, k, Default(k))
  BY <1>1, AskedNow DEF SoFarIn
<1>6. \A k \in 1..5 : Value(Options[k].name) = Asked(Options[k].name, Default(k))
  BY <1>3, <1>4, <1>5, AskedIs
<1>7. Default(4) = NULL /\ Default(5) = 0 /\ Default(1) = 0 /\ Default(2) = 0
  BY OptionFacts DEF Default
<1>. QED  BY <1>1, <1>2, <1>6, <1>7, OptionFacts

LEMMA AsAskedStep ==
    ASSUME ProgramInvariant, [Next]_vars, at' = "main", phase' = "main", ~failed'
    PROVE  AsAsked'
<1>0. Control /\ Focused /\ Stocked /\ ReadAsAsked /\ OptionsAsAsked
  BY DEF ProgramInvariant, DriverInvariant
<1>1. CASE TakeValues
  <2>1. at = "values" /\ ~failed
    <3>1. at = "values" /\ mem \in Seq(Cfg!Content) /\ failed \in BOOLEAN /\ FocusRead \in Text \cup {NULL}
      BY <1>1, TakeAllocates, ValuesTaken DEF TakeValues, Cfg!LibraryInvariant, Cfg!TypeOK, FocusRead
    <3>2. \E ok \in Conf!Grant : Copied(FocusRead, ok)
      BY <1>1 DEF TakeValues
    <3>. QED  BY <3>1, <3>2 DEF Copied
  <2>2. /\ Accepted /\ StockedTo(5)
        /\ FocusRead = Asked("focus", NULL) /\ Value("verbosity") = Asked("verbosity", 0)
        /\ Value("help") = Asked("help", 0) /\ Value("?") = Asked("?", 0)
    BY <2>1, ValuesAsked DEF FocusRead
  <2>3. focus' = FocusRead
    BY <1>1, TakeAllocates DEF Frame!StoredFocus
  <2>4. /\ verbose' = (Value("verbosity") # 0)
        /\ help' = (Value("help") = 1 \/ Value("?") = 1)
    BY <1>1 DEF TakeValues
  <2>5. Accepted' /\ \A name \in Four : \A d : Asked(name, d)' = Asked(name, d)
    BY <2>1, <2>2, AskedKept
  <2>6. /\ focus' = Asked("focus", NULL)'
        /\ verbose' = (Asked("verbosity", 0)' # 0)
        /\ help' = (Asked("help", 0)' = 1 \/ Asked("?", 0)' = 1)
    BY <2>2, <2>3, <2>4, <2>5 DEF Four
  <2>. QED  BY <2>5, <2>6 DEF AsAsked
<1>2. CASE TakeNone
  <2>1. /\ at = "failed" /\ UNCHANGED <<mem, opts, argv, failed, cfg_fault, focus, verbose, help>>
    BY <1>2 DEF TakeNone, confVars, tableVars
  <2>2. ~Accepted /\ focus' = NULL /\ verbose' = FALSE /\ help' = FALSE /\ argv \in Seq(Text)
    BY <1>0, <2>1, CfgAssumes DEF Control, Focused, ReadAsAsked, InTFR_args, Cfg!ClientAssumption
  <2>3. ~Accepted'
    BY <2>1, <2>2, FormIs, FormWillBe
  <2>. QED  BY <2>2, <2>3 DEF AsAsked
<1>3. CASE TFR_main \/ UNCHANGED vars
  <2>1. /\ at = "main" /\ UNCHANGED <<failed, verbose, help>>
        /\ storage' # "static" => focus' = focus /\ storage # "static"
    <3>1. CASE UNCHANGED vars
      BY <3>1 DEF vars, confVars, frameVars
    <3>2. CASE TFR_main
      <4>1. /\ at = "main" /\ UNCHANGED <<failed, verbose, help>>
            /\ \/ UNCHANGED <<focus, storage>>
               \/ \E f \in MainFocus : focus' = f /\ storage' = IF f = NULL THEN "none" ELSE "static"
        BY <3>2 DEF TFR_main, FrameStep, Frame!TFR_set_focus, Frame!TFR_SUITE_DECLARE_M, Frame!TFR_SUITE_ADD_M,
           Frame!UnitOverrun, Frame!Halt, Frame!optionVars, confVars
      <4>2. \A f \in MainFocus : f # NULL
        BY DriverAssumption, CfgAssumes DEF Cfg!HeapAssumption
      <4>. QED  BY <4>1, <4>2
    <3>. QED  BY <1>3, <3>1, <3>2
  <2>2. phase = "main" /\ StockedTo(5)
    BY <1>0, <2>1, OptionFacts DEF Control, Stocked, InTFR_args
  <2>3. (Accepted' <=> Accepted) /\ \A name \in Four : \A d : Asked(name, d)' = Asked(name, d)
    BY <2>1, <2>2, AskedKept
  <2>4. /\ storage # "static" => focus = IF Accepted THEN Asked("focus", NULL) ELSE NULL
        /\ verbose <=> Accepted /\ Asked("verbosity", 0) # 0
        /\ help <=> Accepted /\ 1 \in {Asked("help", 0), Asked("?", 0)}
    BY <1>0, <2>1, <2>2 DEF OptionsAsAsked, AsAsked
  <2>5. /\ Asked("focus", NULL)' = Asked("focus", NULL) /\ Asked("verbosity", 0)' = Asked("verbosity", 0)
        /\ Asked("help", 0)' = Asked("help", 0) /\ Asked("?", 0)' = Asked("?", 0)
    BY <2>3 DEF Four
  <2>6. /\ storage' # "static" => focus' = IF Accepted' THEN Asked("focus", NULL)' ELSE NULL
        /\ verbose' <=> Accepted' /\ Asked("verbosity", 0)' # 0
        /\ help' <=> Accepted' /\ 1 \in {Asked("help", 0)', Asked("?", 0)'}
    BY <2>1, <2>3, <2>4, <2>5
  <2>. QED  BY <2>6 DEF AsAsked
<1>4. at' = "main" => TakeValues \/ TakeNone \/ TFR_main \/ UNCHANGED vars
  BY EndsWell DEF Next, ArgsStep, InitConfig, AddOptions, StoreOptions, ReadArgs, ReadArg, ReadFile, ReadLine,
     TFR_run, Report, Reported, ExitConfig, RunStep, ConfStep, FrameStep, After
<1>. QED  BY <1>1, <1>2, <1>3, <1>4

LEMMA OptionsAsAskedStep ==
    ASSUME ProgramInvariant, [Next]_vars
    PROVE  OptionsAsAsked'
<1>1. at' = "main" /\ (help' \/ verbose' \/ storage' = "heap") => StockedTo(Len(Options))'
  BY StockedStep DEF Stocked
<1>2. at' = "main" /\ phase' = "main" /\ ~failed' => AsAsked'
  BY AsAskedStep
<1>. QED  BY <1>1, <1>2 DEF OptionsAsAsked

-----------------------------------------------------------------------------
(* The invariant of the program.                                           *)
LEMMA ProgramInit ==
    ASSUME Init
    PROVE  ProgramInvariant
<1>1. Cfg!LibraryInvariant /\ at = "init"
  BY InitIs, CfgAssumes, Cfg!InitLibrary DEF Init
<1>2. Control
  BY DEF Init, Conf!Init, Frame!Init, Control, InTFR_args
<1>3. Focused
  BY DEF Init, Frame!Init, Focused, InTFR_args
<1>4. Stocked /\ ReadAsAsked /\ Released /\ OptionsAsAsked
  BY DEF Init, Stocked, ReadAsAsked, Released, OptionsAsAsked
<1>. QED  BY <1>1, <1>2, <1>3, <1>4 DEF ProgramInvariant, DriverInvariant, Linked

LEMMA ProgramStep ==
    ASSUME ProgramInvariant, [Next]_vars
    PROVE  ProgramInvariant'
BY ControlStep, FocusedStep, StockedStep, ReadAsAskedStep, ReleasedStep, OptionsAsAskedStep, LinkedKept
   DEF ProgramInvariant, DriverInvariant

(* Where TFR_args, TFR_main and TFR_run stand says which call of miniconf  *)
(* runs, what the table holds and what of the command line and the file is *)
(* read, and miniconf keeps its own invariant although the program         *)
(* allocates in its heap (test.c:144-155, 306-353).                        *)
THEOREM ProgramInvariantHolds == Spec => []ProgramInvariant
<1>1. Init => ProgramInvariant
  BY ProgramInit
<1>2. ProgramInvariant /\ [Next]_vars => ProgramInvariant'
  BY ProgramStep
<1>. QED  BY <1>1, <1>2, PTL DEF Spec

(* A program whose TFR_args reads a real command line and a real file with *)
(* miniconf does nothing that testframe on its own, with any options at    *)
(* all, does not do: the focus it runs with is the copy, which cfg_exit    *)
(* does not free (test.c:67-86, 144-155, 306-353).                         *)
THEOREM ImplementsFrameHolds == Spec => ImplementsFrame
<1>1. Init => Frame!Init /\ ProgramInvariant
  BY FrameInit, ProgramInit
<1>2. ProgramInvariant /\ [Next]_vars => ProgramInvariant' /\ [Frame!Next]_(Frame!vars)
  BY ProgramStep, FrameMoves
<1>. QED  BY <1>1, <1>2, PTL DEF Spec, ImplementsFrame, Frame!Spec

(* When TFR_main runs, the focus, the verbosity and -help are what the     *)
(* command line and then the file it names ask for, or none of it if an    *)
(* argument is refused, for any command lines and any files; if memory ran *)
(* out, nothing is taken from a table that is not complete                 *)
(* (test.c:328-343).                                                       *)
THEOREM OptionsAsAskedHolds == Spec => []OptionsAsAsked
<1>1. ProgramInvariant => OptionsAsAsked
  BY DEF ProgramInvariant, DriverInvariant
<1>. QED  BY <1>1, ProgramInvariantHolds, PTL

(* When the help is asked for, the report has a line for every option of   *)
(* TFR_args, whatever allocations were refused, and none names a type      *)
(* (test.c:67-86, util.c:14-79).                                           *)
THEOREM HelpCompleteHolds == Spec => []HelpComplete
<1>1. Init => HelpComplete
  BY DEF Init, Frame!Init, HelpComplete
<1>2. ASSUME ProgramInvariant, ProgramInvariant', HelpComplete, [Next]_vars
      PROVE  HelpComplete'
  <2>. SUFFICES ASSUME help', at' = "exit" PROVE HelpComplete'
    BY DEF HelpComplete
  <2>1. shown' \in Seq({NULL}) /\ Stocked /\ Focused
    BY <1>2 DEF ProgramInvariant, DriverInvariant, Control
  <2>2. CASE Reported
    <3>1. at = "report" /\ shown' = shown /\ Len(shown) = Len(opts)
      BY <2>2 DEF Reported, ConfStep
    <3>2. StockedTo(Len(Options))
      BY <2>1, <3>1 DEF Stocked, Focused
    <3>3. Len(shown') = Len(Options)'
      BY <3>1, <3>2, OptionFacts DEF StockedTo
    <3>. QED  BY <2>1, <3>3 DEF HelpComplete
  <2>3. CASE UNCHANGED vars
    <3>1. UNCHANGED <<help, at, shown>>
      BY <2>3 DEF vars, frameVars
    <3>2. Len(Options)' = Len(Options)
      BY OptionFacts
    <3>. QED  BY <1>2, <3>1, <3>2 DEF HelpComplete
  <2>4. Reported \/ UNCHANGED vars
    BY <1>2, EndsWell DEF Next, ArgsStep, InitConfig, AddOptions, StoreOptions, ReadArgs, ReadArg, ReadFile,
       ReadLine, TakeValues, TakeNone, TFR_main, TFR_run, Report, ExitConfig, RunStep, ConfStep, FrameStep,
       After, frameVars
  <2>. QED  BY <2>2, <2>3, <2>4
<1>. QED  BY <1>1, <1>2, ProgramInvariantHolds, PTL DEF Spec

(* Memory is lost in the two known places only, whatever is read and       *)
(* whichever allocations fail; when the program returns all else is freed, *)
(* but for the copy of the focus if -help was given (config.c:280,         *)
(* test.c:112, 151-154, 260).                                              *)
THEOREM OnlyKnownLeaksHolds == Spec => OnlyKnownLeaks
<1>1. ASSUME ProgramInvariant, [Next]_vars
      PROVE  [ /\ Lost' \subseteq Lost \cup
                     (IF at = "reading" /\ state = "CAPTURE" THEN {opts[Conf!cfg_find(current_option)].str}
                      ELSE IF at = "main" /\ storage' = "static" THEN {copy} ELSE {})
               /\ phase' = "done" =>
                    \A a \in DOMAIN mem' : mem'[a] # Freed => a \in Lost' \/ (help /\ a = copy) ]_vars
  <2>1. CASE UNCHANGED vars
    BY <2>1
  <2>2. CASE Next
    <3>1. Lost' \subseteq Lost \cup
             (IF at = "reading" /\ state = "CAPTURE" THEN {opts[Conf!cfg_find(current_option)].str}
              ELSE IF at = "main" /\ storage' = "static" THEN {copy} ELSE {})
      BY <1>1, LeaksKnown
    <3>2. phase' = "done" => \A a \in DOMAIN mem' : mem'[a] # Freed => a \in Lost' \/ (help /\ a = copy)
      BY <1>1, <2>2, EndsClean
    <3>. QED  BY <3>1, <3>2
  <2>. QED  BY <1>1, <2>1, <2>2
<1>. QED  BY <1>1, ProgramInvariantHolds, PTL DEF Spec, OnlyKnownLeaks

(* Whatever is on the command line and in the file, and whichever          *)
(* allocations fail, a test program reads and frees nothing through        *)
(* miniconf that it must not: TFR_args gives up when an option cannot be   *)
(* added, before anything is looked up in the half-filled table            *)
(* (test.c:328, config.c:115-134).                                     *)
THEOREM DriverWellDefined == Spec => [](cfg_fault # "undefined")
<1>1. ASSUME ProgramInvariant, cfg_fault = "undefined" PROVE FALSE
  <2>1. at \in {"adding", "args", "reading", "file"} /\ Cfg!LibraryInvariant
    BY <1>1 DEF ProgramInvariant, DriverInvariant, Control, Linked
  <2>2. PICK k \in DOMAIN opts : opts[k].name = NULL
    BY <1>1, <2>1 DEF Cfg!LibraryInvariant, Cfg!MemoryInvariant, Cfg!NothingUndefined
  <2>3. StockedTo(next - 1) \/ StockedTo(5)
    BY <1>1, <2>1, OptionFacts DEF ProgramInvariant, DriverInvariant, Stocked
  <2>4. PICK n : StockedTo(n)
    BY <2>3
  <2>5. k \in 1..n
    BY <2>1, <2>4 DEF StockedTo, Cfg!LibraryInvariant, Cfg!TypeOK
  <2>6. Cfg!Live(mem, opts[k].name)
    <3>1. Cfg!StoredAs(k, Options[k])
      BY <2>4, <2>5, StoredIs DEF StockedTo
    <3>. QED  BY <3>1 DEF Cfg!StoredAs
  <2>7. opts[k].name # NULL
    <3>1. DOMAIN mem \subseteq Nat
      BY <2>1 DEF Cfg!LibraryInvariant, Cfg!TypeOK
    <3>. QED  BY <2>6, <3>1, CfgAssumes DEF Cfg!Live, Cfg!HeapAssumption
  <2>. QED  BY <2>2, <2>7
<1>2. ProgramInvariant => cfg_fault # "undefined"
  BY <1>1
<1>. QED  BY <1>2, ProgramInvariantHolds, PTL

=============================================================================
