------------------------------ MODULE Miniconf ------------------------------
(***************************************************************************)
(* miniconf as a client drives it: cfg_init, any calls of the API in any   *)
(* order, cfg_exit.  Its parts are CfgOptions (the table), CfgArgs         *)
(* (cfg_read_args) and CfgFile (cfg_read_file).  The library is            *)
(* single-threaded: while a call runs only its own steps happen.           *)
(***************************************************************************)
EXTENDS CfgArgs, CfgFile

CONSTANTS
    OptionLists,    \* arrays a client may pass to cfg_add_options
    ArgVectors,     \* argument vectors it may pass to cfg_read_args
    ConfigFiles,    \* what cfg_read_file may find: lines, or NULL for no file
    Keys,           \* keys it passes to the accessors
    Numbers,        \* values it passes to cfg_set_int and cfg_set_float
    Strings,        \* values it passes to cfg_set_string
    MaxCells,       \* bound: no call starts once this many cells were allocated (NULL: no bound)
    MaxLives        \* bound on the calls of cfg_init

(* The value of a switch is a cfgBool (config.h:177). *)
Switches(list) == \A k \in DOMAIN list : list[k].type = "SWITCH" => list[k].num \in 0..1

ASSUME ClientAssumption ==
    /\ \A list \in OptionLists : list \in Seq(Option) /\ Switches(list)
    /\ \A argv \in ArgVectors : argv \in Seq(Text) /\ argv # <<>>
    /\ \A lines \in ConfigFiles \ {NULL} : lines \in Seq(Line)
    /\ NULL \notin Seq(Line) /\ NULL \notin Block
    /\ Keys \subseteq Text
    /\ Numbers \subseteq Int
    /\ Strings \subseteq Text \cup {NULL}
    /\ MaxFiles \in Nat /\ MaxCells \in Nat \cup {NULL} /\ MaxLives \in Nat

-----------------------------------------------------------------------------
(* The blocks of memory miniconf holds a pointer to, by holder: the four   *)
(* strings of an option, the vector (0) and the items of an argument       *)
(* block, the line buffer.                                                 *)
AllBlocks == IF block = NULL THEN blocks ELSE Append(blocks, block)

OptionOwners == {"option"} \X (DOMAIN opts) \X (1..4)
ArgOwners == UNION { {"args"} \X {k} \X (0..Len(AllBlocks[k].items)) : k \in DOMAIN AllBlocks }
Owners == OptionOwners \cup ArgOwners \cup {<<"buffer", 1, 0>>}

Points(o) ==
    CASE o[1] = "option" -> LET slot == opts[o[2]]
                            IN  <<slot.name, slot.abbrev, slot.desc, slot.str>>[o[3]]
      [] o[1] = "args"   -> IF o[3] = 0 THEN AllBlocks[o[2]].v
                                        ELSE AllBlocks[o[2]].items[o[3]]
      [] o[1] = "buffer" -> buffer

Owned == {Points(o) : o \in Owners} \ {NULL}

-----------------------------------------------------------------------------
cfg_init ==
    /\ fault = "none" /\ call = "none" /\ ~initialized
    /\ lives < MaxLives
    /\ initialized' = TRUE /\ lives' = lives + 1 /\ result' = TRUE
    /\ UNCHANGED <<heapVars, opts, argVars, fileVars, call, input, next, fault>>

(* Variant of Disposed: the name is freed and stays in the slot. *)
Disposed_KeepsName(slot) == [slot EXCEPT !.abbrev = NULL, !.str = NULL, !.num = 0]

(* cfg_dispose_options clears every pointer but desc, and the slots stay   *)
(* counted; cfg_dispose_blocks forgets the blocks.                         *)
Disposed(slot) == [slot EXCEPT !.name = NULL, !.abbrev = NULL, !.str = NULL, !.num = 0]

cfg_exit ==
    /\ Idle
    /\ \A ptr \in Owned : Live(mem, ptr)
    /\ mem' = cfgFREE(mem, Owned)
    /\ opts' = [i \in DOMAIN opts |-> Disposed(opts[i])]
    /\ blocks' = <<>>
    /\ initialized' = FALSE
    /\ UNCHANGED <<failed, block, state, current_option, fileVars, callVars, lives, fault>>

(* free() of a pointer that was freed before. *)
ExitCrashes ==
    /\ Idle
    /\ \E ptr \in Owned : ~Live(mem, ptr)
    /\ Halt("undefined")

(* cfg_init asserts that the library is not initialised, cfg_exit that it is. *)
LifeHalts ==
    /\ fault = "none" /\ call = "none"
    /\ Halt("abort")

-----------------------------------------------------------------------------
Room == MaxCells = NULL \/ Len(mem) < MaxCells

ClientStep ==
    \/ cfg_init
    \/ cfg_exit
    \/ ExitCrashes
    \/ LifeHalts
    \/ \E list \in OptionLists : Room /\ AddOptions(list)
    \/ \E argv \in ArgVectors : Room /\ (ReadArgs(argv) \/ ReadArgsHalts(argv))
    \/ \E lines \in ConfigFiles :
          Room /\ (ReadFile(lines) \/ ReadFileMissing(lines) \/ ReadFileNoBuffer(lines))
    \/ \E key \in Keys, n \in Numbers, type \in {"INT", "FLOAT"} : cfg_set_number(type, key, n)
    \/ \E key \in Keys, b \in 0..1 : cfg_set_number("SWITCH", key, b)
    \/ \E key \in Keys, s \in Strings : Room /\ cfg_set_string(key, s)
    \/ \E key \in Keys, type \in ValueType : AccessHalts(type, key)

StoreStep == StoreOption \/ StoreHalts \/ AddOptionsReturns

Next == ClientStep \/ StoreStep \/ ArgStep \/ LineStep

Spec == Init /\ [][Next]_vars

(* A call that was entered runs on: its loop is ordinary sequential code.  *)
(* Nothing makes a client call.                                            *)
Fairness == WF_vars(StoreStep) /\ WF_vars(ArgStep) /\ WF_vars(LineStep)

FairSpec == Spec /\ Fairness

=============================================================================
