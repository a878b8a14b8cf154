------------------------------ MODULE CfgFile ------------------------------
(***************************************************************************)
(* cfg_read_file: the loop over the lines of a config file, one step per   *)
(* line, with the FILE and the line buffer it holds.                       *)
(***************************************************************************)
EXTENDS CfgOptions

CONSTANT MaxFiles   \* the files that may be open at once (FOPEN_MAX)

(* lines is NULL for a file that is not there. *)
Opens(lines) == lines # NULL /\ files < MaxFiles

ReadFileMissing(lines) ==
    /\ Idle /\ ~Opens(lines)
    /\ Return(FALSE)
    /\ UNCHANGED <<heapVars, opts, argVars, fileVars, lifeVars, fault>>

ReadFile(lines) ==
    /\ Idle /\ Opens(lines)
    /\ LET line == cfgALLOC(mem, Raw, TRUE)
       IN  mem' = line.mem /\ buffer' = line.ptr
    /\ files' = files + 1
    /\ Enter("read_file", lines, 1)
    /\ UNCHANGED <<failed, opts, argVars, lifeVars, fault>>

(* Without a buffer the call returns, and nobody closes the file. *)
ReadFileNoBuffer(lines) ==
    /\ Idle /\ Opens(lines) /\ CanFail
    /\ files' = files + 1 /\ failed' = TRUE
    /\ Return(FALSE)
    /\ UNCHANGED <<mem, opts, argVars, buffer, lifeVars, fault>>

-----------------------------------------------------------------------------
TheLine == input[next]
At(kinds) == In("read_file") /\ More /\ TheLine.kind \in kinds
Known == ~Crashes(TheLine.key)

(* Variant of Close: an early exit that skips fclose. *)
Close_KeepsFile(r) ==
    /\ files' = IF r THEN files - 1 ELSE files
    /\ mem' = cfgFREE(mem, {buffer}) /\ buffer' = NULL
    /\ Return(r)

(* Variant of Close: the file is closed twice. *)
Close_Twice(r) ==
    /\ files' = files - 2
    /\ mem' = cfgFREE(mem, {buffer}) /\ buffer' = NULL
    /\ Return(r)

(* Variant of Close: the freed buffer is kept for the next call. *)
Close_KeepsBuffer(r) ==
    /\ files' = files - 1
    /\ mem' = cfgFREE(mem, {buffer}) /\ UNCHANGED buffer
    /\ Return(r)

Close(r) ==
    /\ files' = files - 1
    /\ mem' = cfgFREE(mem, {buffer}) /\ buffer' = NULL
    /\ Return(r)

(* -switch and +switch, by cfg_set_switch and its assertions *)
LineSwitch ==
    /\ At({"on", "off"}) /\ Known /\ cfg_type(TheLine.key) = "SWITCH"
    /\ SetNumber(cfg_find(TheLine.key), IF TheLine.kind = "on" THEN 1 ELSE 0)
    /\ Advance
    /\ UNCHANGED <<argVars, fileVars, lifeVars, fault>>

(* option=value, by the setter of the option's type *)
LineValue ==
    /\ At({"set"}) /\ Known /\ cfg_type(TheLine.key) \in Capturing
    /\ LET i == cfg_find(TheLine.key)
       IN  IF opts[i].type = "STRING"
           THEN ReplaceString(i, TheLine.value)
           ELSE SetNumber(i, Number(opts[i].type, TheLine.value))
    /\ Advance
    /\ UNCHANGED <<argVars, fileVars, lifeVars, fault>>

(* Variant of LineSkipped: the next line is never fetched. *)
LineSkipped_Stays ==
    /\ At({"comment"})
    /\ UNCHANGED vars

(* A comment, or name=value where name is no option or is a switch. *)
LineSkipped ==
    /\ \/ At({"comment"})
       \/ At({"set"}) /\ Known /\ cfg_type(TheLine.key) \in {"NOEXIST", "SWITCH"}
    /\ Advance
    /\ UNCHANGED <<heapVars, opts, argVars, fileVars, lifeVars, fault>>

(* A line that is none of these ends the reading. *)
LineRefused ==
    /\ At({"bare"})
    /\ Close(FALSE)
    /\ UNCHANGED <<failed, opts, argVars, lifeVars, fault>>

LineHalts ==
    /\ \/ At({"unterminated"})
       \/ At({"on", "off"}) /\ Known /\ cfg_type(TheLine.key) # "SWITCH"
    /\ Halt("abort")

LineCrashes ==
    /\ At({"on", "off", "set"}) /\ ~Known
    /\ Halt("undefined")

FileReturns ==
    /\ In("read_file") /\ ~More
    /\ Close(TRUE)
    /\ UNCHANGED <<failed, opts, argVars, lifeVars, fault>>

LineStep == LineSwitch \/ LineValue \/ LineSkipped \/ LineRefused
            \/ LineHalts \/ LineCrashes \/ FileReturns

=============================================================================
