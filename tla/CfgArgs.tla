------------------------------ MODULE CfgArgs ------------------------------
(***************************************************************************)
(* cfg_read_args: the loop over argv, one step per argument, and the block *)
(* that collects the arguments it leaves to the caller.                    *)
(***************************************************************************)
EXTENDS CfgOptions

(* Room in the option limits asserted before the loop starts. *)
Admissible(argv) == Len(argv) < MaxArgs /\ Len(blocks) < MaxBlocks

(* Variant of NewBlock: a vector without room for argv[0]. *)
NewBlock_Short(vector, argc, ptr) == [v |-> vector, size |-> argc - 1, items |-> <<ptr>>]

(* cfg_new_block, and argv[0] copied into the block. *)
NewBlock(vector, argc, ptr) == [v |-> vector, size |-> argc, items |-> <<ptr>>]

(* Variant of FirstArg: the loop starts at argv[0]. *)
FirstArg_Zero == 1

(* argv[0] goes to the new block and is ignored from then on. *)
FirstArg == 2

(* The failure of the vector's allocation is an assertion (ReadArgsHalts). *)
ReadArgs(argv) ==
    /\ Idle /\ Admissible(argv)
    /\ LET vector == cfgALLOC(mem, Raw, TRUE)
       IN  \E ok \in Grant :
             LET first == cfg_copy_string(vector.mem, argv[1], ok)
             IN  /\ mem' = first.mem
                 /\ block' = NewBlock(vector.ptr, Len(argv), first.ptr)
                 /\ failed' = (failed \/ Refused(argv[1], first))
    /\ state' = "NORMAL" /\ current_option' = NULL
    /\ Enter("read_args", argv, FirstArg)
    /\ UNCHANGED <<opts, blocks, fileVars, lifeVars, fault>>

ReadArgsHalts(argv) ==
    /\ Idle
    /\ ~Admissible(argv) \/ CanFail
    /\ Halt("abort")

-----------------------------------------------------------------------------
(* The argument under the loop, and the key it, or the pending option,     *)
(* makes cfg_find look up.                                                 *)
Arg == input[next]
Key == IF state = "CAPTURE" THEN current_option ELSE Rest[Arg]
InArgs == In("read_args") /\ More
LooksUp == state = "CAPTURE" \/ First[Arg] # "other"
Normal(mark) == InArgs /\ state = "NORMAL" /\ First[Arg] = mark /\ ~Crashes(Rest[Arg])

Copy(s) ==
    \E ok \in Grant :
        LET copy == cfg_copy_string(mem, s, ok)
        IN  /\ mem' = copy.mem
            /\ block' = [block EXCEPT !.items = Append(@, copy.ptr)]
            /\ failed' = (failed \/ Refused(s, copy))

(* Variant of Finish: the block is filled and never counted. *)
Finish_Uncounted(r) ==
    /\ block' = NULL /\ UNCHANGED blocks
    /\ state' = "NORMAL" /\ current_option' = NULL
    /\ Return(r)

(* Variant of Finish: the caller is told that all went well. *)
Finish_True(r) ==
    /\ blocks' = Append(blocks, block) /\ block' = NULL
    /\ state' = "NORMAL" /\ current_option' = NULL
    /\ Return(TRUE)

(* cfg_finish_block, and the locals of cfg_read_args go out of scope. *)
Finish(r) ==
    /\ blocks' = Append(blocks, block) /\ block' = NULL
    /\ state' = "NORMAL" /\ current_option' = NULL
    /\ Return(r)

(* +switch *)
ArgSwitchOff ==
    /\ Normal("+") /\ cfg_type(Rest[Arg]) = "SWITCH"
    /\ SetNumber(cfg_find(Rest[Arg]), 0)
    /\ Advance
    /\ UNCHANGED <<argVars, fileVars, lifeVars, fault>>

(* +anything else: the call fails there and then. *)
ArgRefused ==
    /\ Normal("+") /\ cfg_type(Rest[Arg]) # "SWITCH"
    /\ Finish(FALSE)
    /\ UNCHANGED <<heapVars, opts, fileVars, lifeVars, fault>>

(* -switch *)
ArgSwitchOn ==
    /\ Normal("-") /\ cfg_type(Rest[Arg]) = "SWITCH"
    /\ SetNumber(cfg_find(Rest[Arg]), 1)
    /\ Advance
    /\ UNCHANGED <<argVars, fileVars, lifeVars, fault>>

(* -option: the argument after it, whatever it looks like, is its value. *)
ArgCapture ==
    /\ Normal("-") /\ cfg_type(Rest[Arg]) \in Capturing
    /\ state' = "CAPTURE" /\ current_option' = Rest[Arg]
    /\ Advance
    /\ UNCHANGED <<heapVars, opts, blocks, block, fileVars, lifeVars, fault>>

(* Anything else is left to the caller. *)
ArgCopied ==
    /\ \/ Normal("-") /\ cfg_type(Rest[Arg]) = "NOEXIST"
       \/ InArgs /\ state = "NORMAL" /\ First[Arg] = "other"
    /\ Copy(Arg)
    /\ Advance
    /\ UNCHANGED <<opts, blocks, state, current_option, fileVars, lifeVars, fault>>

(* Variant of Assign: the first value given stays. *)
Assign_KeepsFirst(i, s) ==
    /\ opts' = [opts EXCEPT ![i].num = IF opts[i].input THEN @ ELSE Number(opts[i].type, s),
                            ![i].input = TRUE]
    /\ UNCHANGED heapVars

(* Variant of Assign: a number is not marked as input. *)
Assign_NoFlag(i, s) ==
    IF opts[i].type = "STRING"
    THEN \E ok \in Grant : SetString(mem, i, s, ok)
    ELSE opts' = [opts EXCEPT ![i].num = Number(opts[i].type, s)] /\ UNCHANGED heapVars

(* cfg_copy_to_option.  A string's old value is overwritten, not freed. *)
Assign(i, s) ==
    IF opts[i].type = "STRING"
    THEN \E ok \in Grant : SetString(mem, i, s, ok)
    ELSE SetNumber(i, Number(opts[i].type, s))

(* Variant of ArgValue: the state is not reset. *)
ArgValue_StillCapturing ==
    /\ InArgs /\ state = "CAPTURE" /\ ~Crashes(current_option)
    /\ Assign(cfg_find(current_option), Arg)
    /\ Advance
    /\ UNCHANGED <<argVars, fileVars, lifeVars, fault>>

ArgValue ==
    /\ InArgs /\ state = "CAPTURE" /\ ~Crashes(current_option)
    /\ Assign(cfg_find(current_option), Arg)
    /\ state' = "NORMAL" /\ current_option' = NULL
    /\ Advance
    /\ UNCHANGED <<blocks, block, fileVars, lifeVars, fault>>

ArgCrashes ==
    /\ InArgs /\ LooksUp /\ Crashes(Key)
    /\ Halt("undefined")

ArgsReturn ==
    /\ In("read_args") /\ ~More
    /\ Finish(TRUE)
    /\ UNCHANGED <<heapVars, opts, fileVars, lifeVars, fault>>

ArgStep == ArgSwitchOff \/ ArgRefused \/ ArgSwitchOn \/ ArgCapture
           \/ ArgCopied \/ ArgValue \/ ArgCrashes \/ ArgsReturn

=============================================================================
