----------------------------- MODULE CfgOptions -----------------------------
(***************************************************************************)
(* The option table of miniconf: cfg_find, cfg_add_options with cfg_store, *)
(* the queries and the cfg_set_ functions.                                 *)
(***************************************************************************)
EXTENDS CfgState, FiniteSetsExt

(* cfg_find compares a key with the name of each slot, then with the        *)
(* abbreviation if there is one, and stops at the first slot that matches. *)
(* strcmp of a null or freed name has no meaning: the scan stops there too *)
(* and the program with it (Crashes).                                      *)
Matches(i, key) ==
    \/ mem[opts[i].name] = key
    \/ Live(mem, opts[i].abbrev) /\ mem[opts[i].abbrev] = key

StopsAt(i, key) == Live(mem, opts[i].name) => Matches(i, key)

(* The index of the option, 0 for none. *)
cfg_find(key) ==
    LET hits == {i \in DOMAIN opts : StopsAt(i, key)}
    IN  IF hits = {} THEN 0 ELSE Min(hits)

Crashes(key) == cfg_find(key) # 0 /\ ~Live(mem, opts[cfg_find(key)].name)

cfg_type(key) == IF cfg_find(key) = 0 THEN "NOEXIST" ELSE opts[cfg_find(key)].type

cfg_input(key) == cfg_find(key) # 0 /\ opts[cfg_find(key)].input

(* What cfg_switch, cfg_int, cfg_float (num) or cfg_string return. *)
ValueOf(i) == IF opts[i].type # "STRING" THEN opts[i].num
              ELSE IF opts[i].str = NULL THEN NULL ELSE mem[opts[i].str]

-----------------------------------------------------------------------------
(* cfg_add_options: one step per option of the array. *)

AddOptions(list) ==
    /\ Idle
    /\ Enter("add_options", list, 1)
    /\ UNCHANGED <<heapVars, opts, argVars, fileVars, lifeVars, fault>>

(* Variant of Storable: any number of options of the same name. *)
Storable_Duplicates(o) == Len(opts) < MaxOptions /\ ~Crashes(o.name)

(* The assertions of cfg_store. *)
Storable(o) == Len(opts) < MaxOptions /\ cfg_find(o.name) = 0

(* Variant of Complete: a lost abbreviation goes unnoticed. *)
Complete_NameOnly(o, name, abbrev) == name.ptr # NULL

(* cfg_store reports a name or an abbreviation it could not copy; a        *)
(* description or a string value it lost it does not.                      *)
Complete(o, name, abbrev) == name.ptr # NULL /\ (abbrev.ptr = NULL <=> o.abbrev = NULL)

(* The slot is counted before anything is allocated, and stays counted     *)
(* when its name cannot be: the call then returns false.                   *)
cfg_store(o, ok) ==
    LET name   == cfg_copy_string(mem, o.name, ok[1])
        abbrev == cfg_copy_string(name.mem, o.abbrev, ok[2])
        desc   == cfg_copy_string(abbrev.mem, o.desc, ok[3])
        value  == IF o.type = "STRING" THEN o.str ELSE NULL
        str    == cfg_copy_string(desc.mem, value, ok[4])
    IN  /\ mem' = str.mem
        /\ opts' = Append(opts, [name |-> name.ptr, abbrev |-> abbrev.ptr,
                                 desc |-> desc.ptr, type |-> o.type,
                                 num |-> o.num, str |-> str.ptr, input |-> FALSE])
        /\ failed' = (\/ failed
                      \/ Refused(o.name, name) \/ Refused(o.abbrev, abbrev)
                      \/ Refused(o.desc, desc) \/ Refused(value, str))
        /\ IF Complete(o, name, abbrev) THEN Advance ELSE Return(FALSE)

StoreOption ==
    /\ In("add_options") /\ More
    /\ Storable(input[next])
    /\ \E ok \in [1..4 -> Grant] : cfg_store(input[next], ok)
    /\ UNCHANGED <<argVars, fileVars, lifeVars, fault>>

StoreHalts ==
    /\ In("add_options") /\ More
    /\ ~Storable(input[next])
    /\ Halt(IF Len(opts) < MaxOptions /\ Crashes(input[next].name)
            THEN "undefined" ELSE "abort")

AddOptionsReturns ==
    /\ In("add_options") /\ ~More
    /\ Return(TRUE)
    /\ UNCHANGED <<heapVars, opts, argVars, fileVars, lifeVars, fault>>

-----------------------------------------------------------------------------
(* Assignment, by the public setters and by the readers of arguments and   *)
(* files.                                                                  *)

SetNumber(i, n) ==
    /\ opts' = [opts EXCEPT ![i].num = n, ![i].input = TRUE]
    /\ UNCHANGED heapVars

(* Variant of SetString: when malloc refuses, the old pointer stays. *)
SetString_KeepsOld(m, i, s, ok) ==
    LET copy == cfg_copy_string(m, s, ok)
    IN  /\ mem' = copy.mem
        /\ opts' = [opts EXCEPT ![i].str = IF copy.ptr = NULL THEN @ ELSE copy.ptr,
                                ![i].input = TRUE]
        /\ failed' = (failed \/ Refused(s, copy))

(* u.s becomes a copy of s in memory m, which is NULL if malloc refuses. *)
SetString(m, i, s, ok) ==
    LET copy == cfg_copy_string(m, s, ok)
    IN  /\ mem' = copy.mem
        /\ opts' = [opts EXCEPT ![i].str = copy.ptr, ![i].input = TRUE]
        /\ failed' = (failed \/ Refused(s, copy))

Number(type, s) == IF type = "INT" THEN Atoi[s] ELSE Atof[s]

(* The body of cfg_set_string after its assertions: the old value is freed *)
(* before the new one is copied.                                           *)
ReplaceString(i, s) ==
    \E ok \in Grant : SetString(cfgFREE(mem, {opts[i].str}), i, s, ok)

(* cfg_set_switch, cfg_set_int and cfg_set_float of a client. *)
cfg_set_number(type, key, n) ==
    /\ Idle /\ ~Crashes(key) /\ cfg_type(key) = type
    /\ SetNumber(cfg_find(key), n)
    /\ UNCHANGED <<argVars, fileVars, callVars, lifeVars, fault>>

cfg_set_string(key, s) ==
    /\ Idle /\ ~Crashes(key) /\ cfg_type(key) = "STRING"
    /\ ReplaceString(cfg_find(key), s)
    /\ UNCHANGED <<argVars, fileVars, callVars, lifeVars, fault>>

(* Every accessor asserts that its key exists and has its type. *)
AccessHalts(type, key) ==
    /\ Idle
    /\ Crashes(key) \/ cfg_type(key) # type
    /\ Halt(IF Crashes(key) THEN "undefined" ELSE "abort")

=============================================================================
