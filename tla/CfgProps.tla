------------------------------ MODULE CfgProps ------------------------------
(***************************************************************************)
(* What miniconf must satisfy: the properties the runs check and the       *)
(* theorems prove.  The reference readings of an argument vector and of a  *)
(* config file are stated without the loops of the code.                   *)
(***************************************************************************)
EXTENDS Miniconf

(* Lookup by name: whatever abbreviations were given, even one equal to    *)
(* another option's name or abbreviation, the name of a stored option      *)
(* finds that option and no other (cfg_find, config.c:88-104; cfg_store    *)
(* tests names only, config.c:113).                                        *)
NameLookup ==
    \A i \in DOMAIN opts :
        Live(mem, opts[i].name) => cfg_find(mem[opts[i].name]) = i

(* No call reads or frees memory it must not (the names cfg_find compares, *)
(* the pointers cfg_exit frees) unless an option without a name is in the  *)
(* table: one that malloc refused a name, or, in a later life of the       *)
(* library, one that cfg_exit disposed of (config.c:115-134, 160-176).     *)
NothingUndefined ==
    fault = "undefined" => (failed \/ lives > 1) /\ \E i \in DOMAIN opts : opts[i].name = NULL

(* When cfg_add_options returns true, every option of the array is in the  *)
(* table under its name, with its abbreviation and its type, even if       *)
(* malloc failed (config.c:120-134, 330-334).                              *)
AddReportsFailure ==
    [][ call = "add_options" /\ call' = "none" /\ result' =>
          \A k \in DOMAIN input : \E i \in DOMAIN opts :
              /\ opts[i].type = input[k].type
              /\ Live(mem, opts[i].name) /\ mem[opts[i].name] = input[k].name
              /\ input[k].abbrev # NULL =>
                    Live(mem, opts[i].abbrev) /\ mem[opts[i].abbrev] = input[k].abbrev ]_vars

(* Between cfg_init and cfg_exit every pointer miniconf keeps is null or   *)
(* the address of a block still allocated, and no two of them are equal:   *)
(* so cfg_exit frees each block once (config.c:160-176, 245-259).  It holds *)
(* in the first life, and in a later one if no option is left over.        *)
OwnedOnce ==
    initialized /\ (lives = 1 \/ \A i \in DOMAIN opts : opts[i].name # NULL) =>
        /\ \A ptr \in Owned : Live(mem, ptr)
        /\ IsInjective([o \in {q \in Owners : Points(q) # NULL} |-> Points(o)])

(* An argument block never holds more pointers than its vector, allocated  *)
(* for argc of them, has room for (config.c:215, 239).                     *)
BlockFits == \A k \in DOMAIN AllBlocks : Len(AllBlocks[k].items) <= AllBlocks[k].size

(* The files a call needs open. *)
Reading(c) == IF c = "read_file" THEN 1 ELSE 0

(* By whichever way cfg_read_file leaves its loop, it closes the file it   *)
(* opened, once, and no other call opens or closes any; only where it gets *)
(* no line buffer the call returns and leaves its file open (config.c:427- *)
(* 432, 492-494).                                                          *)
FileClosed ==
    [][ \/ files' - files = Reading(call') - Reading(call)
        \/ /\ call = "none" /\ call' = "none" /\ files' = files + 1
           /\ failed' /\ ~result' /\ UNCHANGED mem ]_vars

-----------------------------------------------------------------------------
(* The reference reading of the arguments of a running cfg_read_args.  An  *)
(* argument that names an option with a value takes the next argument as   *)
(* that value unless it is a value itself: an argument is a value iff the  *)
(* unbroken row of such names before it is odd.                            *)
NamesOption(i) == First[input[i]] = "-" /\ cfg_type(Rest[input[i]]) \in Capturing

RowBefore(i) == Max({0} \cup {n \in 1..(i - 2) : \A j \in (i - n)..(i - 1) : NamesOption(j)})
IsValue(i) == RowBefore(i) % 2 = 1

IsLeft(i) ==
    \/ i = 1
    \/ ~IsValue(i) /\ \/ First[input[i]] = "other"
                      \/ First[input[i]] = "-" /\ cfg_type(Rest[input[i]]) = "NOEXIST"

IsRefused(i) ==
    i > 1 /\ ~IsValue(i) /\ First[input[i]] = "+" /\ cfg_type(Rest[input[i]]) # "SWITCH"

Contents(ptrs) == [k \in DOMAIN ptrs |-> IF ptrs[k] = NULL THEN NULL ELSE mem[ptrs[k]]]

(* The elements of a sequence s at the places in L, in order.              *)
Listing(L, s) ==
    [k \in 1..Cardinality(L) |-> s[CHOOSE i \in L : Cardinality({j \in L : j <= i}) = k]]

LeftBefore(n) == Listing({i \in 1..(n - 1) : IsLeft(i)}, input)

(* The new argv holds the arguments cfg_read_args did not use, all of      *)
(* them, in order: a value is never left, a key never kept, even where a   *)
(* value looks like a key or a key ends the line (config.c:357-412).       *)
LeftoverExact ==
    call = "read_args" /\ ~failed => Contents(block.items) = LeftBefore(next)

(* The loop waits for a value exactly when the argument under it is one,   *)
(* and then current_option is the key before it, which still names an      *)
(* option that takes a value: the "no option" and "bad value type"         *)
(* branches of cfg_copy_to_option cannot happen (config.c:275, 282).       *)
CaptureConsistent ==
    call = "read_args" /\ fault = "none" =>
        /\ state = "CAPTURE" <=> IsValue(next)
        /\ state = "CAPTURE" => /\ current_option = Rest[input[next - 1]]
                                /\ cfg_type(current_option) \in Capturing

(* cfg_read_args fails iff one of its arguments, in the place of an        *)
(* option, is +x where x is no switch, and it stops at the first of them   *)
(* (config.c:369-376).                                                     *)
ArgsVerdict ==
    [][ call = "read_args" /\ call' = "none" =>
          /\ result' = (\A i \in DOMAIN input : ~IsRefused(i))
          /\ ~result' => IsRefused(next) /\ \A i \in 1..(next - 1) : ~IsRefused(i) ]_vars

-----------------------------------------------------------------------------
(* What element p of input assigns to option i, by the grammar: 1 or 0 to  *)
(* a switch, otherwise the value converted to the option's type.           *)
Sets(p, i) ==
    IF call = "read_args"
    THEN \/ IsValue(p) /\ cfg_find(Rest[input[p - 1]]) = i
         \/ /\ ~IsValue(p) /\ First[input[p]] \in {"+", "-"}
            /\ cfg_find(Rest[input[p]]) = i /\ opts[i].type = "SWITCH"
    ELSE /\ input[p].kind \in {"on", "off", "set"}
         /\ cfg_find(input[p].key) = i
         /\ input[p].kind = "set" <=> opts[i].type \in Capturing

Given(p, i) ==
    LET isOn == IF call = "read_args" THEN First[input[p]] = "-" ELSE input[p].kind = "on"
        text == IF call = "read_args" THEN input[p] ELSE input[p].value
    IN  CASE opts[i].type = "SWITCH" -> IF isOn THEN 1 ELSE 0
          [] opts[i].type = "INT"    -> Atoi[text]
          [] opts[i].type = "FLOAT"  -> Atof[text]
          [] opts[i].type = "STRING" -> text

(* While arguments or a file are read, every option has the value last     *)
(* given for it so far, by its name or its abbreviation, and counts as     *)
(* input (cfg_copy_to_option, config.c:264-287; cfg_read_file, 434-488).   *)
LastWins ==
    call \in {"read_args", "read_file"} /\ fault = "none" =>
        \A i \in DOMAIN opts :
            LET places == {p \in (IF call = "read_args" THEN 2 ELSE 1)..(next - 1) : Sets(p, i)}
            IN  places # {} =>
                  /\ opts[i].input
                  /\ \/ ValueOf(i) = Given(Max(places), i)
                     \/ failed /\ opts[i].type = "STRING" /\ opts[i].str = NULL

-----------------------------------------------------------------------------
(* Memory still allocated to which miniconf holds no pointer. *)
Stray == {a \in DOMAIN mem : mem[a] # Freed} \ Owned

(* The only memory ever lost is the old value of a string option that an   *)
(* argument replaces (config.c:280); every other step, cfg_exit included,  *)
(* keeps or frees what was allocated.                                      *)
OnlyCaptureLeaks ==
    [][ Stray' \subseteq Stray \cup
          (IF call = "read_args" /\ state = "CAPTURE"
           THEN {opts[cfg_find(current_option)].str} ELSE {}) ]_vars

(* Every call returns, unless the program dies in it. *)
CallsReturn == call # "none" ~> (call = "none" \/ fault # "none")

-----------------------------------------------------------------------------
(* Refinement: the options by name are the map ConfigMap promises.  An     *)
(* option whose name could not be allocated is not in it.                  *)
NamedOptions == {i \in DOMAIN opts : Live(mem, opts[i].name)}

settings ==
    [n \in {mem[opts[i].name] : i \in NamedOptions} |->
        LET i == CHOOSE j \in NamedOptions : mem[opts[j].name] = n
        IN  [type |-> opts[i].type, value |-> ValueOf(i), input |-> opts[i].input]]

Legal(type, value) ==
    CASE type = "SWITCH" -> value \in 0..1
      [] type = "STRING" -> value \in Text \cup {NULL}
      [] OTHER           -> value \in Int

Map == INSTANCE ConfigMap WITH reading <- call \in {"read_args", "read_file"}

(* miniconf implements ConfigMap: no step changes two options, retypes or  *)
(* drops one, or reads one without marking it as input (config.c:107-134,  *)
(* 138-152, 264-287, 434-488, 567-620).                                    *)
ImplementsMap == Map!Spec

-----------------------------------------------------------------------------
(* The inductive invariant behind NameLookup.  What keeps every name       *)
(* reachable is that an option is stored only when no earlier one answers  *)
(* to its name (NamesApart), and that nothing else changes the memory of a *)
(* name: no string value and no line buffer shares it (NamesAlone).        *)
CallState ==
    /\ call = "read_args" => block \in Block
    /\ call = "read_file" => files > 0

InRange ==
    \A i \in DOMAIN opts :
        \A ptr \in {opts[i].name, opts[i].abbrev, opts[i].str} : ptr \in DOMAIN mem \cup {NULL}

NamesAlone ==
    \A i \in DOMAIN opts : opts[i].name # NULL =>
        /\ \A j \in DOMAIN opts : opts[j].str # opts[i].name
        /\ call = "read_file" => buffer # opts[i].name

NamesApart ==
    \A i \in DOMAIN opts : Live(mem, opts[i].name) =>
        \A j \in 1..(i - 1) : ~StopsAt(j, mem[opts[i].name])

NameInvariant == TypeOK /\ CallState /\ InRange /\ NamesAlone /\ NamesApart

-----------------------------------------------------------------------------
(* The inductive invariant behind OwnedOnce, BlockFits, NothingUndefined   *)
(* and OnlyCaptureLeaks.  The locals of a call are there  *)
(* only while it runs, and nothing is kept between two lives but slots     *)
(* whose options are gone.                                                 *)
Locals ==
    /\ block # NULL => call = "read_args"
    /\ buffer # NULL => call = "read_file"
    /\ call # "none" => initialized
    /\ initialized => lives > 0
    /\ ~initialized => /\ blocks = <<>>
                       /\ \A i \in DOMAIN opts : opts[i].name = NULL
                       /\ lives = 0 => opts = <<>>

(* A slot has lost its name to malloc or to cfg_exit, and no other way.    *)
NamesLive ==
    \A i \in DOMAIN opts :
        /\ opts[i].name # NULL => Live(mem, opts[i].name)
        /\ opts[i].name = NULL => failed \/ lives > 1 \/ ~initialized

(* Each argument the loop has passed took at most one place of the vector. *)
BlockRoom ==
    call = "read_args" =>
        /\ block.size = Len(input)
        /\ Len(block.items) < next /\ next <= Len(input) + 1

(* A key that waits for its value is the name of an option that takes one. *)
KeyStored == state = "CAPTURE" => call = "read_args" /\ cfg_type(current_option) \in Capturing

(* No call but a running cfg_read_file has a file, until malloc fails. *)
FilesCounted == ~failed => files = IF call = "read_file" THEN 1 ELSE 0

MemoryInvariant ==
    Locals /\ NamesLive /\ KeyStored /\ OwnedOnce /\ BlockRoom /\ BlockFits /\ FilesCounted /\ NothingUndefined

-----------------------------------------------------------------------------
(* The inductive invariant behind CaptureConsistent, ArgsVerdict and       *)
(* LeftoverExact.  The loop has passed no argument that it must refuse,    *)
(* and what it copied stays where it is.                                   *)
ArgsSoFar ==
    call = "read_args" =>
        /\ next >= FirstArg
        /\ \A k \in DOMAIN block.items : block.items[k] \in DOMAIN mem \cup {NULL}
        /\ fault = "none" => \A i \in 1..(next - 1) : ~IsRefused(i)

ArgsInvariant == ArgsSoFar /\ CaptureConsistent /\ LeftoverExact

-----------------------------------------------------------------------------
(* The inductive invariant behind AddReportsFailure: the options the loop  *)
(* of cfg_add_options has passed are there, and stay.                      *)
StoredAs(i, o) ==
    /\ opts[i].type = o.type
    /\ Live(mem, opts[i].name) /\ mem[opts[i].name] = o.name
    /\ o.abbrev # NULL => Live(mem, opts[i].abbrev) /\ mem[opts[i].abbrev] = o.abbrev

AddedSoFar ==
    call = "add_options" => \A k \in 1..(next - 1) : \E i \in DOMAIN opts : StoredAs(i, input[k])

(* The inductive invariant behind ImplementsMap: every value is one of its *)
(* option's type, unless the first slot has lost its name; then nothing is *)
(* found any more and the map is empty.                                    *)
Nameless == opts # <<>> /\ opts[1].name = NULL

Valued ==
    /\ call = "add_options" => Switches(input)
    /\ Nameless \/ \A i \in DOMAIN opts : Legal(opts[i].type, ValueOf(i))

=============================================================================
