------------------------------ MODULE CfgState ------------------------------
(***************************************************************************)
(* The static state of miniconf/config.c, the locals of the API call that  *)
(* is running, and the assumptions on the data it works on.                *)
(***************************************************************************)
EXTENDS CfgHeap, Integers

CONSTANTS
    First, Rest,    \* s[0], as one of Marks, and s + 1
    Atoi, Atof,     \* what atoi and atof make of a string
    MaxOptions,     \* cfgMAX_OPTION_COUNT
    MaxArgs,        \* cfgMAX_ARG_COUNT
    MaxBlocks       \* cfgMAX_ARG_BLOCK_COUNT

Marks == {"+", "-", "other"}

ASSUME DataAssumption ==
    /\ First \in [Text -> Marks]
    /\ Rest \in [Text -> Text]
    /\ Atoi \in [Text -> Int]
    /\ Atof \in [Text -> Int]
    /\ MaxOptions \in Nat /\ MaxArgs \in Nat /\ MaxBlocks \in Nat

(* cfgValueType without its flag bits; cfgVT_NOEXIST is no option's type. *)
ValueType == {"SWITCH", "INT", "STRING", "FLOAT"}
Capturing == {"INT", "STRING", "FLOAT"}

VARIABLES
    mem,            \* the heap
    failed,         \* has malloc ever returned NULL?
    opts,           \* cfg_option_S[0 .. cfg_option_count_S - 1]
    blocks,         \* cfg_block_S[0 .. cfg_block_count_S - 1]
    block,          \* cfg_block_S[cfg_block_count_S] while cfg_read_args fills it
    state,          \* cfgReadArgsState of cfg_read_args
    current_option, \* the key that waits for its value
    files,          \* FILEs opened and not closed
    buffer,         \* the line buffer of cfg_read_file
    call,           \* the API call that is running
    input,          \* the array it walks: options, arguments or lines
    next,           \* index in input of the element it takes next
    result,         \* what the last call with a result returned
    initialized,    \* cfg_initialized
    lives,          \* successful calls of cfg_init
    fault           \* how the program died, if it did

heapVars == <<mem, failed>>
argVars  == <<blocks, block, state, current_option>>
fileVars == <<files, buffer>>
callVars == <<call, input, next, result>>
lifeVars == <<initialized, lives>>
vars == <<heapVars, opts, argVars, fileVars, callVars, lifeVars, fault>>

(* The value union is num for a switch (0, 1), an int or a float, and str   *)
(* for a string; the member the type does not select is 0 or NULL.         *)
Slot == [name: Ptr, abbrev: Ptr, desc: Ptr,
         type: ValueType, num: Int, str: Ptr, input: BOOLEAN]

(* What cfg_add_options is given (cfgOption), and a line of a config file:  *)
(* -key or +key, a comment, key=value, a line without '=' that is none of  *)
(* these, or one whose newline is missing.                                 *)
Option == [name: Text, abbrev: Text \cup {NULL}, desc: Text \cup {NULL},
           type: ValueType, num: Int, str: Text \cup {NULL}]
LineKind == {"on", "off", "comment", "set", "bare", "unterminated"}
Line == [kind: LineKind, key: Text, value: Text]

Block == [v: Nat, size: Nat, items: Seq(Ptr)]

TypeOK ==
    /\ mem \in Seq(Content)
    /\ failed \in BOOLEAN
    /\ opts \in Seq(Slot)
    /\ blocks \in Seq(Block)
    /\ block \in Block \cup {NULL}
    /\ state \in {"NORMAL", "CAPTURE"}
    /\ current_option \in Text \cup {NULL}
    /\ files \in Nat
    /\ buffer \in Ptr
    /\ call \in {"none", "add_options", "read_args", "read_file"}
    /\ call = "add_options" => input \in Seq(Option)
    /\ call = "read_args" => input \in Seq(Text)
    /\ call = "read_file" => input \in Seq(Line)
    /\ next \in Nat \ {0}
    /\ result \in BOOLEAN
    /\ initialized \in BOOLEAN
    /\ lives \in Nat
    /\ fault \in {"none", "abort", "undefined"}

Init ==
    /\ mem = <<>> /\ failed = FALSE
    /\ opts = <<>>
    /\ blocks = <<>> /\ block = NULL
    /\ state = "NORMAL" /\ current_option = NULL
    /\ files = 0 /\ buffer = NULL
    /\ call = "none" /\ input = <<>> /\ next = 1 /\ result = FALSE
    /\ initialized = FALSE /\ lives = 0
    /\ fault = "none"

-----------------------------------------------------------------------------
(* Control shared by the calls. *)

Idle == fault = "none" /\ call = "none" /\ initialized
In(c) == fault = "none" /\ call = c
More == next <= Len(input)

Enter(c, in, first) == call' = c /\ input' = in /\ next' = first /\ UNCHANGED result
Advance == next' = next + 1 /\ UNCHANGED <<call, input, result>>
Return(r) == call' = "none" /\ input' = <<>> /\ next' = 1 /\ result' = r

(* A failing assertion ("abort") or an access C gives no meaning to        *)
(* ("undefined") ends the program where it stands.                         *)
Halt(how) ==
    /\ fault' = how
    /\ UNCHANGED <<heapVars, opts, argVars, fileVars, callVars, lifeVars>>

=============================================================================
