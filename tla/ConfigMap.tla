----------------------------- MODULE ConfigMap -----------------------------
(***************************************************************************)
(* What config.h promises a client: a map from option names to typed       *)
(* values.  An option is defined once, keeps its type, changes only by     *)
(* being assigned, and lives until the map is cleared.  An assignment read *)
(* from arguments or a file marks the option as input for good.            *)
(***************************************************************************)
CONSTANTS ValueType, Legal(_, _)    \* Legal(type, value)

VARIABLES
    settings,
    reading     \* are arguments or a file being read?

Init == settings = [n \in {} |-> n]

Kept(names) == \A n \in names : n \in DOMAIN settings' /\ settings'[n] = settings[n]

(* New options appear one at a time, with a value of their type. *)
Define ==
    \E n \in DOMAIN settings' \ DOMAIN settings :
        /\ DOMAIN settings' = DOMAIN settings \cup {n}
        /\ Kept(DOMAIN settings)
        /\ settings'[n].type \in ValueType
        /\ Legal(settings'[n].type, settings'[n].value)
        /\ ~settings'[n].input

Assigned(n) ==
    /\ DOMAIN settings' = DOMAIN settings
    /\ Kept(DOMAIN settings \ {n})
    /\ settings'[n].type = settings[n].type
    /\ Legal(settings[n].type, settings'[n].value)

Read == reading /\ \E n \in DOMAIN settings : Assigned(n) /\ settings'[n].input

(* Whether a client's own assignment marks the option is left open.  By    *)
(* config.h:158 and 258-259 it should not; the code does it.               *)
Set ==
    /\ ~reading
    /\ \E n \in DOMAIN settings : Assigned(n) /\ (settings[n].input => settings'[n].input)

Clear == DOMAIN settings' = {}

Next == Define \/ Read \/ Set \/ Clear

Spec == Init /\ [][Next]_settings

=============================================================================
