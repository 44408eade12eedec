---------------------------- MODULE SharedObject ----------------------------
(***************************************************************************)
(* What the operator promises to those who share a target, with nothing    *)
(* said of how: no trackers, no caches, no reconciles.  Contributors join  *)
(* and leave; the object carries what they contribute.                     *)
(*                                                                         *)
(*   - A contributor is told that it is Ready only while the object carries *)
(*     its fields, and nothing but its own leaving takes them away.        *)
(*   - A contributor that was told so goes only without its fields.        *)
(*   - The object is deleted only when nobody who stays has fields on it,  *)
(*     and only because the contributor that created it leaves and asks.   *)
(*                                                                         *)
(* Module Operator implements it as long as the two kinds of contributors  *)
(* do not meet (no promotion), everything renders, and nobody but the      *)
(* operator touches the target and the trackers.                           *)
(***************************************************************************)
CONSTANTS
    Contributors,
    Deleters,       \* those who ask for the object to go with them
    Orphaners,      \* those who leave their fields behind
    Nobody,         \* the maker of no object
    Shell           \* the maker of an object that a withdrawal created

VARIABLES
    phase,          \* "none", "live", "terminating" or "gone"
    ready,          \* whether the contributor was told that it is applied
    object          \* [exists, fields, maker]

sharedVars == <<phase, ready, object>>

NoObject == [exists |-> FALSE, fields |-> {}, maker |-> Nobody]

Init ==
    /\ phase = [c \in Contributors |-> "none"]
    /\ ready = [c \in Contributors |-> FALSE]
    /\ object.exists \in BOOLEAN /\ object.fields = {}

Join(c) ==
    /\ phase[c] = "none"
    /\ phase' = [phase EXCEPT ![c] = "live"]
    /\ UNCHANGED <<ready, object>>

Leave(c) ==
    /\ phase[c] = "live"
    /\ phase' = [phase EXCEPT ![c] = "terminating"]
    /\ UNCHANGED <<ready, object>>

\* It has taken its fields with it, unless it wants them to stay or was never
\* told that they were there.
Go(c) ==
    /\ phase[c] = "terminating" \/ (phase[c] = "live" /\ ~ready[c])
    /\ ready[c] => c \in Orphaners \/ c \notin object.fields
    /\ phase' = [phase EXCEPT ![c] = "gone"]
    /\ UNCHANGED <<ready, object>>

\* Fields are put on the object of contributors that joined, and not again of
\* one that has gone for good.
Apply(c) ==
    /\ phase[c] # "none"
    /\ ~(phase[c] = "gone" /\ ready[c] /\ c \notin Orphaners)
    /\ object' = IF object.exists
                 THEN [object EXCEPT !.fields = @ \cup {c}]
                 ELSE [exists |-> TRUE, fields |-> {c}, maker |-> c]
    /\ UNCHANGED <<phase, ready>>

Acknowledge(c) ==
    /\ phase[c] = "live"
    /\ c \in object.fields
    /\ ready' = [ready EXCEPT ![c] = TRUE]
    /\ UNCHANGED <<phase, object>>

Withdraw(c) ==
    /\ phase[c] \in {"terminating", "gone"}
    /\ object' = IF object.exists THEN [object EXCEPT !.fields = @ \ {c}]
                 ELSE [exists |-> TRUE, fields |-> {}, maker |-> Shell]
    /\ UNCHANGED <<phase, ready>>

Delete ==
    /\ \A c \in object.fields : phase[c] # "live"
    /\ \/ object.maker = Shell
       \/ object.maker \in Deleters /\ phase[object.maker] # "live"
    /\ object' = NoObject
    /\ UNCHANGED <<phase, ready>>

Next ==
    \/ Delete
    \/ \E c \in Contributors :
            \/ Join(c) \/ Leave(c) \/ Go(c)
            \/ Apply(c) \/ Acknowledge(c) \/ Withdraw(c)

Spec == Init /\ [][Next]_sharedVars

=============================================================================
