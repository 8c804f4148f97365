------------------------------ MODULE LogStore ------------------------------
(***************************************************************************)
(* What the log server promises about the records it answers with 202,     *)
(* without files, handles or archives: a record answered in the hour of    *)
(* its request, on a line of its own, is kept, and what is kept is never   *)
(* unreadable again.  Any other record may come and go.                    *)
(***************************************************************************)
CONSTANT Records

VARIABLES
    kept,           \* the records the server has promised to keep
    readable        \* the records a reader of the log directory finds

vars == <<kept, readable>>

Init == kept = {} /\ readable = {}

\* A record becomes readable, and may be promised at that moment.
Store(r) ==
    /\ readable' = readable \cup {r}
    /\ kept' \in {kept, kept \cup {r}}

\* Records that were not promised disappear.
Lose(S) ==
    /\ S \cap kept = {}
    /\ readable' = readable \ S
    /\ UNCHANGED kept

Next ==
    \/ \E r \in Records : Store(r)
    \/ \E S \in SUBSET Records : Lose(S)

Spec == Init /\ [][Next]_vars
=============================================================================
