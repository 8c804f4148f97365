--------------------------- MODULE MCJsonlWriter ---------------------------
(***************************************************************************)
(* JsonlWriter for TLC: symmetry of records, handles, inodes and jobs, and *)
(* a bound on the records out of their hour.                               *)
(***************************************************************************)
EXTENDS JsonlWriter, TLC

Symmetry ==
    UNION {Permutations(S) : S \in {Records, Handles, Inodes, Jobs}}

\* Records ahead of their hour are taken apart from what else may go wrong: after
\* the first no handler works on one behind its hour, and no write is short.
EarlyAlone ==
    \/ early = {}
    \/ /\ shortWrites = 0
       /\ \A r \in Records : req[r] = "idle" \/ hour[r] >= HourOf(now)
=============================================================================
