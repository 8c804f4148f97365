---------------------------- MODULE MCLogClient ----------------------------
(***************************************************************************)
(* LogClient for TLC: symmetry of the interchangeable records and workers. *)
(***************************************************************************)
EXTENDS LogClient, TLC

Symmetry == Permutations(Records) \cup Permutations(Workers)
=============================================================================
