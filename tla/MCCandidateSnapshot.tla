------------------------- MODULE MCCandidateSnapshot -------------------------
(* A file of the baseline, a new file and an ignored one. *)
EXTENDS CandidateSnapshot, TLC
CONSTANTS tracked, new, scratch, a, b
MCBaseline == (tracked :> a) @@ (new :> None) @@ (scratch :> None)
=============================================================================
