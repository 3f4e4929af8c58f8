---------------------------- MODULE MCLifecycle ----------------------------
(* Values of Lifecycle's constants for TLC: a review finds something minor   *)
(* or something that blocks.  Candidates are told apart by equality alone,   *)
(* and so are contracts.                                                     *)
EXTENDS Lifecycle, TLC

MCFindings == {{"MINOR"}, {"IMPORTANT"}}
MCTimes == 1..2
MCSymmetry == Permutations(Candidates) \cup Permutations(Contracts)
=============================================================================
