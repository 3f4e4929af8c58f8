---------------------------- MODULE ExclusiveHold ----------------------------
(***************************************************************************)
(* What the workspace lock promises (workspace/lock.py lines 1-13): one    *)
(* holder at a time, and a holder gives the lock up, by releasing it or by *)
(* terminating, before anyone else has it.                                 *)
(***************************************************************************)
CONSTANTS Instances, None

VARIABLE holder

Take(i) == holder = None /\ holder' = i
GiveUp  == holder # None /\ holder' = None

Init == holder = None
Next == GiveUp \/ \E i \in Instances : Take(i)
Spec == Init /\ [][Next]_holder
=============================================================================
