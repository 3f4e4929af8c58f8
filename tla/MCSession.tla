------------------------------ MODULE MCSession ------------------------------
(* Two instances in one process and one in another; the second of the      *)
(* appends carries a secret.                                               *)
EXTENDS Session, TLC
CONSTANTS i1, i2, i3, p1, p2
MCProcessOf == (i1 :> p1) @@ (i2 :> p1) @@ (i3 :> p2)
MCSecret == {2}
=============================================================================
