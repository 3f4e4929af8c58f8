------------------------------- MODULE Option -------------------------------
(* Python's None, shared by the modules a session is composed of. *)
CONSTANT None
=============================================================================
