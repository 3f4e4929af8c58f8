--------------------------- MODULE MCEventJournal ---------------------------
(* Six calls of append_event, the second of which carries a secret. *)
EXTENDS EventJournal, TLC
MCSecret == {2}
=============================================================================
