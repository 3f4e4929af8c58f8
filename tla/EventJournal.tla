---------------------------- MODULE EventJournal ----------------------------
(***************************************************************************)
(* The event journal with the one writer it is written for: a call of      *)
(* append_event begins when none is in progress (the workspace lock sees   *)
(* to that; Session shows it).  Readers need no lock.                      *)
(***************************************************************************)
EXTENDS JournalFile

VARIABLE writer     \* the call in progress, or None

vars == <<lines, open, writer, last, acked, lastRead>>

TypeOK == FileTypeOK /\ writer \in Calls

Init == FileInit /\ writer = None

Next ==
  \/ Begin(writer, writer') \/ Continues(writer, writer')
  \/ Read /\ UNCHANGED writer

Spec == Init /\ [][Next]_vars

-----------------------------------------------------------------------------
(* Properties *)

(* local_store.py lines 16-20: the journal is append-only; a later read    *)
(* answers an extension of an earlier one, across failures and restarts.   *)
ReadsExtend == [][IsPrefix(lastRead, lastRead')]_vars

(* local_store.py lines 109-123, 229-236: a journal that does not parse     *)
(* when no call is in progress never parses again, whatever is appended:    *)
(* no call repairs a torn line, and none hides it.                          *)
TornForGood == [](writer = None /\ ~Readable => []~Readable)

(* recovery.py lines 3-8: the durable state can be reconstructed after a   *)
(* restart, that is, when no call is in progress.                          *)
RestartCanRead == writer = None => Readable

=============================================================================
