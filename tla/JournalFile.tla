----------------------------- MODULE JournalFile -----------------------------
(***************************************************************************)
(* adapters/persistence/local_store.py: append_event and read_events over  *)
(* the events.jsonl of one Attempt.  The file is a sequence of lines, and  *)
(* a line is the sequence of the pieces that writes put on it: the file    *)
(* object hands a line and its newline to the operating system in one or   *)
(* several writes, and a full disk or a crash may end them anywhere.  An   *)
(* action of append_event takes the call it moves on and the call as it    *)
(* leaves it, None when it is over.  An event stands for one call, so a    *)
(* retry after an error is an event of its own.                            *)
(***************************************************************************)
EXTENDS Option, SequencesExt

CONSTANTS
  Secret,           \* calls whose event _reject_secrets refuses
  MaxAppends        \* bound: calls of append_event

ASSUME JournalAssumption ==
  MaxAppends \in Nat /\ Secret \subseteq Nat /\ None \notin Nat

VARIABLES
  lines,            \* the lines of the file, each a sequence of pieces
  open,             \* the last line has no newline yet
  last,             \* the number of the last call
  acked,            \* the calls that returned
  lastRead          \* what the last successful read_events answered

Events == 1..MaxAppends
Stages == {"opened", "partial", "line", "flushed"}
Pieces == [event : Events, whole : BOOLEAN]
Calls  == [event : Events, stage : Stages] \cup {None}

FileTypeOK ==
  /\ lines \in Seq(Seq(Pieces))
  /\ open \in BOOLEAN
  /\ last \in 0..MaxAppends
  /\ acked \subseteq Events
  /\ lastRead \in Seq(Events)

FileInit ==
  /\ lines = <<>>
  /\ open = FALSE
  /\ last = 0
  /\ acked = {}
  /\ lastRead = <<>>

-----------------------------------------------------------------------------
(* append_event *)

At(call, stage) == call # None /\ call.stage = stage

Moves(call, from, next, to) ==
  At(call, from) /\ next = [event |-> call.event, stage |-> to]

(* Opened in append mode: what a process writes goes to the end of the     *)
(* file, whatever stands there.                                            *)
PutPiece(event, whole) ==
  LET piece == [event |-> event, whole |-> whole] IN
  /\ lines' = IF open THEN [lines EXCEPT ![Len(lines)] = Append(@, piece)]
                      ELSE Append(lines, <<piece>>)
  /\ open' = TRUE

(* The rest of a line completes the piece the same call began. *)
CompletePiece(event) ==
  /\ lines' = [lines EXCEPT ![Len(lines)] =
                 [@ EXCEPT ![Len(@)] = [event |-> event, whole |-> TRUE]]]
  /\ UNCHANGED open

(* Mutant: opened in mode "w". *)
BeginTruncating(call, next) ==
  /\ call = None
  /\ last < MaxAppends
  /\ last' = last + 1
  /\ next = [event |-> last + 1, stage |-> "opened"]
  /\ lines' = <<>> /\ open' = FALSE
  /\ UNCHANGED <<acked, lastRead>>

Begin(call, next) ==
  /\ call = None
  /\ last < MaxAppends
  /\ last' = last + 1
  /\ next = IF last + 1 \in Secret THEN None ELSE [event |-> last + 1, stage |-> "opened"]
  /\ UNCHANGED <<lines, open, acked, lastRead>>

WritePart(call, next) ==
  /\ Moves(call, "opened", next, "partial")
  /\ PutPiece(call.event, FALSE)
  /\ UNCHANGED <<last, acked, lastRead>>

WriteLine(call, next) ==
  /\ \/ Moves(call, "opened", next, "line") /\ PutPiece(call.event, TRUE)
     \/ Moves(call, "partial", next, "line") /\ CompletePiece(call.event)
  /\ UNCHANGED <<last, acked, lastRead>>

WriteNewline(call, next) ==
  /\ Moves(call, "line", next, "flushed")
  /\ open' = FALSE
  /\ UNCHANGED <<lines, last, acked, lastRead>>

(* fsync succeeded: the call returns. *)
Ack(call, next) ==
  /\ At(call, "flushed") /\ next = None
  /\ acked' = acked \cup {call.event}
  /\ UNCHANGED <<lines, open, last, lastRead>>

(* The write, the flush or the fsync raises, or the process dies.  What    *)
(* has been written stays, and nothing ever repairs it.                    *)
Interrupted(call, next) ==
  /\ call # None /\ next = None
  /\ UNCHANGED <<lines, open, last, acked, lastRead>>

(* A call of append_event that has begun goes on, or ends. *)
Continues(call, next) ==
  \/ WritePart(call, next) \/ WriteLine(call, next) \/ WriteNewline(call, next)
  \/ Ack(call, next) \/ Interrupted(call, next)

-----------------------------------------------------------------------------
(* read_events, called by load_recovered_state *)

(* Mutant: what follows the first JSON value of a line is not looked at. *)
ReadableAtFirst == \A n \in DOMAIN lines : lines[n][1].whole

(* A line parses when one call wrote it and wrote all of it; otherwise     *)
(* _parse_model_line raises and read_events answers nothing at all.        *)
Readable == \A n \in DOMAIN lines : Len(lines[n]) = 1 /\ lines[n][1].whole

JournalEvents == [n \in DOMAIN lines |-> lines[n][1].event]

Read ==
  /\ Readable
  /\ lastRead' = JournalEvents
  /\ UNCHANGED <<lines, open, last, acked>>

-----------------------------------------------------------------------------
(* Properties *)

(* ports/persistence.py lines 63-65: a read that answers gives every event *)
(* whose append returned, in the order of the calls, none of them twice,   *)
(* whatever failed in between.                                             *)
FaithfulRead ==
  Readable => /\ acked \subseteq {JournalEvents[n] : n \in DOMAIN lines}
              /\ \A m, n \in DOMAIN lines : m < n => JournalEvents[m] < JournalEvents[n]

=============================================================================
