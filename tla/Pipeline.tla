------------------------------ MODULE Pipeline ------------------------------
(***************************************************************************)
(* What the life cycle of a TASK promises to those who rely on it (SPEC    *)
(* Sections 34 to 46), without phases, conditions, kinds of evidence and   *)
(* kept decisions: a context is proven, then approved by a human, then     *)
(* committed by the attempt it belongs to, then pushed, then found green,  *)
(* and only the last commit closes the TASK.  A closed TASK stays as it    *)
(* is delivered.                                                           *)
(***************************************************************************)
EXTENDS Naturals

CONSTANTS Needed, NoCommit    \* TASKs to be closed before; the lack of a commit

VARIABLES
  tries,            \* the number of the current attempt
  done,             \* the TASKs known to be closed
  proven,           \* the contexts that hold all the evidence
  approved,         \* those the human has approved
  expected,         \* the last commit, [number, context], or NoCommit
  published,        \* the number of the last commit pushed
  green,            \* the commits whose CI succeeded
  closed            \* whether the TASK is closed

pipeline == <<tries, done, proven, approved, expected, published, green, closed>>

Init ==
  /\ tries = 1
  /\ done = {} /\ proven = {} /\ approved = {} /\ green = {}
  /\ expected = NoCommit
  /\ published = 0
  /\ closed = FALSE

(* Another TASK closes. *)
Unblock ==
  /\ done \subseteq done'
  /\ UNCHANGED <<tries, proven, approved, expected, published, green, closed>>

(* Evidence is never taken back. *)
Prove ==
  /\ ~closed
  /\ proven \subseteq proven'
  /\ UNCHANGED <<tries, done, approved, expected, published, green, closed>>

Approve ==
  /\ ~closed
  /\ \E context \in proven :
       /\ context.attempt = tries
       /\ approved' = approved \cup {context}
  /\ UNCHANGED <<tries, done, proven, expected, published, green, closed>>

Commit ==
  /\ ~closed
  /\ Needed \subseteq done
  /\ \E context \in proven \cap approved :
       /\ context.attempt = tries
       /\ expected' = [number  |-> IF expected = NoCommit THEN 1 ELSE expected.number + 1,
                       context |-> context]
  /\ UNCHANGED <<tries, done, proven, approved, published, green, closed>>

(* The commit of this attempt. *)
Publish ==
  /\ ~closed
  /\ expected # NoCommit /\ expected.context.attempt = tries
  /\ published' = expected.number
  /\ UNCHANGED <<tries, done, proven, approved, expected, green, closed>>

Succeed ==
  /\ ~closed
  /\ \E number \in green' : green' = green \cup {number}
  /\ UNCHANGED <<tries, done, proven, approved, expected, published, closed>>

Close ==
  /\ ~closed
  /\ expected # NoCommit /\ expected.context.attempt = tries
  /\ published = expected.number
  /\ expected.number \in green
  /\ closed' = TRUE
  /\ UNCHANGED <<tries, done, proven, approved, expected, published, green>>

(* Another attempt; what was proven of the old one is not proven of it. *)
Restart ==
  /\ ~closed
  /\ tries' = tries + 1
  /\ UNCHANGED <<done, proven, approved, expected, published, green, closed>>

Next ==
  \/ Unblock \/ Prove \/ Approve \/ Commit \/ Publish \/ Succeed \/ Close \/ Restart

Spec == Init /\ [][Next]_pipeline

=============================================================================
