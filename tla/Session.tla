------------------------------- MODULE Session -------------------------------
(***************************************************************************)
(* The workspace lock and the event journal together.  EventJournal has    *)
(* one writer, and nothing in append_event sees to that: it is the lock,   *)
(* with a caller that appends only while is_held is true (PLAN Section     *)
(* 86).  Here every instance has a call of append_event of its own,        *)
(* WorkspaceLock moves line by line, and processes die anywhere between.   *)
(***************************************************************************)
EXTENDS WorkspaceLock, JournalFile

VARIABLE call       \* each instance's append_event in progress, or None

journalVars == <<call, lines, open, last, acked, lastRead>>
sessionVars == <<vars, journalVars>>

(* The call of the one instance that has any. *)
Writer == IF \E i \in Instances : call[i] # None
          THEN call[CHOOSE i \in Instances : call[i] # None] ELSE None

Single == INSTANCE EventJournal WITH writer <- Writer

SessionTypeOK ==
  /\ TypeOK
  /\ call \in [Instances -> Calls]
  /\ FileTypeOK

SessionInit ==
  /\ Init
  /\ call = [i \in Instances |-> None]
  /\ FileInit

-----------------------------------------------------------------------------
(* The lock.  An instance is released when its call has returned.          *)

LockStep(i) == Step(i) /\ UNCHANGED journalVars

LockCall(i) ==
  /\ call[i] = None
  /\ Open(i) \/ Release(i)
  /\ UNCHANGED journalVars

LockCollect(i) == Collect(i) /\ UNCHANGED journalVars

(* What a dead process was appending stays as it is. *)
Death(p) ==
  /\ Terminate(p)
  /\ call' = [i \in Instances |-> IF ProcessOf[i] = p THEN None ELSE call[i]]
  /\ UNCHANGED <<lines, open, last, acked, lastRead>>

-----------------------------------------------------------------------------
(* append_event *)

(* Mutant: an event may be recorded without the lock. *)
BeginAppendUnlocked(i) ==
  \E next \in Calls :
    /\ Begin(call[i], next)
    /\ call' = [call EXCEPT ![i] = next]
    /\ UNCHANGED vars

BeginAppend(i) ==
  \E next \in Calls :
    /\ IsHeld(i)
    /\ Begin(call[i], next)
    /\ call' = [call EXCEPT ![i] = next]
    /\ UNCHANGED vars

Continue(i) ==
  \E next \in Calls :
    /\ Continues(call[i], next)
    /\ call' = [call EXCEPT ![i] = next]
    /\ UNCHANGED vars

(* load_recovered_state, by anyone, when current.json names an Attempt of  *)
(* the TASK it is asked for; otherwise it answers None.                    *)
Recover == Read /\ UNCHANGED <<vars, call>>

SessionNext ==
  \/ \E i \in Instances :
       \/ LockStep(i) \/ LockCall(i) \/ LockCollect(i)
       \/ BeginAppend(i) \/ Continue(i)
  \/ \E p \in Processes : Death(p)
  \/ Recover

SessionSpec ==
  /\ SessionInit /\ [][SessionNext]_sessionVars
  /\ \A i \in Instances : WF_sessionVars(LockStep(i)) /\ WF_sessionVars(LockCollect(i))

-----------------------------------------------------------------------------
(* Properties *)

(* lock.py lines 3-5 with local_store.py lines 16-20: through contention,  *)
(* failures of the lock and deaths, the journal has the one writer that    *)
(* EventJournal is about, and so its reads are faithful.                   *)
ImplementsEventJournal == Single!Spec

(* local_store.py lines 16-20: a later read answers an extension of an     *)
(* earlier one, across failures, deaths and changes of the writer.         *)
ReadsExtend == Single!ReadsExtend

(* local_store.py lines 109-123: no successor, under the lock, repairs what *)
(* its predecessor tore.                                                    *)
TornForGood == Single!TornForGood

=============================================================================
