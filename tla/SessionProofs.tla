---------------------------- MODULE SessionProofs ----------------------------
(***************************************************************************)
(* The lock gives the journal its one writer: the session implements       *)
(* EventJournal, for any number of instances, processes and appends.       *)
(***************************************************************************)
EXTENDS Session, WorkspaceLockProofs

(* Only an instance that is held appends. *)
AppenderHolds ==
  /\ call \in [Instances -> Calls]
  /\ \A i \in Instances : call[i] # None => IsHeld(i)

SessionInv == TypeOK /\ OwnerInv /\ AppenderHolds

(* What a session does to the lock is what WorkspaceLock does. *)
LEMMA LockMoves == [SessionNext]_sessionVars => [Next]_vars
  BY DEF SessionNext, sessionVars, LockStep, LockCall, LockCollect, Death, BeginAppend,
         Continue, Recover, Next

LEMMA ContinuesACall ==
  ASSUME NEW one, NEW next, Continues(one, next)
  PROVE  one # None
  BY DEF Continues, WritePart, WriteLine, WriteNewline, Ack, Interrupted, Moves, At

LEMMA AppenderHoldsStep ==
  ASSUME SessionInv, [SessionNext]_sessionVars
  PROVE  AppenderHolds'
<1> USE DEF SessionInv, AppenderHolds, TypeOK, IsHeld, Goto
<1>1. ASSUME NEW i \in Instances, LockStep(i) PROVE AppenderHolds'
  <2>1. \A j \in Instances : IsHeld(j) => IsHeld(j)'
    BY <1>1 DEF LockStep, Step, Lock, Conflict, Truncate, WriteMetadata, MetadataFails,
                Hold, Unlock, UnlockFails, CloseHandle
  <2> QED BY <1>1, <2>1 DEF LockStep, journalVars
<1>2. ASSUME NEW i \in Instances, LockCall(i) PROVE AppenderHolds'
  BY <1>2 DEF LockCall, Open, Release, journalVars
<1>3. ASSUME NEW i \in Instances, LockCollect(i) PROVE AppenderHolds'
  BY <1>3 DEF LockCollect, Collect, journalVars
<1>4. ASSUME NEW i \in Instances, NEW next \in Calls, IsHeld(i),
             call' = [call EXCEPT ![i] = next], UNCHANGED vars
      PROVE  AppenderHolds'
  BY <1>4 DEF vars
<1>5. ASSUME NEW i \in Instances, BeginAppend(i) PROVE AppenderHolds'
  BY <1>4, <1>5 DEF BeginAppend
<1>6. ASSUME NEW i \in Instances, Continue(i) PROVE AppenderHolds'
  <2>1. PICK next \in Calls : /\ Continues(call[i], next)
                              /\ call' = [call EXCEPT ![i] = next] /\ UNCHANGED vars
    BY <1>6 DEF Continue
  <2>2. call[i] # None
    BY <2>1, ContinuesACall
  <2> QED BY <1>4, <2>1, <2>2
<1>7. ASSUME NEW p \in Processes, Death(p) PROVE AppenderHolds'
  BY <1>7, LockAssumption DEF Death, Terminate, Calls
<1>8. CASE Recover
  BY <1>8 DEF Recover, vars
<1>9. CASE UNCHANGED sessionVars
  BY <1>9 DEF sessionVars, vars, journalVars
<1> QED BY <1>1, <1>2, <1>3, <1>5, <1>6, <1>7, <1>8, <1>9 DEF SessionNext

LEMMA SessionInvariant == SessionSpec => []SessionInv
<1>1. SessionInit => SessionInv
  BY InitInv DEF SessionInit, SessionInv, AppenderHolds, Calls
<1>2. SessionInv /\ [SessionNext]_sessionVars => SessionInv'
  BY LockMoves, TypeStep, OwnerInvStep, AppenderHoldsStep DEF SessionInv
<1> QED BY <1>1, <1>2, PTL DEF SessionSpec

-----------------------------------------------------------------------------
(* The lock under a session is the lock. *)

(* lock.py lines 3-5: no two instances are held at a time. *)
THEOREM SessionExcludes == SessionSpec => []MutualExclusion
  BY SessionInvariant, InvExcludes, PTL DEF SessionInv

(* lock.py lines 47 and 88-95: a held lock file names its holder. *)
THEOREM SessionHolderIsNamed == SessionSpec => []MetadataNamesHolder
<1>1. SessionInv => MetadataNamesHolder
  BY DEF SessionInv, OwnerInv, MetadataNamesHolder, IsHeld
<1> QED BY <1>1, SessionInvariant, PTL

(* lock.py lines 3-5: a holder is gone before another one appears. *)
THEOREM SessionHoldsExclusively == SessionSpec => ImplementsExclusiveHold
<1>1. SessionInit => Abstract!Init
  BY DEF SessionInit, Init, Abstract!Init, Holder, IsHeld
<1>2. SessionInv /\ SessionInv' /\ [SessionNext]_sessionVars => [Abstract!Next]_Holder
  BY LockMoves, HolderStep DEF SessionInv
<1> QED BY <1>1, <1>2, SessionInvariant, PTL DEF SessionSpec, ImplementsExclusiveHold, Abstract!Spec

(* lock.py lines 7-12: holders that append, stop and die do not delay the  *)
(* end of an orphaned flock either.                                        *)
THEOREM SessionOrphansComeNearer == SessionSpec => OrphansDwindle
<1> DEFINE Nearer == \A i \in Instances : Orphan(i) /\ Orphan(i)' =>
             /\ Distance(i)' <= Distance(i)
             /\ Owed(i) => Distance(i)' < Distance(i)
<1>1. SessionInit => Accounted
  BY DEF SessionInit, Init, Accounted
<1>2. SessionInv /\ Accounted /\ [SessionNext]_sessionVars => Accounted'
  BY LockMoves, AccountedStep DEF SessionInv
<1>3. SessionInv /\ Accounted /\ [SessionNext]_sessionVars => [Nearer]_vars
  BY LockMoves, OrphanStep DEF SessionInv
<1>4. OrphansDwindle <=> [][Nearer]_vars
  BY DEF OrphansDwindle
<1> QED BY <1>1, <1>2, <1>3, <1>4, SessionInvariant, PTL DEF SessionSpec

-----------------------------------------------------------------------------
(* Refinement *)

(* The held instance's call is the journal's writer. *)
LEMMA WriterOfHeld ==
  ASSUME SessionInv, NEW i \in Instances, IsHeld(i)
  PROVE  Writer = call[i]
<1>1. \A j \in Instances : call[j] # None => j = i
  BY InvExcludes DEF SessionInv, AppenderHolds, MutualExclusion
<1> QED BY <1>1 DEF Writer

LEMMA NoWriter ==
  ASSUME \A i \in Instances : call[i] = None
  PROVE  Writer = None
  BY DEF Writer

(* A call that a session moves on is the writer before and after. *)
LEMMA CallStep ==
  ASSUME SessionInv, SessionInv', NEW i \in Instances, IsHeld(i), NEW next,
         call' = [call EXCEPT ![i] = next], UNCHANGED vars
  PROVE  Writer = call[i] /\ Writer' = next
<1>1. IsHeld(i)' /\ call'[i] = next
  BY DEF SessionInv, AppenderHolds, IsHeld, vars
<1>2. \A j \in Instances : call'[j] # None => j = i
  BY <1>1, InvExcludes DEF SessionInv, AppenderHolds, MutualExclusion
<1>3. Writer' = next
  BY <1>1, <1>2 DEF Writer
<1> QED BY <1>3, WriterOfHeld

LEMMA SingleContinues ==
  ASSUME Continues(Writer, Writer')
  PROVE  Single!Continues(Writer, Writer')
  BY DEF Continues, WritePart, WriteLine, WriteNewline, Ack, Interrupted, Moves, At,
         PutPiece, CompletePiece, Single!Continues, Single!WritePart, Single!WriteLine,
         Single!WriteNewline, Single!Ack, Single!Interrupted, Single!Moves, Single!At,
         Single!PutPiece, Single!CompletePiece

LEMMA JournalStep ==
  ASSUME SessionInv, SessionInv', [SessionNext]_sessionVars
  PROVE  [Single!Next]_(Single!vars)
<1>1. ASSUME NEW i \in Instances, BeginAppend(i) PROVE Single!Next
  <2>1. PICK next \in Calls : /\ IsHeld(i) /\ Begin(call[i], next)
                              /\ call' = [call EXCEPT ![i] = next] /\ UNCHANGED vars
    BY <1>1 DEF BeginAppend
  <2>2. Writer = call[i] /\ Writer' = next
    BY <2>1, CallStep
  <2>3. Begin(Writer, Writer')
    BY <2>1, <2>2
  <2> QED BY <2>3 DEF Single!Next, Single!Begin, Begin
<1>2. ASSUME NEW i \in Instances, Continue(i) PROVE Single!Next
  <2>1. PICK next \in Calls : /\ Continues(call[i], next)
                              /\ call' = [call EXCEPT ![i] = next] /\ UNCHANGED vars
    BY <1>2 DEF Continue
  <2>2. call[i] # None
    BY <2>1, ContinuesACall
  <2>3. Writer = call[i] /\ Writer' = next
    BY <2>1, <2>2, CallStep DEF SessionInv, AppenderHolds
  <2>4. Continues(Writer, Writer')
    BY <2>1, <2>3
  <2> QED BY <2>4, SingleContinues DEF Single!Next
<1>3. CASE Recover
  <2>1. UNCHANGED Writer
    BY <1>3 DEF Recover, Writer
  <2> QED BY <1>3, <2>1 DEF Recover, Read, Readable, JournalEvents,
                        Single!Next, Single!Read, Single!Readable, Single!JournalEvents
<1>4. ASSUME NEW p \in Processes, Death(p) PROVE [Single!Next]_(Single!vars)
  <2>1. UNCHANGED <<lines, open, last, acked, lastRead>>
    BY <1>4 DEF Death
  <2>2. \A i \in Instances : call'[i] = IF ProcessOf[i] = p THEN None ELSE call[i]
    BY <1>4 DEF Death
  <2>3. CASE \A i \in Instances : call'[i] = None
    <3>1. Writer' = None
      BY <2>3 DEF Writer
    <3>2. CASE Writer = None
      BY <2>1, <3>1, <3>2 DEF Single!vars
    <3>3. CASE Writer # None
      BY <2>1, <3>1, <3>3 DEF Single!Next, Single!Continues, Single!Interrupted
    <3> QED BY <3>2, <3>3
  <2>4. CASE \E i \in Instances : call'[i] # None
    <3>1. PICK i \in Instances : call'[i] # None
      BY <2>4
    <3>2. call'[i] = call[i]
      BY <2>2, <3>1
    <3>3. Writer = call[i]
      BY <3>1, <3>2, WriterOfHeld DEF SessionInv, AppenderHolds
    <3>4. \A j \in Instances : call'[j] # None => j = i
      <4>1. \A j \in Instances : call'[j] # None => IsHeld(j)'
        BY DEF SessionInv, AppenderHolds
      <4> QED BY <3>1, <4>1 DEF SessionInv, OwnerInv, IsHeld
    <3>5. Writer' = call'[i]
      BY <3>4, <3>1 DEF Writer
    <3> QED BY <2>1, <3>2, <3>3, <3>5 DEF Single!vars
  <2> QED BY <2>3, <2>4
<1>5. ASSUME NEW i \in Instances, LockStep(i) \/ LockCall(i) \/ LockCollect(i)
      PROVE  UNCHANGED Single!vars
  BY <1>5 DEF LockStep, LockCall, LockCollect, journalVars, Single!vars, Writer
<1>6. CASE UNCHANGED sessionVars
  BY <1>6 DEF sessionVars, journalVars, Single!vars, Writer
<1> QED BY <1>1, <1>2, <1>3, <1>4, <1>5, <1>6 DEF SessionNext

(* The lock makes the journal's writers one: every session is a behaviour  *)
(* of EventJournal.                                                        *)
THEOREM SessionImplementsJournal == SessionSpec => ImplementsEventJournal
<1>1. SessionInit => Single!Init
  BY NoWriter DEF SessionInit, FileInit, Single!Init, Single!FileInit
<1>2. SessionInv /\ SessionInv' /\ [SessionNext]_sessionVars => [Single!Next]_(Single!vars)
  BY JournalStep
<1> QED BY <1>1, <1>2, SessionInvariant, PTL DEF SessionSpec, ImplementsEventJournal, Single!Spec

-----------------------------------------------------------------------------
(* What EventJournalProofs shows of the journal holds of a session. *)

Proved == INSTANCE EventJournalProofs WITH writer <- Writer

LEMMA SameJournal ==
  /\ Single!Init => Proved!Init
  /\ [Single!Next]_(Single!vars) => [Proved!Next]_(Proved!vars)
<1>1. Single!Init => Proved!Init
  BY DEF Single!Init, Single!FileInit, Proved!Init, Proved!FileInit
<1>2. ASSUME Single!Continues(Writer, Writer')
      PROVE  Proved!Continues(Writer, Writer')
  BY <1>2
  DEF Proved!Continues, Proved!WritePart, Proved!WriteLine, Proved!WriteNewline,
      Proved!Ack, Proved!Interrupted, Proved!Moves, Proved!At, Proved!PutPiece,
      Proved!CompletePiece, Single!Continues, Single!WritePart, Single!WriteLine,
      Single!WriteNewline, Single!Ack, Single!Interrupted, Single!Moves, Single!At,
      Single!PutPiece, Single!CompletePiece
<1>3. ASSUME Single!Begin(Writer, Writer')
      PROVE  Proved!Begin(Writer, Writer')
  BY <1>3 DEF Single!Begin, Proved!Begin
<1>4. Single!Read => Proved!Read
  BY DEF Single!Read, Single!Readable, Single!JournalEvents,
         Proved!Read, Proved!Readable, Proved!JournalEvents
<1>5. Single!Next => Proved!Next
  BY <1>2, <1>3, <1>4 DEF Single!Next, Proved!Next
<1>6. UNCHANGED Single!vars => UNCHANGED Proved!vars
  BY DEF Single!vars, Proved!vars
<1> QED BY <1>1, <1>5, <1>6

(* A session is a behaviour of the journal that was proved about. *)
LEMMA SessionIsProved == SessionSpec => Proved!Spec
  BY SessionImplementsJournal, SameJournal, PTL
  DEF ImplementsEventJournal, Single!Spec, Proved!Spec

(* ports/persistence.py lines 63-65, under the lock: a read that answers   *)
(* gives every acknowledged event, once, in the order of the calls.        *)
THEOREM SessionReadsAreFaithful == SessionSpec => []FaithfulRead
<1>1. Proved!FaithfulRead => FaithfulRead
  BY DEF FaithfulRead, Readable, JournalEvents,
         Proved!FaithfulRead, Proved!Readable, Proved!JournalEvents
<1>2. Proved!Spec => []Proved!FaithfulRead
  BY Proved!ReadsAreFaithful, JournalAssumption
<1> QED BY <1>1, <1>2, SessionIsProved, PTL

(* local_store.py lines 16-20, under the lock: reads only ever extend.     *)
THEOREM SessionReadsExtend == SessionSpec => ReadsExtend
<1>1. [Proved!IsPrefix(lastRead, lastRead')]_(Proved!vars)
        => [Single!IsPrefix(lastRead, lastRead')]_(Single!vars)
  BY DEF Proved!vars, Single!vars, Proved!IsPrefix, Single!IsPrefix
<1>2. Proved!Spec => Proved!ReadsExtend
  BY Proved!LaterReadsExtend, JournalAssumption
<1> QED BY <1>1, <1>2, SessionIsProved, PTL
     DEF ReadsExtend, Single!ReadsExtend, Proved!ReadsExtend

(* local_store.py lines 109-123, under the lock: what a process tore when   *)
(* it stopped, no later holder repairs.                                     *)
THEOREM SessionTearsForGood == SessionSpec => TornForGood
<1>1. Proved!Readable <=> Single!Readable
  BY DEF Proved!Readable, Single!Readable
<1>2. Proved!Spec => Proved!TornForGood
  BY Proved!TornIsForGood, JournalAssumption
<1> QED BY <1>1, <1>2, SessionIsProved, PTL
     DEF TornForGood, Single!TornForGood, Proved!TornForGood

(* Type correctness of the lock, of every instance's call and of the file. *)
THEOREM SessionTyping == SessionSpec => []SessionTypeOK
<1>1. SessionInv /\ Proved!TypeOK => SessionTypeOK
  BY DEF SessionInv, AppenderHolds, SessionTypeOK, FileTypeOK, Pieces, Events,
         Proved!TypeOK, Proved!FileTypeOK, Proved!Pieces, Proved!Events
<1>2. Proved!Spec => [](Proved!TypeOK /\ Proved!JournalInv)
  BY Proved!Typing, JournalAssumption
<1> QED BY <1>1, <1>2, SessionInvariant, SessionIsProved, PTL

=============================================================================
