-------------------------- MODULE RecordStoreProofs --------------------------
(***************************************************************************)
(* The records and the current pointer are atomic, records are immutable   *)
(* and no content is ever torn, for any number of processes, records and   *)
(* calls, whatever fails.                                                  *)
(***************************************************************************)
EXTENDS RecordStore, SequenceTheorems, TLAPS

(* p's call has published its value at path and has not returned yet.      *)
Published(p, path) == pc[p] = "cleanup" /\ result[p] = "ok" /\ call[p].path = path

(* Where a call stands fixes what its temporary file and its outcome are.  *)
CallInv ==
  \A p \in Processes :
    /\ pc[p] = "idle" => call[p] = None
    /\ pc[p] # "idle" => call[p] \in CallSet /\ call[p].value \notin Secrets
    /\ pc[p] \in {"checked", "writing", "synced"} => result[p] = "none"
    /\ pc[p] = "cleanup" => result[p] # "none"
    /\ pc[p] = "writing" => temp[p] = Torn
    /\ pc[p] = "synced" => temp[p] = call[p].value
    /\ pc[p] = "idle" => temp[p] = None
    /\ temp[p] \notin Secrets

ContentInv ==
  /\ \A path \in Paths : files[path] \in (Values \ Secrets) \cup {None}
  /\ litter \cap Secrets = {}

(* A record is created by one call, which is acknowledged once at most.    *)
CreationInv ==
  \A r \in Records :
    /\ \/ acked[r] = <<>>
       \/ \E v \in Values : acked[r] = <<v>> /\ files[r] = v
    /\ \A p \in Processes : Published(p, r) => acked[r] = <<>> /\ files[r] = call[p].value
    /\ \A p, q \in Processes : Published(p, r) /\ Published(q, r) => p = q

StoreInv == CallInv /\ ContentInv

-----------------------------------------------------------------------------
LEMMA CallPath ==
  ASSUME CallInv, NEW p \in Processes, pc[p] # "idle"
  PROVE  call[p].path \in Paths /\ call[p].value \in Values \ Secrets
  BY DEF CallInv, CallSet

LEMMA TypeStep ==
  ASSUME TypeOK, CallInv, [Next]_vars
  PROVE  TypeOK'
<1> USE DEF TypeOK, Results, Goto
<1>1. ASSUME NEW p \in Processes, NEW path \in Paths, NEW value \in Values,
             Call(p, path, value)
      PROVE  TypeOK'
  BY <1>1 DEF Call, CallSet
<1>2. ASSUME NEW p \in Processes, OpenTemp(p) \/ SyncTemp(p) PROVE TypeOK'
  BY <1>2, CallPath DEF OpenTemp, SyncTemp
<1>3. ASSUME NEW p \in Processes, WriteFails(p) \/ Interrupted(p) PROVE TypeOK'
  <2>1. temp[p] \in Values \cup {None, Torn}
    OBVIOUS
  <2>2. CASE WriteFails(p)
    <3>1. temp[p] # None
      BY <2>2, StoreAssumption DEF WriteFails, CallInv
    <3> QED BY <2>1, <2>2, <3>1, CallPath DEF WriteFails
  <2>3. CASE Interrupted(p)
    BY <2>1, <2>3 DEF Interrupted
  <2> QED BY <1>3, <2>2, <2>3
<1>4. ASSUME NEW p \in Processes, Replace(p) \/ Link(p) PROVE TypeOK'
  BY <1>4, CallPath DEF Replace, Link, Paths
<1>5. ASSUME NEW p \in Processes, Refuse(p) \/ PublishFails(p) PROVE TypeOK'
  BY <1>5 DEF Refuse, PublishFails
<1>6. ASSUME NEW p \in Processes, Return(p) PROVE TypeOK'
  <2>1. call[p].value \in Values
    BY <1>6, CallPath DEF Return
  <2>2. acked' \in [Records -> Seq(Values)]
    BY <1>6, <2>1, AppendProperties DEF Return
  <2> QED BY <1>6, <2>2 DEF Return
<1>7. CASE UNCHANGED vars
  BY <1>7 DEF vars
<1> QED BY <1>1, <1>2, <1>3, <1>4, <1>5, <1>6, <1>7 DEF Next, Step

LEMMA CallStep ==
  ASSUME TypeOK, CallInv, [Next]_vars
  PROVE  CallInv'
<1> USE DEF TypeOK, CallInv, Goto
<1>1. ASSUME NEW p \in Processes, NEW path \in Paths, NEW value \in Values,
             Call(p, path, value)
      PROVE  CallInv'
  BY <1>1 DEF Call, CallSet, Rejected
<1>2. ASSUME NEW p \in Processes, OpenTemp(p) PROVE CallInv'
  BY <1>2, StoreAssumption DEF OpenTemp
<1>3. ASSUME NEW p \in Processes, SyncTemp(p) PROVE CallInv'
  BY <1>3 DEF SyncTemp
<1>4. ASSUME NEW p \in Processes,
             WriteFails(p) \/ Interrupted(p) \/ Replace(p) \/ Return(p)
      PROVE  CallInv'
  <2>1. None \notin Secrets
    BY StoreAssumption
  <2>2. CASE WriteFails(p)
    BY <2>1, <2>2 DEF WriteFails
  <2>3. CASE Interrupted(p)
    BY <2>1, <2>3 DEF Interrupted
  <2>4. CASE Replace(p)
    BY <2>1, <2>4 DEF Replace
  <2>5. CASE Return(p)
    BY <2>1, <2>5 DEF Return
  <2> QED BY <1>4, <2>2, <2>3, <2>4, <2>5
<1>5. ASSUME NEW p \in Processes, Link(p) \/ Refuse(p) \/ PublishFails(p) PROVE CallInv'
  BY <1>5 DEF Link, Refuse, PublishFails
<1>6. CASE UNCHANGED vars
  BY <1>6 DEF vars
<1> QED BY <1>1, <1>2, <1>3, <1>4, <1>5, <1>6 DEF Next, Step

(* Every operation keeps the variables within their types. *)
LEMMA Typing == Spec => [](TypeOK /\ CallInv)
<1>1. Init => TypeOK /\ CallInv
  BY StoreAssumption DEF Init, TypeOK, CallInv, Results
<1>2. TypeOK /\ CallInv /\ [Next]_vars => (TypeOK /\ CallInv)'
  BY TypeStep, CallStep
<1> QED BY <1>1, <1>2, PTL DEF Spec

-----------------------------------------------------------------------------
LEMMA ContentStep ==
  ASSUME TypeOK, CallInv, ContentInv, [Next]_vars
  PROVE  ContentInv'
<1> USE DEF TypeOK, ContentInv, Goto
<1>1. ASSUME NEW p \in Processes, Replace(p) \/ Link(p) PROVE ContentInv'
  <2>1. /\ temp[p] \in Values \ Secrets
        /\ litter' = litter
        /\ \E path \in Paths : files' = [files EXCEPT ![path] = temp[p]]
    BY <1>1, CallPath DEF Replace, Link, CallInv, Paths
  <2> QED BY <2>1
<1>2. ASSUME NEW p \in Processes, WriteFails(p) \/ Interrupted(p) PROVE ContentInv'
  <2>1. CASE WriteFails(p)
    <3>1. temp[p] \notin Secrets /\ call[p].value \notin Secrets
      BY <2>1 DEF WriteFails, CallInv
    <3> QED BY <2>1, <3>1 DEF WriteFails
  <2>2. CASE Interrupted(p)
    BY <2>2 DEF Interrupted, CallInv
  <2> QED BY <1>2, <2>1, <2>2
<1>3. ASSUME NEW p \in Processes,
             \/ \E path \in Paths, value \in Values : Call(p, path, value)
             \/ OpenTemp(p) \/ SyncTemp(p) \/ Refuse(p) \/ PublishFails(p) \/ Return(p)
      PROVE  ContentInv'
  BY <1>3 DEF Call, OpenTemp, SyncTemp, Refuse, PublishFails, Return
<1>4. CASE UNCHANGED vars
  BY <1>4 DEF vars
<1> QED BY <1>1, <1>2, <1>3, <1>4 DEF Next, Step

LEMMA StoreInvariant == Spec => [](TypeOK /\ StoreInv)
<1>1. Init => ContentInv
  BY DEF Init, ContentInv
<1>2. TypeOK /\ CallInv /\ ContentInv /\ [Next]_vars => ContentInv'
  BY ContentStep
<1> QED BY <1>1, <1>2, Typing, PTL DEF Spec, StoreInv

(* local_store.py lines 13-15: no reader ever observes a partially written *)
(* file, whatever fails or dies.                                           *)
THEOREM ContentIsWhole == Spec => []NoTornRecord
<1>1. StoreInv => NoTornRecord
  BY StoreAssumption DEF StoreInv, ContentInv, NoTornRecord
<1> QED BY <1>1, StoreInvariant, PTL

(* local_store.py lines 42-44: what is rejected never touches disk.        *)
THEOREM SecretsNeverTouchDisk == Spec => []SecretsStayOut
<1>1. StoreInv => SecretsStayOut
  BY StoreAssumption DEF StoreInv, CallInv, ContentInv, SecretsStayOut
<1> QED BY <1>1, StoreInvariant, PTL

-----------------------------------------------------------------------------
LEMMA RecordStep ==
  ASSUME TypeOK, StoreInv, [Next]_vars, NEW r \in Records, files[r] # None
  PROVE  files'[r] = files[r]
<1> USE DEF TypeOK, Goto
<1>0. r \in Paths /\ r # Current
  BY StoreAssumption DEF Paths
<1>1. ASSUME NEW p \in Processes, Replace(p) PROVE files'[r] = files[r]
  BY <1>0, <1>1 DEF Replace
<1>2. ASSUME NEW p \in Processes, Link(p) PROVE files'[r] = files[r]
  BY <1>0, <1>2 DEF Link
<1>3. ASSUME NEW p \in Processes,
             \/ \E path \in Paths, value \in Values : Call(p, path, value)
             \/ OpenTemp(p) \/ SyncTemp(p) \/ WriteFails(p) \/ Refuse(p)
             \/ PublishFails(p) \/ Return(p) \/ Interrupted(p)
      PROVE  files'[r] = files[r]
  BY <1>3 DEF Call, OpenTemp, SyncTemp, WriteFails, Refuse, PublishFails, Return, Interrupted
<1>4. CASE UNCHANGED vars
  BY <1>4 DEF vars
<1> QED BY <1>1, <1>2, <1>3, <1>4 DEF Next, Step

(* ports/persistence.py lines 34-36: no step of any process changes or     *)
(* removes a record that exists.                                           *)
THEOREM RecordsAreImmutable == Spec => RecordsImmutable
<1>1. TypeOK /\ StoreInv /\ [Next]_vars
        => [\A r \in ReportIds : files'[r] = files[r]]_vars
  BY RecordStep DEF ReportIds
<1> QED BY <1>1, StoreInvariant, PTL DEF Spec, RecordsImmutable

-----------------------------------------------------------------------------
LEMMA CreationStep ==
  ASSUME TypeOK, StoreInv, CreationInv, [Next]_vars
  PROVE  CreationInv'
<1> USE DEF TypeOK, Goto, Published
<1>1. \A p \in Processes : pc[p] # "idle" => call[p].value \in Values /\ call[p].path \in Paths
  BY CallPath DEF StoreInv
<1>2. ASSUME NEW p \in Processes, Link(p) PROVE CreationInv'
  <2>1. /\ pc[p] = "synced" /\ call[p].path \in Records /\ files[call[p].path] = None
        /\ temp[p] = call[p].value /\ call[p].value \in Values
    BY <1>1, <1>2 DEF Link, StoreInv, CallInv
  <2>2. acked[call[p].path] = <<>>
    BY <2>1, StoreAssumption DEF CreationInv
  <2>3. \A q \in Processes : ~Published(q, call[p].path)
    <3> SUFFICES ASSUME NEW q \in Processes, Published(q, call[p].path) PROVE FALSE
      OBVIOUS
    <3>1. files[call[p].path] = call[q].value /\ call[q].value \in Values
      BY <1>1, <2>1 DEF CreationInv
    <3> QED BY <2>1, <3>1, StoreAssumption
  <2> QED BY <1>2, <2>1, <2>2, <2>3 DEF Link, CreationInv, Paths
<1>3. ASSUME NEW p \in Processes, Return(p) PROVE CreationInv'
  <2> SUFFICES ASSUME NEW r \in Records
               PROVE  /\ \/ acked'[r] = <<>>
                         \/ \E v \in Values : acked'[r] = <<v>> /\ files'[r] = v
                      /\ \A q \in Processes : Published(q, r)' =>
                           acked'[r] = <<>> /\ files'[r] = call'[q].value
                      /\ \A q, w \in Processes : Published(q, r)' /\ Published(w, r)' => q = w
    BY DEF CreationInv
  <2>1. /\ files' = files
        /\ \A q \in Processes : Published(q, r)' =>
             q # p /\ Published(q, r) /\ call'[q] = call[q]
    BY <1>3 DEF Return
  <2>2. CASE Published(p, r)
    <3>1. acked[r] = <<>> /\ files[r] = call[p].value /\ call[p].value \in Values
      BY <1>1, <2>2 DEF CreationInv
    <3>2. acked'[r] = <<call[p].value>>
      BY <1>3, <2>2, <3>1 DEF Return
    <3>3. \A q \in Processes : ~Published(q, r)'
      BY <2>1, <2>2 DEF CreationInv
    <3> QED BY <2>1, <3>1, <3>2, <3>3
  <2>3. CASE ~Published(p, r)
    <3>1. acked'[r] = acked[r]
      BY <1>3, <2>3 DEF Return
    <3> QED BY <2>1, <3>1 DEF CreationInv
  <2> QED BY <2>2, <2>3
<1>4. ASSUME NEW p \in Processes, Replace(p) PROVE CreationInv'
  <2>1. \A r \in Records : r # Current
    BY StoreAssumption
  <2> QED BY <1>4, <2>1 DEF Replace, CreationInv
<1>5. ASSUME NEW p \in Processes,
             \/ \E path \in Paths, value \in Values : Call(p, path, value)
             \/ OpenTemp(p) \/ SyncTemp(p) \/ WriteFails(p) \/ Refuse(p)
             \/ PublishFails(p) \/ Interrupted(p)
      PROVE  CreationInv'
  <2>1. /\ files' = files /\ acked' = acked
        /\ \A q \in Processes, r \in Records :
             Published(q, r)' => Published(q, r) /\ call'[q] = call[q]
    BY <1>5 DEF Call, OpenTemp, SyncTemp, WriteFails, Refuse, PublishFails, Interrupted
  <2>2. ASSUME NEW r \in Records, NEW q \in Processes, Published(q, r)'
        PROVE  acked'[r] = <<>> /\ files'[r] = call'[q].value
    <3>1. Published(q, r) /\ call'[q] = call[q]
      BY <2>1, <2>2
    <3> QED BY <2>1, <3>1 DEF CreationInv
  <2>3. ASSUME NEW r \in Records, NEW q \in Processes, NEW w \in Processes,
               Published(q, r)', Published(w, r)'
        PROVE  q = w
    <3>1. Published(q, r) /\ Published(w, r)
      BY <2>1, <2>3
    <3> QED BY <3>1 DEF CreationInv
  <2> QED BY <2>1, <2>2, <2>3 DEF CreationInv
<1>6. CASE UNCHANGED vars
  BY <1>6 DEF vars, CreationInv
<1> QED BY <1>2, <1>3, <1>4, <1>5, <1>6 DEF Next, Step

(* Of all the calls that create one record at most one returns, and the    *)
(* record keeps its value.                                                 *)
THEOREM OneCreatorPerRecord == Spec => []OneCreator
<1>1. Init => CreationInv
  BY DEF Init, CreationInv, Published
<1>2. TypeOK /\ StoreInv /\ CreationInv /\ [Next]_vars => CreationInv'
  BY CreationStep
<1>3. CreationInv => OneCreator
  <2> SUFFICES ASSUME CreationInv, NEW r \in Records
               PROVE  /\ Len(acked[r]) <= 1
                      /\ acked[r] # <<>> => files[r] = Head(acked[r])
    BY DEF OneCreator
  <2>1. CASE acked[r] = <<>>
    BY <2>1
  <2>2. ASSUME NEW v \in Values, acked[r] = <<v>>, files[r] = v
        PROVE  Len(acked[r]) <= 1 /\ files[r] = Head(acked[r])
    <3>1. Len(<<v>>) = 1 /\ Head(<<v>>) = v
      OBVIOUS
    <3> QED BY <2>2, <3>1
  <2> QED BY <2>1, <2>2 DEF CreationInv
<1> QED BY <1>1, <1>2, <1>3, StoreInvariant, PTL DEF Spec

-----------------------------------------------------------------------------
(* Each call takes effect at its replace or link; every other step answers *)
(* the call, ends it, or is a stutter of the abstract store.               *)
LEMMA StoreStep ==
  ASSUME TypeOK, StoreInv, [Next]_vars
  PROVE  [Abstract!Next]_(Abstract!vars)
<1> USE DEF TypeOK, Goto, Abstract!vars
<1>0. \A p \in Processes : pc[p] # "idle" => call[p] \in CallSet /\ call[p] # None
  BY StoreAssumption DEF StoreInv, CallInv
<1>1. ASSUME NEW p \in Processes, NEW path \in Paths, NEW value \in Values,
             Call(p, path, value)
      PROVE  Abstract!Next
  <2>1. Abstract!Invoke(p)
    BY <1>1 DEF Call, StoreInv, CallInv, Abstract!Invoke, Abstract!Paths, Paths
  <2> QED BY <2>1 DEF Abstract!Next
<1>2. ASSUME NEW p \in Processes, OpenTemp(p) \/ SyncTemp(p) PROVE UNCHANGED Abstract!vars
  BY <1>2 DEF OpenTemp, SyncTemp
<1>3. ASSUME NEW p \in Processes, WriteFails(p) \/ PublishFails(p) \/ Interrupted(p)
      PROVE  Abstract!Next
  <2>1. Abstract!Fail(p)
    BY <1>3 DEF WriteFails, PublishFails, Interrupted, Abstract!Fail
  <2> QED BY <2>1 DEF Abstract!Next
<1>4. ASSUME NEW p \in Processes, Replace(p) \/ Link(p) PROVE Abstract!Next
  <2>1. /\ pc[p] = "synced" /\ result[p] = "none" /\ temp[p] = call[p].value
        /\ call[p] # None
    BY <1>0, <1>4 DEF Replace, Link, StoreInv, CallInv
  <2>2. Abstract!Apply(p)
    BY <1>4, <2>1 DEF Replace, Link, Abstract!Apply
  <2> QED BY <2>2 DEF Abstract!Next
<1>5. ASSUME NEW p \in Processes, Refuse(p) PROVE Abstract!Next
  <2>1. pc[p] = "synced" /\ result[p] = "none" /\ call[p] # None
    BY <1>0, <1>5 DEF Refuse, StoreInv, CallInv
  <2>2. Abstract!Refuse(p)
    BY <1>5, <2>1, StoreAssumption DEF Refuse, Abstract!Refuse
  <2> QED BY <2>2 DEF Abstract!Next
<1>6. ASSUME NEW p \in Processes, Return(p) PROVE Abstract!Next
  <2>1. pc[p] = "cleanup" /\ result[p] # "none" /\ call[p] # None
    BY <1>0, <1>6 DEF Return, StoreInv, CallInv
  <2>2. Abstract!Return(p)
    BY <1>6, <2>1 DEF Return, Abstract!Return
  <2> QED BY <2>2 DEF Abstract!Next
<1>7. CASE UNCHANGED vars
  BY <1>7 DEF vars
<1> QED BY <1>1, <1>2, <1>3, <1>4, <1>5, <1>6, <1>7 DEF Next, Step

(* The file protocol is an atomic store: a call takes effect at one        *)
(* instant or not at all.                                                  *)
THEOREM StoreIsAtomic == Spec => ImplementsAtomicStore
<1>1. Init => Abstract!Init
  BY DEF Init, Abstract!Init, Abstract!Paths, Paths
<1>2. TypeOK /\ StoreInv /\ [Next]_vars => [Abstract!Next]_(Abstract!vars)
  BY StoreStep
<1> QED BY <1>1, <1>2, StoreInvariant, PTL DEF Spec, ImplementsAtomicStore, Abstract!Spec

=============================================================================
