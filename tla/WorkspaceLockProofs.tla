------------------------ MODULE WorkspaceLockProofs ------------------------
(***************************************************************************)
(* The workspace lock excludes and implements ExclusiveHold, for any       *)
(* number of instances and processes.                                      *)
(***************************************************************************)
EXTENDS WorkspaceLock, Integers, TLAPS

LEMMA TypeStep ==
  ASSUME TypeOK, [Next]_vars
  PROVE  TypeOK'
<1> USE DEF TypeOK, PCs, Goto
<1>1. ASSUME NEW i \in Instances, Open(i) \/ Release(i) \/ Step(i) \/ Collect(i)
      PROVE  TypeOK'
  BY <1>1, LockAssumption
  DEF Open, Release, Step, Collect, Lock, Conflict, Truncate, WriteMetadata,
      MetadataFails, Hold, Unlock, UnlockFails, CloseHandle
<1>2. ASSUME NEW p \in Processes, Terminate(p) PROVE TypeOK'
  BY <1>2 DEF Terminate
<1>3. CASE UNCHANGED vars
  BY <1>3 DEF vars
<1> QED BY <1>1, <1>2, <1>3 DEF Next

LEMMA InitInv == Init => TypeOK /\ OwnerInv
  BY DEF Init, TypeOK, PCs, OwnerInv

LEMMA Typing == Spec => []TypeOK
  BY InitInv, TypeStep, PTL DEF Spec

LEMMA OwnerInvStep ==
  ASSUME TypeOK, OwnerInv, [Next]_vars
  PROVE  OwnerInv'
<1> USE DEF TypeOK, PCs, OwnerInv, Goto
<1>1. ASSUME NEW i \in Instances, Open(i) \/ Conflict(i) \/ Hold(i) \/ Release(i)
                                  \/ UnlockFails(i)
      PROVE  OwnerInv'
  BY <1>1 DEF Open, Conflict, Hold, Release, UnlockFails
<1>2. ASSUME NEW i \in Instances, Lock(i) PROVE OwnerInv'
  BY <1>2, LockAssumption DEF Lock
<1>3. ASSUME NEW i \in Instances, Truncate(i) \/ WriteMetadata(i) PROVE OwnerInv'
  <2>1. \A j \in Instances : pc[j] \in {"written", "held"} => FALSE
    BY <1>3 DEF Truncate, WriteMetadata
  <2> QED BY <1>3, <2>1 DEF Truncate, WriteMetadata
<1>4. ASSUME NEW i \in Instances, MetadataFails(i) PROVE OwnerInv'
  BY <1>4 DEF MetadataFails
<1>5. ASSUME NEW i \in Instances, Unlock(i) \/ CloseHandle(i) \/ Collect(i)
      PROVE  OwnerInv'
  BY <1>5, LockAssumption DEF Unlock, CloseHandle, Collect
<1>6. ASSUME NEW p \in Processes, Terminate(p) PROVE OwnerInv'
  BY <1>6 DEF Terminate
<1>7. CASE UNCHANGED vars
  BY <1>7 DEF vars
<1> QED BY <1>1, <1>2, <1>3, <1>4, <1>5, <1>6, <1>7 DEF Next, Step

LEMMA OwnerInvariant == Spec => []OwnerInv
<1>1. Init => OwnerInv
  BY InitInv
<1>2. TypeOK /\ OwnerInv /\ [Next]_vars => OwnerInv'
  BY OwnerInvStep
<1> QED BY <1>1, <1>2, Typing, PTL DEF Spec

(* At most one instance answers is_held. *)
LEMMA InvExcludes == OwnerInv => MutualExclusion
  BY DEF OwnerInv, MutualExclusion, IsHeld

THEOREM LockExcludes == Spec => []MutualExclusion
  BY OwnerInvariant, InvExcludes, PTL

(* lock.py lines 47 and 88-95: a held lock file names its holder. *)
THEOREM HolderIsNamed == Spec => []MetadataNamesHolder
<1>1. OwnerInv => MetadataNamesHolder
  BY DEF OwnerInv, MetadataNamesHolder, IsHeld
<1> QED BY <1>1, OwnerInvariant, PTL

-----------------------------------------------------------------------------
(* Refinement *)

LEMMA HolderIsTheHeldOne ==
  ASSUME OwnerInv, NEW i \in Instances
  PROVE  /\ IsHeld(i) => Holder = i
         /\ (\A j \in Instances : ~IsHeld(j)) => Holder = None
  BY InvExcludes DEF Holder, MutualExclusion

(* A holder stays the holder, gives up, or was nobody and is one instance. *)
LEMMA HolderStep ==
  ASSUME TypeOK, OwnerInv, OwnerInv', [Next]_vars
  PROVE  [Abstract!Next]_Holder
<1> USE DEF Goto, TypeOK, PCs
<1>1. ASSUME NEW i \in Instances, Hold(i) PROVE Abstract!Next
  <2>1. \A j \in Instances : ~IsHeld(j)
    BY <1>1 DEF Hold, IsHeld, OwnerInv
  <2>2. Holder = None
    BY <2>1, HolderIsTheHeldOne
  <2>3. IsHeld(i)'
    BY <1>1 DEF Hold, IsHeld
  <2>4. Holder' = i
    BY <2>3, InvExcludes DEF Holder, MutualExclusion
  <2> QED BY <2>2, <2>4 DEF Abstract!Next, Abstract!Take
<1>2. ASSUME NEW i \in Instances, Release(i) PROVE Abstract!Next
  <2>1. IsHeld(i) /\ \A j \in Instances : IsHeld(j) => j = i
    BY <1>2, InvExcludes DEF Release, IsHeld, MutualExclusion
  <2>2. Holder = i
    BY <2>1, HolderIsTheHeldOne
  <2>3. \A j \in Instances : ~IsHeld(j)'
    BY <1>2, <2>1 DEF Release, IsHeld
  <2>4. Holder' = None
    BY <2>3 DEF Holder
  <2> QED BY <2>2, <2>4, LockAssumption DEF Abstract!Next, Abstract!GiveUp
<1>3. ASSUME NEW p \in Processes, Terminate(p) PROVE [Abstract!Next]_Holder
  <2>1. \A j \in Instances : IsHeld(j)' => IsHeld(j)
    BY <1>3 DEF Terminate, IsHeld
  <2>2. CASE \E j \in Instances : IsHeld(j)'
    <3>1. PICK j \in Instances : IsHeld(j)'
      BY <2>2
    <3>2. Holder = j
      BY <2>1, <3>1, HolderIsTheHeldOne
    <3>3. Holder' = j
      BY <3>1, InvExcludes DEF Holder, MutualExclusion
    <3> QED BY <3>2, <3>3
  <2>3. CASE \A j \in Instances : ~IsHeld(j)'
    <3>1. Holder' = None
      BY <2>3 DEF Holder
    <3> QED BY <3>1 DEF Abstract!Next, Abstract!GiveUp
  <2> QED BY <2>2, <2>3
<1>4. ASSUME NEW i \in Instances, Open(i) \/ Collect(i) \/ Lock(i) \/ Conflict(i)
               \/ Truncate(i) \/ WriteMetadata(i) \/ MetadataFails(i) \/ Unlock(i)
               \/ UnlockFails(i) \/ CloseHandle(i)
      PROVE  Holder' = Holder
  <2>1. \A j \in Instances : IsHeld(j)' <=> IsHeld(j)
    BY <1>4 DEF IsHeld, Open, Collect, Lock, Conflict, Truncate, WriteMetadata,
         MetadataFails, Unlock, UnlockFails, CloseHandle
  <2> QED BY <2>1 DEF Holder
<1>5. CASE UNCHANGED vars
  BY <1>5 DEF vars, Holder, IsHeld
<1> QED BY <1>1, <1>2, <1>3, <1>4, <1>5 DEF Next, Step

(* The promise of lock.py lines 3-5, for every number of instances. *)
THEOREM LockImplementsExclusiveHold == Spec => ImplementsExclusiveHold
<1>1. Init => Abstract!Init
  BY DEF Init, Abstract!Init, Holder, IsHeld
<1>2. TypeOK /\ OwnerInv /\ OwnerInv' /\ [Next]_vars => [Abstract!Next]_Holder
  BY HolderStep
<1> QED BY <1>1, <1>2, Typing, OwnerInvariant, PTL DEF Spec, ImplementsExclusiveHold, Abstract!Spec

-----------------------------------------------------------------------------
(* The safety half of NoOrphanLock *)

(* The flock belongs to an instance on its way to holding it or to giving  *)
(* it up, or to a handle that the interpreter is about to close.           *)
Accounted == owner # None =>
  \/ owner \in leaked
  \/ pc[owner] \in {"locked", "truncated", "written", "held", "unlocking", "closing"}

LEMMA AccountedStep ==
  ASSUME TypeOK, OwnerInv, Accounted, [Next]_vars
  PROVE  Accounted'
<1> USE LockAssumption DEF TypeOK, PCs, OwnerInv, Goto, Accounted
<1>1. ASSUME NEW i \in Instances, Open(i) \/ Conflict(i) \/ Hold(i) \/ Release(i)
                                  \/ UnlockFails(i) \/ Truncate(i) \/ WriteMetadata(i)
      PROVE  Accounted'
  BY <1>1 DEF Open, Conflict, Hold, Release, UnlockFails, Truncate, WriteMetadata
<1>2. ASSUME NEW i \in Instances, Lock(i) \/ MetadataFails(i) \/ Unlock(i) \/ CloseHandle(i)
                                  \/ Collect(i)
      PROVE  Accounted'
  BY <1>2 DEF Lock, MetadataFails, Unlock, CloseHandle, Collect
<1>3. ASSUME NEW p \in Processes, Terminate(p) PROVE Accounted'
  BY <1>3 DEF Terminate
<1>4. CASE UNCHANGED vars
  BY <1>4 DEF vars
<1> QED BY <1>1, <1>2, <1>3, <1>4 DEF Next, Step

(* How many steps an owner that is not holding is away from holding the    *)
(* flock or giving it up.                                                  *)
Distance(i) ==
  IF i \in leaked THEN 1
  ELSE CASE pc[i] = "locked" -> 4
         [] pc[i] = "truncated" -> 3
         [] pc[i] \in {"written", "unlocking"} -> 2
         [] OTHER -> 1

Orphan(i) == owner = i /\ ~IsHeld(i)

(* The step that the fairness of Spec owes to an orphan. *)
Owed(i) == IF i \in leaked THEN Collect(i) ELSE Step(i)

LEMMA OrphanStep ==
  ASSUME TypeOK, OwnerInv, Accounted, NEW i \in Instances, Orphan(i), Orphan(i)', [Next]_vars
  PROVE  /\ Distance(i)' <= Distance(i)
         /\ Owed(i) => Distance(i)' < Distance(i)
<1> USE LockAssumption DEF TypeOK, PCs, OwnerInv, Goto, Orphan, IsHeld, Accounted, Distance
<1>1. ASSUME NEW j \in Instances, Open(j) \/ Conflict(j) \/ Release(j) \/ Hold(j), j # i
      PROVE  Distance(i)' = Distance(i)
  BY <1>1 DEF Open, Conflict, Release, Hold
<1>2. ASSUME NEW j \in Instances, Truncate(j) \/ WriteMetadata(j) \/ MetadataFails(j) \/ Lock(j)
                                  \/ Unlock(j) \/ UnlockFails(j) \/ CloseHandle(j) \/ Collect(j),
             j # i
      PROVE  Distance(i)' = Distance(i)
  BY <1>2 DEF Truncate, WriteMetadata, MetadataFails, Lock, Unlock, UnlockFails,
              CloseHandle, Collect
<1>3. ASSUME NEW p \in Processes, Terminate(p) PROVE Distance(i)' = Distance(i)
  BY <1>3 DEF Terminate
<1>4. ASSUME Step(i) PROVE Distance(i)' <= Distance(i) /\ (i \notin leaked => Distance(i)' < Distance(i))
  BY <1>4 DEF Step, Lock, Conflict, Truncate, WriteMetadata, MetadataFails, Hold, Unlock,
              UnlockFails, CloseHandle
<1>5. ~Collect(i)
  BY DEF Collect
<1>6. ASSUME Open(i) \/ Release(i) PROVE Distance(i)' = Distance(i) /\ i \in leaked
  BY <1>6 DEF Open, Release
<1>7. CASE UNCHANGED vars
  <2>1. Distance(i)' = Distance(i) /\ Distance(i) \in Nat
    BY <1>7 DEF vars
  <2>2. ~Owed(i)
    BY <1>4, <1>5, <1>7, <2>1 DEF Owed, vars
  <2> QED BY <2>1, <2>2
<1> QED BY <1>1, <1>2, <1>3, <1>4, <1>5, <1>6, <1>7 DEF Next, Step, Owed

(* lock.py lines 7-12: a flock whose owner does not hold it is in use by a *)
(* call of acquire or release, or by a handle about to be collected.       *)
THEOREM OrphansAreUnderWay == Spec => []Accounted
<1>1. Init => Accounted
  BY DEF Init, Accounted
<1>2. TypeOK /\ OwnerInv /\ Accounted /\ [Next]_vars => Accounted'
  BY AccountedStep
<1> QED BY <1>1, <1>2, Typing, OwnerInvariant, PTL DEF Spec

(* lock.py lines 7-12: it is at most four steps from being held or given   *)
(* up; nobody's step takes it further away, and each step that fairness    *)
(* owes it brings it nearer.                                               *)
OrphansDwindle ==
  [][\A i \in Instances : Orphan(i) /\ Orphan(i)' =>
       /\ Distance(i)' <= Distance(i)
       /\ Owed(i) => Distance(i)' < Distance(i)]_vars

(* Together with the enabledness of those steps, which the provers cannot   *)
(* express, this is NoOrphanLock.                                           *)
THEOREM OrphansComeNearer == Spec => OrphansDwindle
<1> DEFINE Nearer == \A i \in Instances : Orphan(i) /\ Orphan(i)' =>
             /\ Distance(i)' <= Distance(i)
             /\ Owed(i) => Distance(i)' < Distance(i)
<1>1. TypeOK /\ OwnerInv /\ Accounted /\ [Next]_vars => [Nearer]_vars
  BY OrphanStep
<1>2. OrphansDwindle <=> [][Nearer]_vars
  BY DEF OrphansDwindle
<1> QED BY <1>1, <1>2, Typing, OwnerInvariant, OrphansAreUnderWay, PTL DEF Spec

=============================================================================
