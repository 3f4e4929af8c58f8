---------------------------- MODULE WorkspaceLock ----------------------------
(***************************************************************************)
(* workspace/lock.py on POSIX: WorkspaceLock instances, in one or several  *)
(* processes, over the same lock file.  flock locks belong to open file    *)
(* handles, so an acquire of an instance can be refused by a handle of its *)
(* own process, or even its own.  Each line of acquire and release that    *)
(* another process can observe is an action.  A process may terminate      *)
(* between any two of them: the operating system then closes its handles.  *)
(***************************************************************************)
EXTENDS Option

CONSTANTS
  Instances,        \* WorkspaceLock objects
  Processes,        \* the processes they live in
  ProcessOf         \* the process of each instance

ASSUME LockAssumption ==
  /\ ProcessOf \in [Instances -> Processes]
  /\ None \notin Instances
  /\ None \notin Processes

VARIABLES
  pc,               \* where each instance's acquire or release stands
  owner,            \* the instance whose handle has the flock, or None
  leaked,           \* instances whose failed acquire left its handle open
  metadata          \* the process the lock file names, or None

vars == <<pc, owner, leaked, metadata>>

PCs == {"idle", "opened", "locked", "truncated", "written", "held", "unlocking", "closing"}

(* is_held: self._file is set. *)
IsHeld(i) == pc[i] = "held"

TypeOK ==
  /\ pc \in [Instances -> PCs]
  /\ owner \in Instances \cup {None}
  /\ leaked \subseteq Instances
  /\ metadata \in Processes \cup {None}

Init ==
  /\ pc = [i \in Instances |-> "idle"]
  /\ owner = None
  /\ leaked = {}
  /\ metadata = None

Goto(i, from, to) == pc[i] = from /\ pc' = [pc EXCEPT ![i] = to]

-----------------------------------------------------------------------------
(* acquire; called on an instance that is held it raises and changes nothing *)

(* Mutant: mode "w+" truncates the file before the lock is taken. *)
OpenTruncating(i) ==
  /\ Goto(i, "idle", "opened")
  /\ metadata' = None
  /\ UNCHANGED <<owner, leaked>>

Open(i) ==
  /\ Goto(i, "idle", "opened")
  /\ UNCHANGED <<owner, leaked, metadata>>

(* Mutant: a record lock (fcntl F_SETLK), which a process does not hold    *)
(* against itself.                                                         *)
LockOfProcess(i) ==
  /\ \A j \in Instances : owner = j => ProcessOf[j] = ProcessOf[i]
  /\ Goto(i, "opened", "locked")
  /\ owner' = i
  /\ UNCHANGED <<leaked, metadata>>

(* Mutant: LOCK_SH. *)
LockShared(i) ==
  /\ Goto(i, "opened", "locked")
  /\ owner' = i
  /\ UNCHANGED <<leaked, metadata>>

Lock(i) ==
  /\ owner = None
  /\ Goto(i, "opened", "locked")
  /\ owner' = i
  /\ UNCHANGED <<leaked, metadata>>

(* LOCK_NB: the conflict is raised at once, after closing the handle.  Any *)
(* other failure of flock is reported as a conflict too.                   *)
Conflict(i) ==
  /\ Goto(i, "opened", "idle")
  /\ UNCHANGED <<owner, leaked, metadata>>

Truncate(i) ==
  /\ Goto(i, "locked", "truncated")
  /\ metadata' = None
  /\ UNCHANGED <<owner, leaked>>

(* Mutant: the instance is written instead of its process. *)
WriteMetadataOfInstance(i) ==
  /\ Goto(i, "truncated", "written")
  /\ metadata' = i
  /\ UNCHANGED <<owner, leaked>>

WriteMetadata(i) ==
  /\ Goto(i, "truncated", "written")
  /\ metadata' = ProcessOf[i]
  /\ UNCHANGED <<owner, leaked>>

(* truncate, write, flush or fsync raises OSError, fsync when the file has *)
(* the text already: acquire leaves without closing the handle or setting  *)
(* self._file, so the flock stays.                                         *)
MetadataFails(i) ==
  /\ pc[i] \in {"locked", "truncated", "written"}
  /\ pc' = [pc EXCEPT ![i] = "idle"]
  /\ leaked' = leaked \cup {i}
  /\ UNCHANGED <<owner, metadata>>

Hold(i) ==
  /\ Goto(i, "written", "held")
  /\ UNCHANGED <<owner, leaked, metadata>>

-----------------------------------------------------------------------------
(* release; called on an instance that is not held it does nothing *)

Release(i) ==
  /\ Goto(i, "held", "unlocking")
  /\ UNCHANGED <<owner, leaked, metadata>>

Unlock(i) ==
  /\ Goto(i, "unlocking", "closing")
  /\ owner' = None
  /\ UNCHANGED <<leaked, metadata>>

(* LOCK_UN raises: closing the handle, in the finally block, will do. *)
UnlockFails(i) ==
  /\ Goto(i, "unlocking", "closing")
  /\ UNCHANGED <<owner, leaked, metadata>>

(* Mutant: no finally block, so the handle stays open. *)
CloseHandleNever(i) ==
  /\ Goto(i, "closing", "idle")
  /\ UNCHANGED <<owner, leaked, metadata>>

CloseHandle(i) ==
  /\ Goto(i, "closing", "idle")
  /\ owner' = IF owner = i THEN None ELSE owner
  /\ UNCHANGED <<leaked, metadata>>

-----------------------------------------------------------------------------
(* The interpreter closes a handle nothing refers to any more. *)
Collect(i) ==
  /\ i \in leaked
  /\ leaked' = leaked \ {i}
  /\ owner' = None
  /\ UNCHANGED <<pc, metadata>>

Terminate(p) ==
  LET mine == {i \in Instances : ProcessOf[i] = p} IN
  /\ pc' = [i \in Instances |-> IF i \in mine THEN "idle" ELSE pc[i]]
  /\ leaked' = leaked \ mine
  /\ owner' = IF owner \in mine THEN None ELSE owner
  /\ UNCHANGED metadata

Step(i) ==
  \/ Lock(i) \/ Conflict(i) \/ Truncate(i) \/ WriteMetadata(i) \/ MetadataFails(i)
  \/ Hold(i) \/ Unlock(i) \/ UnlockFails(i) \/ CloseHandle(i)

Next ==
  \/ \E i \in Instances : Open(i) \/ Release(i) \/ Step(i) \/ Collect(i)
  \/ \E p \in Processes : Terminate(p)

(* A running process goes on, and drops the exception of a failed acquire; *)
(* nobody has to call acquire or release.                                  *)
Fairness == \A i \in Instances : WF_vars(Step(i)) /\ WF_vars(Collect(i))

Spec == Init /\ [][Next]_vars /\ Fairness

-----------------------------------------------------------------------------
(* Properties *)

(* The holder of the abstract lock is the instance that answers is_held. *)
Holder == IF \E i \in Instances : IsHeld(i)
          THEN CHOOSE i \in Instances : IsHeld(i) ELSE None

Abstract == INSTANCE ExclusiveHold WITH holder <- Holder

(* lock.py lines 3-5: processes never orchestrate concurrently; a holder   *)
(* is gone, by release or by termination, before another one appears.      *)
ImplementsExclusiveHold == Abstract!Spec

(* No two instances answer is_held. *)
MutualExclusion == \A i, j \in Instances : IsHeld(i) /\ IsHeld(j) => i = j

(* lock.py lines 47 and 88-95: while an instance is held the lock file     *)
(* names its process, whoever tried, failed or died before.                *)
MetadataNamesHolder == \A i \in Instances : IsHeld(i) => metadata = ProcessOf[i]

(* lock.py lines 7-12: the lock is never left behind.  An owner that is not *)
(* holding -- dead, failed or half way -- lets go of it or comes to hold it. *)
NoOrphanLock ==
  \A i \in Instances : owner = i /\ ~IsHeld(i) ~> owner # i \/ IsHeld(i)

(* Every flock belongs to exactly one open handle that is still in use.    *)
OwnerInv ==
  /\ \A i \in Instances :
       pc[i] \in {"locked", "truncated", "written", "held", "unlocking"}
         => owner = i /\ i \notin leaked
  /\ \A i \in leaked : owner = i /\ pc[i] # "closing"
  /\ \A i \in Instances : pc[i] \in {"written", "held"} => metadata = ProcessOf[i]

=============================================================================
