----------------------- MODULE CandidateSnapshotProofs -----------------------
(***************************************************************************)
(* The snapshot of candidate_snapshot is exact for every path that nobody  *)
(* touched during the call, for any number of paths and contents.          *)
(***************************************************************************)
EXTENDS CandidateSnapshot, TLAPS

(* The entry of an untouched path before the diff is asked for ... *)
FromStatus(p) == IF p \in Untracked THEN Entry("ADDED", worktree[p]) ELSE None

(* ... and after its changed files are read. *)
FromDiff(p) ==
  CASE DiffKind(p) = "DELETED"              -> Entry("DELETED", None)
    [] DiffKind(p) \in {"ADDED", "MODIFIED"} -> Entry(DiffKind(p), worktree[p])
    [] OTHER                                -> FromStatus(p)

Awaited(p) == \E e \in pending : e.path = p

(* What candidate_snapshot has gathered so far about untouched paths. *)
SnapshotInv ==
  /\ pc = "status" => pending = {} /\ \A p \in Paths : entries[p] = None
  /\ pc \in {"idle", "done", "failed"} => pending = {}
  /\ pc = "untracked" =>
       \A p \in Paths \ touched :
         /\ \A e \in pending : e.path = p => e.kind = "ADDED" /\ p \in Untracked
         /\ ~Awaited(p) => entries[p] = FromStatus(p)
  /\ pc = "tracked" =>
       \A p \in Paths \ touched :
         /\ \A e \in pending : e.path = p => e.kind = DiffKind(p) /\ e.kind # "DELETED"
         /\ ~Awaited(p) => entries[p] = FromDiff(p)
  /\ pc = "done" => \A p \in Paths \ touched : entries[p] = FromDiff(p)

-----------------------------------------------------------------------------
(* Every operation keeps the variables within their types. *)
LEMMA Typing == Spec => []TypeOK
<1>1. Init => TypeOK
  BY SnapshotAssumption DEF Init, TypeOK, Files
<1>2. TypeOK /\ [Next]_vars => TypeOK'
  <2> SUFFICES ASSUME TypeOK, [Next]_vars PROVE TypeOK'
    OBVIOUS
  <2> USE DEF TypeOK, Files
  <2>1. CASE Begin
    BY <2>1 DEF Begin, world
  <2>2. CASE Status
    BY <2>2 DEF Status, world, Kinds, Untracked
  <2>3. CASE Diff
    <3>1. pending' \subseteq [path : Paths, kind : Kinds]
      BY <2>3 DEF Diff, Kinds
    <3>2. entries' \in [Paths -> Entries \cup {None}]
      BY <2>3 DEF Diff, Entries, Entry, Kinds
    <3> QED BY <2>3, <3>1, <3>2 DEF Diff, world
  <2>4. CASE Return
    BY <2>4 DEF Return, world
  <2>5. ASSUME NEW e \in pending, HashFile(e) PROVE TypeOK'
    <3>1. e.path \in Paths /\ e.kind \in Kinds
      OBVIOUS
    <3>2. Entry(e.kind, worktree[e.path]) \in Entries
      BY <3>1 DEF Entry, Entries
    <3> QED BY <2>5, <3>1, <3>2 DEF HashFile, world
  <2>6. ASSUME NEW e \in pending, HashFails(e) PROVE TypeOK'
    BY <2>6 DEF HashFails, world
  <2>7. ASSUME NEW p \in Paths, NEW content \in Contents \cup {None}, Write(p, content)
        PROVE  TypeOK'
    BY <2>7 DEF Write
  <2>8. ASSUME NEW p \in Paths, Stage(p) PROVE TypeOK'
    BY <2>8, SnapshotAssumption DEF Stage
  <2>9. CASE UNCHANGED vars
    BY <2>9 DEF vars, world
  <2> QED BY <2>1, <2>2, <2>3, <2>4, <2>5, <2>6, <2>7, <2>8, <2>9 DEF Next
<1> QED BY <1>1, <1>2, PTL DEF Spec

-----------------------------------------------------------------------------
(* What git would answer about a path depends on that path alone.          *)
LEMMA LocalAnswers ==
  ASSUME NEW p \in Paths, worktree'[p] = worktree[p], index'[p] = index[p]
  PROVE  /\ (p \in Untracked)' <=> p \in Untracked
         /\ DiffKind(p)' = DiffKind(p)
         /\ FromStatus(p)' = FromStatus(p)
         /\ FromDiff(p)' = FromDiff(p)
<1>1. (p \in Untracked)' <=> p \in Untracked
  BY DEF Untracked
<1>2. DiffKind(p)' = DiffKind(p)
  BY DEF DiffKind, OnDisk
<1>3. FromStatus(p)' = FromStatus(p)
  BY <1>1 DEF FromStatus, Entry
<1>4. FromDiff(p)' = FromDiff(p)
  BY <1>2, <1>3 DEF FromDiff, Entry
<1> QED BY <1>1, <1>2, <1>3, <1>4

(* The changes of the world leave what was gathered about the other paths. *)
LEMMA WorldStep ==
  ASSUME TypeOK, SnapshotInv, NEW p \in Paths,
         \/ Stage(p)
         \/ \E content \in Contents \cup {None} : Write(p, content)
  PROVE  SnapshotInv'
<1>1. /\ touched' = touched \cup {p}
      /\ UNCHANGED <<pc, pending, entries>>
  BY DEF Stage, Write
<1>2. ASSUME NEW q \in Paths \ touched' PROVE worktree'[q] = worktree[q] /\ index'[q] = index[q]
  BY <1>1, <1>2 DEF Stage, Write, TypeOK, Files
<1>3. ASSUME NEW q \in Paths \ touched'
      PROVE  /\ q \in Paths \ touched
             /\ (q \in Untracked)' <=> q \in Untracked
             /\ DiffKind(q)' = DiffKind(q)
             /\ FromStatus(q)' = FromStatus(q)
             /\ FromDiff(q)' = FromDiff(q)
  BY <1>1, <1>2, LocalAnswers
<1> QED BY <1>1, <1>3 DEF SnapshotInv, Awaited

(* Reading one file settles its path and no other.                         *)
LEMMA HashStep ==
  ASSUME TypeOK, SnapshotInv, NEW e \in pending, HashFile(e)
  PROVE  SnapshotInv'
<1>1. /\ pc \in {"untracked", "tracked"}
      /\ worktree[e.path] # None
      /\ entries' = [entries EXCEPT ![e.path] = Entry(e.kind, worktree[e.path])]
      /\ pending' = pending \ {e}
      /\ UNCHANGED <<worktree, index, pc, touched>>
      /\ e.path \in Paths
  BY DEF HashFile, world, TypeOK
<1>2. ASSUME NEW p \in Paths
      PROVE  /\ (p \in Untracked)' <=> p \in Untracked
             /\ DiffKind(p)' = DiffKind(p)
             /\ FromStatus(p)' = FromStatus(p)
             /\ FromDiff(p)' = FromDiff(p)
  BY <1>1, LocalAnswers
<1>3. ASSUME NEW p \in Paths, p # e.path
      PROVE  entries'[p] = entries[p] /\ (Awaited(p)' <=> Awaited(p))
  BY <1>1, <1>3 DEF Awaited, TypeOK
<1>4. CASE pc = "untracked"
  <2>1. ASSUME e.path \notin touched PROVE entries'[e.path] = FromStatus(e.path)
    BY <1>1, <1>4, <2>1 DEF SnapshotInv, FromStatus, TypeOK
  <2> QED BY <1>1, <1>2, <1>3, <1>4, <2>1 DEF SnapshotInv
<1>5. CASE pc = "tracked"
  <2>1. ASSUME e.path \notin touched PROVE entries'[e.path] = FromDiff(e.path)
    <3>1. e.kind = DiffKind(e.path) /\ e.kind # "DELETED" /\ e.kind \in Kinds
      BY <1>1, <1>5, <2>1 DEF SnapshotInv, TypeOK
    <3>2. DiffKind(e.path) \in {"ADDED", "MODIFIED"}
      BY <3>1 DEF Kinds
    <3> QED BY <1>1, <3>1, <3>2 DEF FromDiff, TypeOK
  <2> QED BY <1>1, <1>2, <1>3, <1>5, <2>1 DEF SnapshotInv
<1> QED BY <1>1, <1>4, <1>5

LEMMA DiffStep ==
  ASSUME TypeOK, SnapshotInv, Diff
  PROVE  SnapshotInv'
<1>1. /\ pc = "untracked" /\ pending = {}
      /\ pc' = "tracked"
      /\ pending' = {[path |-> p, kind |-> DiffKind(p)] :
                       p \in {q \in Paths : DiffKind(q) \in {"ADDED", "MODIFIED"}}}
      /\ UNCHANGED <<worktree, index, touched>>
  BY DEF Diff, world
<1>2. ASSUME NEW p \in Paths
      PROVE  DiffKind(p)' = DiffKind(p) /\ FromDiff(p)' = FromDiff(p)
  BY <1>1, LocalAnswers
<1>3. ASSUME NEW p \in Paths \ touched
      PROVE  entries'[p] = IF DiffKind(p) = "DELETED" THEN Entry("DELETED", None)
                                                      ELSE FromStatus(p)
  BY <1>1 DEF Diff, SnapshotInv, Awaited
<1>4. ASSUME NEW p \in Paths
      PROVE  /\ \A e \in pending' : e.path = p => e.kind = DiffKind(p) /\ e.kind # "DELETED"
             /\ ~Awaited(p)' => DiffKind(p) \notin {"ADDED", "MODIFIED"}
  <2>1. \A e \in pending' : e.path = p => e.kind = DiffKind(p) /\ e.kind # "DELETED"
    BY <1>1
  <2>2. ASSUME DiffKind(p) \in {"ADDED", "MODIFIED"} PROVE Awaited(p)'
    <3>1. [path |-> p, kind |-> DiffKind(p)] \in pending'
      BY <1>1, <2>2
    <3> QED BY <3>1 DEF Awaited
  <2> QED BY <2>1, <2>2
<1>5. ASSUME NEW p \in Paths \ touched, ~Awaited(p)' PROVE entries'[p] = FromDiff(p)
  BY <1>3, <1>4, <1>5 DEF FromDiff
<1> QED BY <1>1, <1>2, <1>4, <1>5 DEF SnapshotInv

LEMMA SnapshotInvStep ==
  ASSUME TypeOK, SnapshotInv, [Next]_vars
  PROVE  SnapshotInv'
<1>1. CASE Begin
  BY <1>1 DEF Begin, SnapshotInv, world
<1>2. CASE Status
  <2>1. /\ pc = "status" /\ pc' = "untracked"
        /\ pending' = {[path |-> p, kind |-> "ADDED"] : p \in Untracked}
        /\ UNCHANGED <<worktree, index, entries, touched>>
    BY <1>2 DEF Status, world
  <2>2. ASSUME NEW p \in Paths
        PROVE  ((p \in Untracked)' <=> p \in Untracked) /\ FromStatus(p)' = FromStatus(p)
    BY <2>1, LocalAnswers
  <2>3. ASSUME NEW p \in Paths, ~Awaited(p)' PROVE p \notin Untracked
    <3>1. p \in Untracked => [path |-> p, kind |-> "ADDED"] \in pending'
      BY <2>1
    <3> QED BY <2>3, <3>1 DEF Awaited
  <2>4. ASSUME NEW p \in Paths, ~Awaited(p)' PROVE entries'[p] = FromStatus(p)
    BY <2>1, <2>3, <2>4 DEF FromStatus, SnapshotInv
  <2>5. ASSUME NEW p \in Paths, NEW e \in pending', e.path = p
        PROVE  e.kind = "ADDED" /\ p \in Untracked
    BY <2>1, <2>5
  <2> QED BY <2>1, <2>2, <2>4, <2>5 DEF SnapshotInv
<1>3. CASE Diff
  BY <1>3, DiffStep
<1>4. CASE Return
  <2>1. \A p \in Paths : FromDiff(p)' = FromDiff(p)
    BY <1>4, LocalAnswers DEF Return, world
  <2> QED BY <1>4, <2>1 DEF Return, SnapshotInv, Awaited
<1>5. ASSUME NEW e \in pending, HashFile(e) PROVE SnapshotInv'
  BY <1>5, HashStep
<1>6. ASSUME NEW e \in pending, HashFails(e) PROVE SnapshotInv'
  BY <1>6 DEF HashFails, SnapshotInv
<1>7. ASSUME NEW p \in Paths, NEW content \in Contents \cup {None}, Write(p, content)
      PROVE  SnapshotInv'
  BY <1>7, WorldStep
<1>8. ASSUME NEW p \in Paths, Stage(p) PROVE SnapshotInv'
  BY <1>8, WorldStep
<1>9. CASE UNCHANGED vars
  <2>1. \A p \in Paths : /\ (p \in Untracked)' <=> p \in Untracked
                         /\ DiffKind(p)' = DiffKind(p)
                         /\ FromStatus(p)' = FromStatus(p)
                         /\ FromDiff(p)' = FromDiff(p)
    BY <1>9, LocalAnswers DEF vars, world
  <2> QED BY <1>9, <2>1 DEF vars, SnapshotInv, Awaited
<1> QED BY <1>1, <1>2, <1>3, <1>4, <1>5, <1>6, <1>7, <1>8, <1>9 DEF Next

(* Status and diff together answer what the worktree alone determines,     *)
(* unless a baseline file left the index and stayed on disk.               *)
LEMMA FromDiffIsCanonical ==
  ASSUME TypeOK, NEW p \in Paths
  PROVE  Unindexed(p) \/ FromDiff(p) = Canonical(p)
<1> SUFFICES ASSUME ~Unindexed(p) PROVE FromDiff(p) = Canonical(p)
  OBVIOUS
<1> USE SnapshotAssumption DEF TypeOK, Files, Unindexed, OnDisk
<1>1. CASE Baseline[p] # None /\ worktree[p] = None
  BY <1>1 DEF DiffKind, FromDiff, Canonical
<1>2. CASE Baseline[p] # None /\ worktree[p] \notin {None, Baseline[p]}
  <2>1. DiffKind(p) = "MODIFIED"
    BY <1>2 DEF DiffKind
  <2> QED BY <1>2, <2>1 DEF FromDiff, Canonical
<1>3. CASE Baseline[p] # None /\ worktree[p] = Baseline[p]
  <2>1. DiffKind(p) = None /\ p \notin Untracked
    BY <1>3 DEF DiffKind, Untracked
  <2>2. DiffKind(p) \notin Kinds
    BY <2>1, SnapshotAssumption
  <2> QED BY <1>3, <2>1, <2>2 DEF FromDiff, FromStatus, Canonical, Kinds
<1>4. CASE Baseline[p] = None
  <2>1. CASE index[p] # None /\ worktree[p] # None
    <3>1. DiffKind(p) = "ADDED"
      BY <1>4, <2>1 DEF DiffKind
    <3> QED BY <1>4, <2>1, <3>1 DEF FromDiff, Canonical
  <2>2. CASE ~(index[p] # None /\ worktree[p] # None)
    <3>1. DiffKind(p) = None
      BY <1>4, <2>2 DEF DiffKind
    <3>2. FromDiff(p) = FromStatus(p)
      BY <3>1, SnapshotAssumption DEF FromDiff, Kinds
    <3> QED BY <1>4, <2>2, <3>2 DEF FromStatus, Untracked, Canonical
  <2> QED BY <2>1, <2>2
<1> QED BY <1>1, <1>2, <1>3, <1>4

(* PLAN Section 23: whatever happens to other paths during the call, the   *)
(* snapshot describes the on-disk content of every untouched one.          *)
THEOREM SnapshotIsExact == Spec => []UntouchedExact
<1>1. Init => SnapshotInv
  BY DEF Init, SnapshotInv
<1>2. TypeOK /\ SnapshotInv /\ [Next]_vars => SnapshotInv'
  BY SnapshotInvStep
<1>3. TypeOK /\ SnapshotInv => UntouchedExact
  BY FromDiffIsCanonical DEF SnapshotInv, UntouchedExact
<1> QED BY <1>1, <1>2, <1>3, Typing, PTL DEF Spec

(* git_status.py lines 32-40: a clean worktree has an empty candidate.     *)
THEOREM CleanWorktree == Spec => []CleanIsBaseline
<1>1. TypeOK => CleanIsBaseline
  BY SnapshotAssumption
  DEF TypeOK, Files, CleanIsBaseline, IsClean, Staged, Unstaged, Untracked, Canonical
<1> QED BY <1>1, Typing, PTL

=============================================================================
