-------------------------- MODULE CandidateSnapshot --------------------------
(***************************************************************************)
(* adapters/git/cli.py: the candidate snapshot of a worktree relative to   *)
(* its baseline commit.  candidate_snapshot asks git for the status, reads *)
(* every untracked file, asks git for the diff and reads every changed     *)
(* file, while the worktree and the index may change under its hands.  A   *)
(* content stands for the bytes and the mode of a file, and a snapshot for *)
(* its fingerprint (SHA-256 over the sorted entries).  HEAD stays at the   *)
(* baseline: a candidate is what is not committed yet.  Git itself is      *)
(* external.                                                               *)
(***************************************************************************)
EXTENDS FiniteSets

CONSTANTS
  Paths,
  Contents,
  Baseline,         \* the content of each path in the baseline commit
  Ignored,          \* the paths the ignore rules match
  None              \* no such file, or no entry

Kinds == {"ADDED", "MODIFIED", "DELETED"}

ASSUME SnapshotAssumption ==
  /\ None \notin Contents \cup Kinds
  /\ Baseline \in [Paths -> Contents \cup {None}]
  /\ Ignored \subseteq Paths

VARIABLES
  worktree,         \* content of each path on disk
  index,            \* content of each path in the index
  pc,               \* where candidate_snapshot stands
  pending,          \* entries whose file it has yet to read
  entries,          \* the entry of each path so far
  touched           \* paths the world changed since the call began

world == <<worktree, index>>
vars  == <<world, pc, pending, entries, touched>>

Files == [Paths -> Contents \cup {None}]
Entry(kind, content) == [kind |-> kind, content |-> content]
Entries == [kind : Kinds, content : Contents \cup {None}]

TypeOK ==
  /\ worktree \in Files
  /\ index \in Files
  /\ pc \in {"idle", "status", "untracked", "tracked", "done", "failed"}
  /\ pending \subseteq [path : Paths, kind : Kinds]
  /\ entries \in [Paths -> Entries \cup {None}]
  /\ touched \subseteq Paths

Init ==
  /\ worktree = Baseline
  /\ index = Baseline
  /\ pc = "idle"
  /\ pending = {}
  /\ entries = [p \in Paths |-> None]
  /\ touched = {}

-----------------------------------------------------------------------------
(* What git answers *)

(* worktree_status *)
Staged    == {p \in Paths : index[p] # Baseline[p]}
Unstaged  == {p \in Paths : index[p] # None /\ worktree[p] # index[p]}
Untracked == {p \in Paths \ Ignored : index[p] = None /\ worktree[p] # None}

(* Mutant: untracked files do not make a worktree dirty. *)
IsCleanTracked == Staged = {} /\ Unstaged = {}

IsClean == Staged = {} /\ Unstaged = {} /\ Untracked = {}

(* git diff <baseline> looks at the worktree only for paths of the index.  *)
OnDisk(p) == index[p] # None /\ worktree[p] # None

(* Mutant: git diff --cached, the index in the place of the worktree. *)
DiffKindCached(p) ==
  CASE index[p] = Baseline[p]                                         -> None
    [] index[p] # Baseline[p] /\ index[p] = None                      -> "DELETED"
    [] index[p] # Baseline[p] /\ index[p] # None /\ Baseline[p] = None -> "ADDED"
    [] OTHER                                                          -> "MODIFIED"

DiffKind(p) ==
  CASE Baseline[p] # None /\ ~OnDisk(p)                                -> "DELETED"
    [] Baseline[p] = None /\ OnDisk(p)                                 -> "ADDED"
    [] Baseline[p] # None /\ OnDisk(p) /\ worktree[p] # Baseline[p]    -> "MODIFIED"
    [] OTHER                                                           -> None

-----------------------------------------------------------------------------
(* candidate_snapshot *)

Begin ==
  /\ pc \in {"idle", "done", "failed"}
  /\ pc' = "status"
  /\ entries' = [p \in Paths |-> None]
  /\ touched' = {}
  /\ UNCHANGED <<world, pending>>

Status ==
  /\ pc = "status"
  /\ pc' = "untracked"
  /\ pending' = {[path |-> p, kind |-> "ADDED"] : p \in Untracked}
  /\ UNCHANGED <<world, entries, touched>>

(* _hash_file, of untracked files and later of changed ones. *)
HashFile(e) ==
  /\ pc \in {"untracked", "tracked"}
  /\ worktree[e.path] # None
  /\ entries' = [entries EXCEPT ![e.path] = Entry(e.kind, worktree[e.path])]
  /\ pending' = pending \ {e}
  /\ UNCHANGED <<world, pc, touched>>

(* The file is gone: open raises, and so does candidate_snapshot. *)
HashFails(e) ==
  /\ pc \in {"untracked", "tracked"}
  /\ worktree[e.path] = None
  /\ pc' = "failed"
  /\ pending' = {}
  /\ entries' = [p \in Paths |-> None]
  /\ UNCHANGED <<world, touched>>

(* Mutant: every path of the diff is read, whatever its status. *)
DiffReadingAll ==
  /\ pc = "untracked" /\ pending = {}
  /\ pc' = "tracked"
  /\ pending' = {[path |-> p, kind |-> DiffKind(p)] : p \in Paths}
  /\ UNCHANGED <<world, entries, touched>>

(* _tracked_entries: a tracked change replaces an entry of the same path.  *)
Diff ==
  /\ pc = "untracked" /\ pending = {}
  /\ pc' = "tracked"
  /\ entries' = [p \in Paths |->
       IF DiffKind(p) = "DELETED" THEN Entry("DELETED", None) ELSE entries[p]]
  /\ pending' = {[path |-> p, kind |-> DiffKind(p)] :
                   p \in {q \in Paths : DiffKind(q) \in {"ADDED", "MODIFIED"}}}
  /\ UNCHANGED <<world, touched>>

Return ==
  /\ pc = "tracked" /\ pending = {}
  /\ pc' = "done"
  /\ UNCHANGED <<world, pending, entries, touched>>

-----------------------------------------------------------------------------
(* The world: agents, editors, validation commands and git commands *)

Write(p, content) ==
  /\ worktree' = [worktree EXCEPT ![p] = content]
  /\ touched' = touched \cup {p}
  /\ UNCHANGED <<index, pc, pending, entries>>

(* git add (of an ignored path: with -f), git rm --cached, git reset *)
Stage(p) ==
  /\ index' \in {[index EXCEPT ![p] = content] :
                   content \in {worktree[p], None, Baseline[p]}}
  /\ touched' = touched \cup {p}
  /\ UNCHANGED <<worktree, pc, pending, entries>>

Next ==
  \/ Begin \/ Status \/ Diff \/ Return
  \/ \E e \in pending : HashFile(e) \/ HashFails(e)
  \/ \E p \in Paths, content \in Contents \cup {None} : Write(p, content)
  \/ \E p \in Paths : Stage(p)

Spec == Init /\ [][Next]_vars

-----------------------------------------------------------------------------
(* Properties *)

(* How a path differs from the baseline, whatever the index says; an       *)
(* ignored file counts once it is tracked explicitly.                      *)
Canonical(p) ==
  CASE worktree[p] = Baseline[p]                                -> None
    [] Baseline[p] # None /\ worktree[p] = None                 -> Entry("DELETED", None)
    [] Baseline[p] # None /\ worktree[p] \notin {None, Baseline[p]}
                                                                -> Entry("MODIFIED", worktree[p])
    [] Baseline[p] = None /\ worktree[p] # None /\ (p \in Ignored => index[p] # None)
                                                                -> Entry("ADDED", worktree[p])
    [] OTHER                                                    -> None

(* A baseline file whose index entry was removed while it is on disk. *)
Unindexed(p) == Baseline[p] # None /\ index[p] = None /\ worktree[p] # None

(* PLAN Section 23, cli.py lines 7-16: the snapshot describes the on-disk   *)
(* content of every path nobody touched during the call -- staged, edited   *)
(* again, deleted, reverted or untracked -- whatever happened to others.    *)
UntouchedExact ==
  pc = "done" => \A p \in Paths \ touched : Unindexed(p) \/ entries[p] = Canonical(p)

(* git_status.py lines 32-40: a clean status means that the candidate is    *)
(* empty, so an Attempt that starts from it inherits no change.             *)
CleanIsBaseline == IsClean => \A p \in Paths : Canonical(p) = None

(* ports/git.py lines 43-45: the snapshot is "independent from the current *)
(* staging/index arrangement".                                             *)
IndexIndependent ==
  pc = "done" /\ touched = {} => \A p \in Paths \ Ignored : entries[p] = Canonical(p)

=============================================================================
