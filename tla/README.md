# A TLA+ development of SDD Agent

SDD Agent drives one TASK at a time through a fixed life cycle (readiness,
implementation, validation, review, human approval, commit, push, CI, closure)
and keeps durable evidence of every step. The modules here model the part of it
that exists in the repository: the deterministic core of the workflow, the
workspace lock, the durable store and its event journal, the Git adapter, the
validation runner and the agent port. TLC checks them on small instances; TLAPS
proves their safety properties for every value of the constants.

Source paths below are relative to `src/src/sdd_agent/`; SPEC, PLAN and TASKS
are `src/specs/spec.md`, `plan.md` and `tasks.md`.

## 1. Inventory

| Component | State | Operations | Modelled in |
|---|---|---|---|
| Workflow core: `domain/workflow`, `domain/routing`, `domain/policies/readiness.py` | none (pure); an `Attempt` has a phase and a condition | `valid_targets`, `authorize_transition`, `RoutingPolicy.route`, `NextAuthorizedActionPolicy.derive`, `ReadinessPolicy.evaluate` | `Workflow` |
| Gates: `domain/policies` | none (pure) | waiver eligibility, READY_FOR_REVIEW, review gate, READY_TO_COMMIT, human gate, commit authorization, closure | `Gates` |
| Evidence: `domain/models` | immutable records bound to (task, attempt, candidate, contract) | validators, `EvidenceContext.applies_to` | `Gates`, `Lifecycle` |
| Workspace lock: `workspace/lock.py` | the flock of a file, the text in it, each instance's handle | `acquire`, `release` | `WorkspaceLock`, `Session` |
| Record store: `adapters/persistence/local_store.py` | files under `.sdd/` and temporary files | `save_current`, `save_attempt_record`, `append_report` and their reads | `RecordStore` |
| Event journal: `append_event`, `read_events`; `recovery.py` | `events.jsonl` of an attempt | append, read, recover | `JournalFile`, `EventJournal`, `Session` |
| Git adapter: `adapters/git/cli.py`, `domain/models/candidate.py` | none; worktree and index are its world | `worktree_status`, `candidate_snapshot`, fingerprint | `CandidateSnapshot` |
| Validation runner: `adapters/validation` | evidence files; the process tree of the command is its world | `run` | `ValidationRun` |
| Agent port, models and fake: `ports/agents.py`, `domain/models/agent.py`, `adapters/agents/fake.py` | none; the worktree is its world | `run`, `build_successful_agent_result`, the validator of `AgentResult` | `AgentRun` |
| Configuration, secrets, diagnostics | none | parsing, detection, logging | no |
| Orchestrator, human gate, commit, push, CI, CLI (TASKS T008 to T018) | not written | | environment of `Lifecycle` |

**How they interact.** The orchestrator (planned, T011) is the only caller. It
holds the workspace lock, takes a candidate snapshot from Git, runs agents and
validation commands, stores what they produce as records and events, and asks
the pure policies whether a step is authorized. The policies never read state:
the caller hands them evidence and the current `EvidenceContext`, and evidence
counts only if its context is *equal* to the current one. All communication
between steps is thus through durable records and the worktree.

**What is hard.** Decisions are computed in one step and used in a later one,
while agents, editors and commands change the worktree (staleness). Several
results, waivers, reviews and CI answers exist for the same thing (ordering).
Processes die between two system calls, disks fill up, `fsync` fails
(recovery). Two processes, or two lock objects of one process, compete.
A candidate snapshot consists of several reads of a changing world. A validation
command is a tree of processes of which the runner sees one exit code and two
pipes; it outlives timeouts and the runner itself. An agent changes the very
candidate its report is bound to.

**What makes each part correct.**

* Workflow and gates: no commit without evidence and approval of exactly the
  committed context; no bypass of a blocking condition; no failure masked by
  older evidence; CLOSED only on the green CI of the last pushed commit.
* Lock: one holder; the file names it; a lock is never left behind.
* Store: no torn record, no overwritten record, one creator, nothing secret on
  disk; calls are atomic and end.
* Journal: a read that answers is complete, in order, and extends earlier ones.
  The lock gives it the single writer it needs.
* Snapshot: exact for every path that nobody touched; clean means empty.
* Runner: PASSED and FAILED mean the exit status; the evidence of a recorded
  result is of that very execution (until its id is run again); nothing is told
  of a command that still runs; no credential leaves; every call ends.
* Agents: only what was asked for, about what was asked, becomes evidence.

`PROJECT.json` lists the hazards line by line, with the properties about them or
the reason there is none yet.

## 2. Modules

| Module | What it is |
|---|---|
| `Workflow` | the pure workflow functions, as operators |
| `Gates` (EXTENDS `Workflow`) | the gates over evidence |
| `Lifecycle` (EXTENDS `Gates`) | the state machine of one TASK: the composition of all policies with their environment |
| `Pipeline` | abstract pipeline: proven, approved, committed, pushed, green, closed |
| `LifecycleProofs` | theorems about `Lifecycle`, which implements `Pipeline` |
| `Option` | Python's `None`, shared by the modules `Session` composes |
| `ExclusiveHold` | abstract lock |
| `WorkspaceLock`, `WorkspaceLockProofs` | `workspace/lock.py`, shown to implement `ExclusiveHold` |
| `AtomicStore` | abstract store of a mutable pointer and append-only records |
| `RecordStore`, `RecordStoreProofs` | the store, system call by system call, shown to implement `AtomicStore` |
| `JournalFile` | `append_event` and `read_events` over the file, for any number of callers |
| `EventJournal`, `EventJournalProofs` (EXTENDS `JournalFile`) | the journal with a single writer |
| `Session`, `SessionProofs` (EXTENDS `WorkspaceLock`, `JournalFile`) | lock and journal composed: lock holders append, stop and die; shown to implement `EventJournal` and `ExclusiveHold` |
| `ValidationRun`, `ValidationRunProofs` | the validation runner, its command, its evidence file and the recording of its result, under the lock (`ExclusiveHold`) |
| `AgentRun`, `AgentRunProofs` | a request to an agent, a changing worktree, and the checks its answer passes |
| `CandidateSnapshot`, `CandidateSnapshotProofs` | the Git adapter over a changing worktree and index |
| `MC...` | values of the constants for TLC |

`map` in `PROJECT.json` gives the source lines of every definition.

### Lifecycle

`Workflow` and `Gates` translate the policies one to one: where the code raises,
the operator that guards the call (`MayDerive`, `MayEvaluateReadiness`) is
false; where it returns a `GateDecision`, the operator is its `passed`. The
reasons are prose "without authority" and left out.

`Lifecycle` adds what the repository does not have: the caller. It is an
environment, as free as the policies' own contract allows. That contract is
stated by the code: a move between phases is one `derive` allows, and
`GateDecision.passed` is "the only field a caller may use to authorize a
transition" (`decision.py`). Evidence may be recorded in any order, the
candidate may change before any step, and the READY_TO_COMMIT decision is kept
with the context it was computed for and used in later steps, which is the
reason why `HumanCommitGatePolicy` and `CommitAuthorizationPolicy` take both.
`EnterFix`, `ChangeArtifacts` and `ResolveInPlace` end a condition the way its
resolution action says. An implementation of T011 may do less than this
environment; what is shown here of the gates stays true of it as long as it
keeps to the contract.

An `EvidenceContext` is `[attempt, candidate, contract]`: task and attempt
identifiers act together in `applies_to`, and so do baseline and fingerprint of
a candidate. A finding of a review is its severity, all the gate counts.

`Pipeline` is what SPEC Sections 34 to 46 promise, with no phases, conditions,
kinds of evidence or kept decisions in it. `Lifecycle` is mapped to it by
`Abstract`: a context is proven when the evidence for it is complete (`Proven`),
approvals and the commit map to themselves, `green` is the set of commits with a
green answer, and the TASK is closed in CLOSED. `ImplementsPipeline` is the one
property that a team replacing the environment by T011 has to keep: it contains
the order of everything, while `CommitBacked`, `ApprovalsBacked` and
`ClosedOnGreen` say what each stage rests on. `ConditionsLeadOn` is about the
other direction, that a blocked Attempt is not stuck: `derive` has an answer for
every condition it ever holds, and a phase it answers with is one the Attempt may
move to (VALIDATION excepted: finding 1).

### WorkspaceLock

`owner` is the instance whose *open file handle* has the flock, since that is
what flock locks: two instances of one process conflict, and an instance whose
failed `acquire` never closed its handle conflicts with itself. `MetadataFails`
leaves such a handle, and in the file the old text, none or, when only `fsync`
raised, its own. Every observable line of `acquire` and `release` is an action:
`Open`, `Lock` or `Conflict`, `Truncate`, `WriteMetadata` or `MetadataFails`,
`Hold`; `Release`, `Unlock` or `UnlockFails`, `CloseHandle`. `Collect` is the
interpreter closing a handle that nothing refers to, `Terminate` the operating
system closing those of a dead process.

### RecordStore

One process is in one call at a time: `Call` (secrets are looked for before
anything else), `OpenTemp`, `SyncTemp` or `WriteFails`, then `Replace` for the
current pointer, `Link` or `Refuse` for a record, `PublishFails`, and `Return`.
`Interrupted` covers a raising `unlink` and a death at any point: what was
published stays. `litter` is the set of contents of temporary files nobody
removes. `acked` records, per record, the values of creating calls that
returned.

### JournalFile and EventJournal

A line of the file is the sequence of pieces that writes put on it. Appending is
`Begin`, `WritePart`/`WriteLine`, `WriteNewline`, `Ack`; `Interrupted` stops it
anywhere, leaving what is written. Since the file is in append mode, the next
call continues a torn line. `Read` answers only if every line parses, as
`read_events` does. `TornForGood` says that nothing the store can do makes an
unreadable journal readable again. `JournalFile` has the actions, over the call they move on
and the call as it is afterwards; `EventJournal` is the journal with one call at
a time, the way `append_event` is meant to be used.

### Session

Nothing in `append_event` sees to it that there is one writer: that is the
workspace lock, with a caller that appends while `is_held` is true (PLAN Section
86). `Session` has the lock line by line and a call of `append_event` for every
lock instance. An instance appends only while it holds the lock and does not
release it within a call; a process dies anywhere, its locks go and its torn
line stays. `Recover` is `load_recovered_state`. `ImplementsEventJournal` says
that this is `EventJournal`, the writer being the one call in progress; the
bridge from the lock to the journal that no single module contains.

### ValidationRun

`run` is `SplitFails`, `Spawn`, `NotFound` or `SpawnFails`; `Communicate`, `DecodeFails` or
`Timeout`; `RefuseEvidence`, or `OpenEvidence`, `SyncEvidence`,
`PublishEvidence`; `RefuseResult` or `Return`; `EvidenceFails` stands for every
system call of `_write_evidence`. The command is not the runner's: `Exit`,
`Fork` and `End` move its direct child and the set of calls whose descendants
still hold the output pipes. `subprocess.run` with captured output returns when
*both* the child has exited and the pipes are closed (`OutputClosed`), which is
what makes the difference between `AnsweredIsQuiet` and finding 5. `Timeout`
kills the direct child only. `Punctual` says whether a runner may miss its
deadline although the pipes are closed; the passing run lets it. The caller
(`Acquire`, `Begin`, `Record`, `Discard`, `Die`) is the orchestrator that does
not exist yet. It is bound by the lock, and by nothing else: `run` takes any
`result_id` and looks at no record, so `Begin` has no guard on it, and an id is
run again before its result is recorded (a retry after a death) as well as
after. `append_report` refuses a second record of one id (`Record`; `OneCreator`
of `RecordStore`), but by then `os.replace` has put the new evidence in the place
of the old. `RecordedEvidence` therefore says that the file a recorded result
refers to is whole evidence of a call with its id, never of a call before the
recorded one: of the recorded call itself until the id is run again, and of a
later one from then on. That two runners never write the evidence of one
identifier at once is the lock's work. `RunningIsUnreported` is about the time
after a timeout or a death: whatever tells of a call, its command's own process
is over; what goes on behind a NOT_RUN is descendants, which nothing kills.

### AgentRun

`Ask` makes an `AgentRequest` about the candidate in the worktree, or about none;
`Edit` changes the worktree at any time; `Answer` is `FakeAgentRunner.run` and,
in it, `HookAccepts` (`build_successful_agent_result`, which sees the request)
and `Valid` (the validator of `AgentResult`, which does not). An outcome is any
status with any report or none. `Fails` is an exception or a death.
`HonestWorkNeedsNoChange` spells out a consequence for T009 to T011: the hook
wants the report's context to equal the request's, a report is bound to a
candidate, and so an implementer that changes the candidate and reports the one
it left behind gets no successful result for this request.

### CandidateSnapshot

`worktree` and `index` are the world; `Status`, `HashFile`, `Diff`, `Return` are
the steps of `candidate_snapshot`; `Write` and `Stage` are anybody's and happen
between any two of them. `touched` is the set of paths the world changed since
the call began. What git answers is external and translated from how `cli.py`
uses it: `git status` compares index with baseline and worktree with index,
`git diff <commit>` looks at the worktree only for paths of the index. A content
stands for the bytes and mode of a file; fingerprints are taken to be injective.

## 3. What TLC checks

| Run | Instance | Properties |
|---|---|---|
| `LifecycleEvidence` | 2 candidates, 2 contracts, 2 attempts, 1 required obligation, 1 report, 1 review, 1 result, 1 waiver, 2 commits, 1 dependency and 1 other TASK | `TypeOK`, `CommitBacked`, `ApprovalsBacked`, `ClosedOnGreen`, `DependenciesFirst`, `NoBypass`, `ConditionsLeadOn`, `ImplementsPipeline` |
| `LifecycleRetests` | 1 context, 2 required obligations (1 non-waivable), 3 results with 2 timestamps, 1 waiver, CI green or failed | `ClosedOnGreen`, `NoMaskedFailure` |
| `LifecycleFix` | as `LifecycleClock`, clock monotone | `FixAuthorized` (violated) |
| `LifecycleClock` | 2 results, clock may step back | `NoMaskedFailure` (violated) |
| `RecordStore` | 2 processes, 2 calls each, 1 record and the pointer, 3 values (1 secret) | `TypeOK`, `NoTornRecord`, `SecretsStayOut`, `OneCreator`, `RecordsImmutable`, `ImplementsAtomicStore`, `CallsEnd` |
| `Session` | 3 lock instances in 2 processes, 4 appends, 1 of them refused | `SessionTypeOK`, `MutualExclusion`, `MetadataNamesHolder`, `FaithfulRead`, `ReadsExtend`, `ImplementsEventJournal`, `ImplementsExclusiveHold`, `TornForGood`, `NoOrphanLock` |
| `EventJournalRestart` | 6 appends, 1 of them refused | `RestartCanRead` (violated) |
| `CandidateSnapshot` | a tracked, a new and an ignored path, 2 contents | `TypeOK`, `UntouchedExact`, `CleanIsBaseline` |
| `CandidateIndex` | the same | `IndexIndependent` (violated) |
| `ValidationRun` | 2 processes (1 without evidence), 2 commands (1 with a credential), 2 result_ids, 2 runs, late runners allowed | `TypeOK`, `HonestAnswers`, `AnsweredIsQuiet`, `RunningIsUnreported`, `RecordedEvidence`, `NothingSecretLeaves`, `RunsEnd` |
| `ValidationPipes` | the same, `Punctual` | `FailedIsFailed` (violated) |
| `AgentRun` | 2 roles, 3 candidates, all reports and outcomes | `TypeOK`, `EvidenceFitsRequest`, `HonestWorkNeedsNoChange` |

**Why these bounds are enough.** *Evidence*: the properties are broken by one
piece of evidence that belongs to another context; two values of each component
of a context make such a pair, and the single obligation, result and waiver are
each either of the right context or not. *Retests*: masking needs an older and a
newer result of one obligation and a result of another one to pass the gate;
three results, with a tie and a missing timestamp possible, give this.
An obsolete CI answer needs two commits, which *Evidence* has; a failed one is
in *Retests*; the dependency needs another closed TASK to be confused with.
*Store*: a race needs two writers, a retry two calls. *Session*: two instances
of one process and one of another are all kinds of contenders; a torn append,
two successors on its line and a refused call are four calls. *Validation*:
interference between executions is between two of them, of the same or of two
processes, with the same identifier (recorded or not) or with two; each command either carries a
credential or does not. *Agents*: the candidate asked about, the one left behind
and a third one that a report may name. *Snapshot*: paths do not influence each other except through the call's
control flow; there is one path of each kind. `MaxAttempts`, `MaxReports`,
`MaxResults`, `MaxWaivers`, `MaxCommits`, `MaxCalls`, `MaxAppends` and `MaxRuns`
are bounds of the model, not of the code; the theorems hold for every value of
them.

**Symmetry.** `LifecycleEvidence` takes the candidates and the contracts as
symmetric sets. The code only compares them for equality, `Init` starts with any
of them, no constant names one, and the run checks no liveness.

**Deadlock.** `CHECK_DEADLOCK FALSE` stands where the system really stops: in
the `Lifecycle` runs because CLOSED, and ABANDONED after the last of
`MaxAttempts`, have no way out; in `RecordStore` and `EventJournalRestart`
because the number of calls is bounded and a journal that does not parse answers
no read. In `Session`, the `Candidate` runs, the `Validation` runs and `AgentRun`
the check is on and nobody ever gets stuck.

**Fairness.** `Session`: weak fairness of each instance's own lock steps (a
thread inside `acquire` or `release` goes on; nothing there blocks, the flock
call is non-blocking) and of `LockCollect` (CPython closes an unreferenced file
as soon as the exception that refers to it is dropped). Nobody is obliged to
call `acquire`, `release` or `append_event`, and a holder may hold for ever.
`RecordStore`: weak fairness of each process's steps; the system calls return.
`ValidationRun`: weak fairness of the runner's steps together, of which the
deadline is one; none of the command, which may run for ever and never close its
output. `Lifecycle`, `CandidateSnapshot` and `AgentRun` assume none and state no
liveness.

Every property has a mutant: an operator beside the code's (`LockShared`,
`HasOlderWaiver`, `BeginTruncating`...), a plausible slip in the same lines.
With the mutant in place TLC finds the property violated.

## 4. What the runs found

1. **FIX from VALIDATION** (`LifecycleFix`). A CODE problem found in VALIDATION
   yields FIX_REQUIRED and the action FIX, as SPEC US-18 and the tests want, but
   `transitions.py:28` has no edge from VALIDATION to FIX. `OnlyValidationStrands`
   proves that VALIDATION is the only such phase and FIX_REQUIRED the only such
   condition.
2. **Wall-clock order of results** (`LifecycleClock`). The current result is the
   one with the latest timestamp. If the clock steps back between two runs, the
   failure that came last is not the current one, and an older pass or waiver
   authorizes READY_TO_COMMIT. `NoFailureIsMasked` proves that a monotone
   clock is all that is missing.
3. **Torn journal** (`EventJournalRestart`). A crash within the last line makes
   `read_events`, and with it `load_recovered_state`, fail from then on. No
   wrong answer is given (`FaithfulRead`), but no answer either, and
   `SessionTearsForGood` proves that no later holder's appends change that.
4. **Index dependence** (`CandidateIndex`). A baseline file removed from the
   index and kept on disk counts as DELETED, and its later edits do not change
   the candidate. `UntouchedExact` holds for every other path (`Unindexed` names
   the exception), and `SnapshotIsExact` proves it.
5. **Failed, but not over** (`ValidationPipes`). A command that exits with
   non-zero and leaves a background process holding its output keeps
   `subprocess.run` waiting until the deadline; the failure is answered NOT_RUN,
   which may be waived, where the module's own table and SPEC 22.1 want FAILED.
   `HonestAnswers` holds: no PASSED or FAILED is ever made up, and
   `PipesHideExits` proves that a punctual runner drops an exit code only while a
   descendant holds the pipes.

One more disagreement has a theorem instead of a run. PLAN Section 67
(`plan.md:2226`) says that a new report shall not silently overwrite historical
evidence. A call of `run` with a recorded `result_id` does:
`RerunsReplaceEvidence` proves that whenever it gets to `os.replace`
(`subprocess_runner.py:219`) the recorded result's evidence is gone and its
record still points to the path. Two calls under one lock are enough: run and
record an id, run it again; whether the second result is then dropped, refused or
lost in a crash makes no difference. A caller that never reuses a recorded
`result_id` would avoid it, and T011 is the place to say so.

## 5. What is proved

All theorems hold for arbitrary finite or infinite constants under the named
`ASSUME`s of the modules, which say little more than that `None` is not a value
and that subsets are subsets; TLC evaluates them in every run.

* **Lifecycle** (`NoneAssumption`, `ObligationAssumption`,
  `LifecycleAssumption`). `Typing`. `CommitsAreBacked` rests on `EvidenceInv`:
  the commit, the approvals and also the *kept decision* are backed by evidence
  (`DecisionBacked`), since approval and commit rely on it after the evaluation,
  and reports are bound to a candidate (`EvidenceBound`). The lemma `GatesBack`
  says that a passing gate yields `Backed(context)`; `EvidenceGrows` and
  `BackedIsStable` that evidence is never taken back; `AppliesToIsEquality` that
  applicability is equality. `ClosureIsGreen` needs `DeliveryInv`, which orders
  commit, push and phases. `NoFailureIsMasked` assumes `ClockIsMonotone` and
  uses `OrderInv` (identifiers follow timestamps), from which `CurrentIsLast`
  derives that the gate's current result is the last one. `ConditionsBlock`
  (`NoBypass`) and `OnlyValidationStrands` rest on `Coherent`: a condition is
  only ever held in a phase it is valid in, although phases change under it.
  Two theorems are about the gates alone, for any evidence: `StaleEvidenceIsInert`
  (evidence of other contexts neither helps nor blocks READY_FOR_REVIEW) and
  `AmbiguityIsForGood` (a missing timestamp beside another result blocks the
  context for ever; no run and no waiver resolves it).
  `CodeWaitsForDependencies` is inductive as it stands, on two facts about the
  policies: a READINESS decision without a condition has its dependencies closed
  (`ReadyMeansSatisfied`), and no other move leads from READINESS to code
  (`ReadinessLeadsToCode`).
* **Pipeline**. `LifecycleImplementsPipeline` refines `Lifecycle` to `Pipeline`.
  The invariant is `PipelineInv`, the conjunction of the typing, `EvidenceInv`,
  `DeliveryInv` and `DependenciesFirst`. `PipelineStep` goes through the actions:
  evidence proves (`ProvenGrows`, `EvidenceProves`), and approval, the commit, the
  CI answer and closure each have a lemma (`ApproveApproves`, `EnterCommitCommits`,
  `ObserveCISucceeds`, `CloseCloses`); a push is a `Publish`, a new Attempt a
  `Restart`, a change of candidate or contract a stutter. That a closed TASK
  stays as it is comes from `ClosedLeadsNowhere`.
* **Lock**. `OwnerInv` is the inductive invariant: an instance between `Lock`
  and `CloseHandle` owns the flock, a leaked handle owns it and its instance is
  not using another one, and a written file names the process of its writer.
  It gives `LockExcludes` and `HolderIsNamed`. `LockImplementsExclusiveHold` is
  the refinement: every step takes, gives up or leaves the abstract hold.
  `NoOrphanLock` is liveness, but most of its argument is not: `Accounted` (an
  owner is within acquire or release, or a leaked handle) is invariant
  (`OrphansAreUnderWay`), and `OrphansComeNearer` shows that the `Distance` of an
  orphan from being held or given up never grows and shrinks with every step that
  fairness owes it. What is left to TLC is that those steps are enabled.
* **Journal**. `JournalInv`: no line is empty (`LinesInv`); the numbers of the
  calls rise along the lines and stay at or below the last one (`OrderInv`); the
  call in progress is the last one, and where it stands says what it has left on
  the last line (`WriterInv`); an acknowledged event is somewhere in the file,
  whole (`AckedInv`); and what the last read answered is still how the first
  lines begin (`ReadInv`). A line that parses has one piece, so a readable
  journal with `AckedInv` and `OrderInv` is a faithful one. `ReadInv` speaks of
  the last read and not of a readable journal, since a torn line ends
  readability for good; a later read that succeeds extends the earlier one.
  `ReadsAreFaithful` and `LaterReadsExtend` follow. `TornIsForGood` uses `Torn`, a
  line that does not parse and that the call in progress will not complete; appends
  only make it longer or leave it behind.
* **Session**. `SessionInv` adds to the lock's invariant that an instance with a
  call in progress holds the lock (`AppenderHolds`). From it, at most one
  instance has a call, the mapped `Writer` is that call, and every step of the
  composition is a step of `EventJournal` or a stutter:
  `SessionImplementsJournal`. The journal's theorems, instantiated with this
  writer, then give `SessionReadsAreFaithful`, `SessionReadsExtend` and
  `SessionTearsForGood`, and the
  lock's lemmas give `SessionExcludes`, `SessionHolderIsNamed`,
  `SessionHoldsExclusively` and `SessionOrphansComeNearer`; nothing of either is proved twice.
* **Store**. `Typing` includes `CallInv` (what a process is doing fits its
  program counter); `StoreInv` bounds the contents of temporary and final files
  and gives `ContentIsWhole` and `SecretsNeverTouchDisk`; `RecordsAreImmutable`
  is an action property from the same invariant; `OneCreatorPerRecord` uses an
  invariant on the call that has published and not returned. `StoreIsAtomic` is
  the refinement to `AtomicStore`.
* **Snapshot**. `SnapshotInv` says of every untouched path how its entry so far
  relates to the world, stage by stage (`LocalAnswers`: what git answers about a
  path depends on that path alone). `SnapshotIsExact` and `CleanWorktree`
  follow.
* **Runner**. `RunnerInv` is `TypeOK`, what is known of a call (`CallInv`:
  before it is made nothing runs, until it comes to a status nothing tells of
  it, and the status fits the fate of its child), what is known where a process
  is (`PlaceInv`: within a call it holds the lock, its call is the last one made
  and is not recorded, and what it has written is its own) and
  `RecordedEvidence`. No guard on identifiers is needed: a call that files
  evidence is the last one, so what it replaces is older.
  `AnswersAreHonest`, `AnsweredCommandsAreQuiet`, `RunningCommandsAreUnreported`,
  `RecordsHaveTheirEvidence` and `SecretsStay` follow. `RecordsAreKept` is the
  action property for reruns: a record and its status stay, its evidence gives way
  only to whole evidence of a later call with its id; `RerunsReplaceEvidence` is
  the other side, that such a call always replaces it (section 4).
  `PipesHideExits` assumes `Punctual`; without it `Timeout` lets a late runner
  drop an exit code with nobody at the pipes.
* **Agents**. An invariant on the last answer, `AgentInv`, gives `EvidenceFits`
  and `HonestWorkIsOld`.

Only model-checked: liveness (`NoOrphanLock`, `CallsEnd`, `RunsEnd`), which needs
ENABLED and is beyond the provers. Every safety property that a passing run checks is also a
theorem.

## 6. What is not modelled

* The Windows branches of the lock and of file modes, and of `subprocess.run`,
  which reads the pipes to their end after the kill: `RunsEnd` is about POSIX.
* An orchestrator's choice of result ids: any id may be run at any time.
* Parsing and formatting: git's output, JSON, YAML, command lines,
  path-component checks, schema versions, secret detection (a set of secret
  values instead).
* `load_recovered_state` reads the current pointer first; in `Session` whether
  it names an Attempt of the task is left open, and `RecordStore` has the
  pointer.
* Power failures: crashes are of processes. Neither directory is synced after
  `os.replace` and `os.link`, a hazard without a property so far.
* The content of reports and prompts, provider sessions: the port passes them
  on unread.
* Configuration, diagnostics, logs: no state.
* Tasks T008 to T018, which are not written.

## 7. Plan

The order was: the workflow core first, since everything else serves it; then
lock, store and journal, on which it rests; the snapshot, from which the identity
of evidence comes; their composition (`Session`); and the two ports that bring
evidence in (`ValidationRun`, `AgentRun`). What is left:

1. With T011 in the repository, its orchestrator in place of the environment of
   `Lifecycle` and of the callers in `Session`, `ValidationRun` and `AgentRun`,
   and the recalculation of the candidate after commands and agents that write.
2. An abstract log that `EventJournal` implements, in which an append takes
   effect at once or tears the log, as `AtomicStore` is for `RecordStore`.
3. A page cache under the store and the journal: which acknowledged calls
   survive a power failure.
