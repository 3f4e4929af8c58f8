---------------------------- MODULE ValidationRun ----------------------------
(***************************************************************************)
(* adapters/validation/subprocess_runner.py: a validation command runs     *)
(* under the workspace lock, is classified, leaves an evidence file and    *)
(* yields a ValidationResult that the caller records.  The command is a    *)
(* process tree of its own: its descendants share its output pipes, and    *)
(* outlive it, a timeout and even the runner; EOF on the pipes is all that *)
(* tells the runner that they are over.  The runner dies anywhere; a       *)
(* result_id is run again whether or not a result is recorded under it,    *)
(* since nothing between run and os.replace looks at the recorded ones.    *)
(***************************************************************************)
EXTENDS Integers

CONSTANTS
  Processes,        \* orchestrator processes
  WithEvidence,     \* those whose runner has an evidence_dir
  Commands,         \* execution references
  Secrets,          \* those _reject_secrets finds a credential in
  Ids,              \* result_ids
  Punctual,         \* a runner reads closed pipes before its deadline
  Torn,             \* the content of a file whose writing is not finished
  None,
  MaxRuns           \* bound: calls of run

Runs == 1..MaxRuns
Statuses == {"PASSED", "FAILED", "NOT_RUN"}
RequestSet == [process : Processes, id : Ids, command : Commands]

ASSUME ValidationAssumption ==
  /\ WithEvidence \subseteq Processes
  /\ Secrets \subseteq Commands
  /\ Punctual \in BOOLEAN
  /\ MaxRuns \in Nat
  /\ None \notin Processes \cup RequestSet \cup Statuses \cup Nat
  /\ Torn \notin Nat \cup {None}

VARIABLES
  holder,           \* the process that holds the workspace lock, or None
  pc,               \* where each process's call of run stands
  run,              \* the number of that call
  last,             \* the number of calls made
  request,          \* what each call was asked for, or None
  child,            \* the fate of its direct child
  offspring,        \* the calls with descendants that hold the pipes
  leaky,            \* the calls whose captured output holds a credential
  answer,           \* the status each call has come to, or None
  returned,         \* the calls whose result the caller has received
  temp,             \* content of the temporary file of each result_id
  evidence,         \* content of its evidence file
  reports           \* the call whose result is recorded under it

lockVars    == holder
commandVars == <<child, offspring>>
fileVars    == <<temp, evidence, reports>>
vars == <<holder, pc, run, last, request, commandVars, leaky, answer, returned, fileVars>>

Lock == INSTANCE ExclusiveHold WITH Instances <- Processes

Stages == {"idle", "begun", "waiting", "classified", "writing", "synced",
           "evidenced", "returned"}
Files  == [Ids -> Runs \cup {Torn, None}]

TypeOK ==
  /\ holder \in Processes \cup {None}
  /\ pc \in [Processes -> Stages]
  /\ run \in [Processes -> Runs \cup {0}]
  /\ last \in 0..MaxRuns
  /\ request \in [Runs -> RequestSet \cup {None}]
  /\ child \in [Runs -> {"none", "running", "zero", "nonzero", "killed"}]
  /\ offspring \subseteq Runs
  /\ leaky \subseteq Runs
  /\ answer \in [Runs -> Statuses \cup {None}]
  /\ returned \subseteq Runs
  /\ temp \in Files
  /\ evidence \in Files
  /\ reports \in [Ids -> Runs \cup {None}]

Init ==
  /\ holder = None
  /\ pc = [p \in Processes |-> "idle"]
  /\ run = [p \in Processes |-> 0]
  /\ last = 0
  /\ request = [r \in Runs |-> None]
  /\ child = [r \in Runs |-> "none"]
  /\ offspring = {}
  /\ leaky = {}
  /\ answer = [r \in Runs |-> None]
  /\ returned = {}
  /\ temp = [id \in Ids |-> None]
  /\ evidence = [id \in Ids |-> None]
  /\ reports = [id \in Ids |-> None]

Goto(p, from, to) == pc[p] = from /\ pc' = [pc EXCEPT ![p] = to]

-----------------------------------------------------------------------------
(* The caller: takes the lock, picks a result_id, records what it is given.*)

Acquire(p) ==
  /\ Lock!Take(p)
  /\ UNCHANGED <<pc, run, last, request, commandVars, leaky, answer, returned, fileVars>>

Release(p) ==
  /\ holder = p /\ pc[p] = "idle"
  /\ Lock!GiveUp
  /\ UNCHANGED <<pc, run, last, request, commandVars, leaky, answer, returned, fileVars>>

(* Any result_id will do, one with a recorded result too: run checks none. *)
Begin(p, id, command) ==
  /\ holder = p
  /\ last < MaxRuns
  /\ Goto(p, "idle", "begun")
  /\ last' = last + 1
  /\ run' = [run EXCEPT ![p] = last + 1]
  /\ request' = [request EXCEPT ![last + 1] =
                   [process |-> p, id |-> id, command |-> command]]
  /\ UNCHANGED <<holder, commandVars, leaky, answer, returned, fileVars>>

(* append_report of the result; RecordStore shows that it is atomic, and   *)
(* that it refuses an id that has a report: then the result is discarded.  *)
Record(p) ==
  LET id == request[run[p]].id IN
  /\ Goto(p, "returned", "idle")
  /\ reports[id] = None
  /\ reports' = [reports EXCEPT ![id] = run[p]]
  /\ UNCHANGED <<holder, run, last, request, commandVars, leaky, answer, returned, temp, evidence>>

(* The caller drops the result, or append_report fails or refuses it. *)
Discard(p) ==
  /\ Goto(p, "returned", "idle")
  /\ UNCHANGED <<holder, run, last, request, commandVars, leaky, answer, returned, fileVars>>

(* The operating system drops the lock of a dead process.  Its child does  *)
(* not inherit the lock's handle (Python opens files close-on-exec) and is *)
(* not told: it runs on.                                                   *)
Die(p) ==
  /\ holder = p
  /\ Lock!GiveUp
  /\ pc' = [pc EXCEPT ![p] = "idle"]
  /\ UNCHANGED <<run, last, request, commandVars, leaky, answer, returned, fileVars>>

-----------------------------------------------------------------------------
(* The command *)

Exit(r, fate) ==
  /\ child[r] = "running"
  /\ child' = [child EXCEPT ![r] = fate]
  /\ UNCHANGED <<holder, pc, run, last, request, offspring, leaky, answer, returned, fileVars>>

(* A process that holds the pipes passes them on. *)
Fork(r) ==
  /\ child[r] = "running"
  /\ offspring' = offspring \cup {r}
  /\ UNCHANGED <<holder, pc, run, last, request, child, leaky, answer, returned, fileVars>>

(* The last descendant ends, or gives up the pipes. *)
End(r) ==
  /\ r \in offspring
  /\ offspring' = offspring \ {r}
  /\ UNCHANGED <<holder, pc, run, last, request, child, leaky, answer, returned, fileVars>>

-----------------------------------------------------------------------------
(* subprocess.run *)

Exited(r) == child[r] \in {"zero", "nonzero"}

(* Mutant: the output goes to a file, and only the child is waited for. *)
OutputClosedByChild(r) == Exited(r)

(* Every process that held the pipes has ended. *)
OutputClosed(r) == Exited(r) /\ r \notin offspring

(* What the call captured may hold a credential. *)
Capture(r) == leaky' \in {leaky, leaky \cup {r}}

Answer(r, status) == answer' = [answer EXCEPT ![r] = status]

Spawn(p) ==
  /\ Goto(p, "begun", "waiting")
  /\ child' = [child EXCEPT ![run[p]] = "running"]
  /\ UNCHANGED <<holder, run, last, request, offspring, leaky, answer, returned, fileVars>>

(* Mutant: a missing executable is a failure of the validation. *)
NotFoundFailed(p) ==
  /\ Goto(p, "begun", "classified")
  /\ Answer(run[p], "FAILED")
  /\ UNCHANGED <<holder, run, last, request, commandVars, leaky, returned, fileVars>>

(* FileNotFoundError: no such executable, or no such working directory. *)
NotFound(p) ==
  /\ Goto(p, "begun", "classified")
  /\ Answer(run[p], "NOT_RUN")
  /\ UNCHANGED <<holder, run, last, request, commandVars, leaky, returned, fileVars>>

(* shlex finds no closing quotation in the command line: run raises. *)
SplitFails(p) ==
  /\ Goto(p, "begun", "idle")
  /\ UNCHANGED <<holder, run, last, request, commandVars, leaky, answer, returned, fileVars>>

(* Another OSError, such as a missing permission: run raises. *)
SpawnFails(p) ==
  /\ Goto(p, "begun", "idle")
  /\ UNCHANGED <<holder, run, last, request, commandVars, leaky, answer, returned, fileVars>>

Communicate(p) ==
  /\ Goto(p, "waiting", "classified")
  /\ OutputClosed(run[p])
  /\ Answer(run[p], IF child[run[p]] = "zero" THEN "PASSED" ELSE "FAILED")
  /\ Capture(run[p])
  /\ UNCHANGED <<holder, run, last, request, commandVars, returned, fileVars>>

(* text=True decodes strictly: output that is not valid text raises, with  *)
(* the exit code already known.                                            *)
DecodeFails(p) ==
  /\ Goto(p, "waiting", "idle")
  /\ OutputClosed(run[p])
  /\ UNCHANGED <<holder, run, last, request, commandVars, leaky, answer, returned, fileVars>>

(* Mutant: what the pipes still hold is read after the kill. *)
TimeoutDraining(p) ==
  /\ Goto(p, "waiting", "classified")
  /\ run[p] \notin offspring
  /\ child' = [child EXCEPT ![run[p]] = IF @ = "running" THEN "killed" ELSE @]
  /\ Answer(run[p], "NOT_RUN")
  /\ Capture(run[p])
  /\ UNCHANGED <<holder, run, last, request, offspring, returned, fileVars>>

(* Mutant: a status of its own. *)
TimeoutStatus(p) ==
  /\ Goto(p, "waiting", "classified")
  /\ child' = [child EXCEPT ![run[p]] = IF @ = "running" THEN "killed" ELSE @]
  /\ Answer(run[p], "TIMEOUT")
  /\ Capture(run[p])
  /\ UNCHANGED <<holder, run, last, request, offspring, returned, fileVars>>

(* Mutant: Popen.communicate, whose TimeoutExpired leaves the child alone. *)
TimeoutUnkilled(p) ==
  /\ Goto(p, "waiting", "classified")
  /\ Punctual => ~OutputClosed(run[p])
  /\ Answer(run[p], "NOT_RUN")
  /\ Capture(run[p])
  /\ UNCHANGED <<holder, run, last, request, commandVars, returned, fileVars>>

(* TimeoutExpired: the direct child is killed and reaped, nobody else is.  *)
Timeout(p) ==
  /\ Goto(p, "waiting", "classified")
  /\ Punctual => ~OutputClosed(run[p])
  /\ child' = [child EXCEPT ![run[p]] = IF @ = "running" THEN "killed" ELSE @]
  /\ Answer(run[p], "NOT_RUN")
  /\ Capture(run[p])
  /\ UNCHANGED <<holder, run, last, request, offspring, returned, fileVars>>

-----------------------------------------------------------------------------
(* _write_evidence, and the end of run *)

SecretReference(r) == request[r].command \in Secrets

(* _reject_secrets looks at the command line and at what was captured. *)
Tainted(r) == r \in leaky \/ SecretReference(r)

RefuseEvidence(p) ==
  /\ Goto(p, "classified", "idle")
  /\ p \in WithEvidence
  /\ Tainted(run[p])
  /\ UNCHANGED <<holder, run, last, request, commandVars, leaky, answer, returned, fileVars>>

(* Mutant: the file is screened by its reader. *)
OpenEvidenceUnscreened(p) ==
  /\ p \in WithEvidence
  /\ Goto(p, "classified", "writing")
  /\ temp' = [temp EXCEPT ![request[run[p]].id] = Torn]
  /\ UNCHANGED <<holder, run, last, request, commandVars, leaky, answer, returned, evidence, reports>>

(* The temporary file has a fixed name; mode "w" empties a leftover. *)
OpenEvidence(p) ==
  /\ Goto(p, "classified", "writing")
  /\ p \in WithEvidence
  /\ ~Tainted(run[p])
  /\ temp' = [temp EXCEPT ![request[run[p]].id] = Torn]
  /\ UNCHANGED <<holder, run, last, request, commandVars, leaky, answer, returned, evidence, reports>>

SyncEvidence(p) ==
  /\ Goto(p, "writing", "synced")
  /\ temp' = [temp EXCEPT ![request[run[p]].id] = run[p]]
  /\ UNCHANGED <<holder, run, last, request, commandVars, leaky, answer, returned, evidence, reports>>

(* os.replace: whatever stood at the path is gone. *)
PublishEvidence(p) ==
  LET id == request[run[p]].id IN
  /\ Goto(p, "synced", "evidenced")
  /\ evidence' = [evidence EXCEPT ![id] = temp[id]]
  /\ temp' = [temp EXCEPT ![id] = None]
  /\ UNCHANGED <<holder, run, last, request, commandVars, leaky, answer, returned, reports>>

(* Mutant: evidence is optional, so its failure is swallowed. *)
EvidenceFailsSilently(p) ==
  /\ pc[p] \in {"writing", "synced"}
  /\ pc' = [pc EXCEPT ![p] = "evidenced"]
  /\ UNCHANGED <<holder, run, last, request, commandVars, leaky, answer, returned, fileVars>>

(* mkdir, open, write, fsync or os.replace raises, and so does run; the    *)
(* temporary file stays.                                                   *)
EvidenceFails(p) ==
  /\ p \in WithEvidence
  /\ pc[p] \in {"classified", "writing", "synced"}
  /\ pc' = [pc EXCEPT ![p] = "idle"]
  /\ UNCHANGED <<holder, run, last, request, commandVars, leaky, answer, returned, fileVars>>

(* The result is built once the evidence, if any, is in place. *)
Built(p) ==
  pc[p] = "evidenced" \/ (pc[p] = "classified" /\ p \notin WithEvidence)

RefuseResult(p) ==
  /\ Built(p)
  /\ SecretReference(run[p])
  /\ pc' = [pc EXCEPT ![p] = "idle"]
  /\ UNCHANGED <<holder, run, last, request, commandVars, leaky, answer, returned, fileVars>>

Return(p) ==
  /\ Built(p)
  /\ ~SecretReference(run[p])
  /\ pc' = [pc EXCEPT ![p] = "returned"]
  /\ returned' = returned \cup {run[p]}
  /\ UNCHANGED <<holder, run, last, request, commandVars, leaky, answer, fileVars>>

-----------------------------------------------------------------------------
(* The steps of SubprocessValidationRunner.run *)
Step(p) ==
  \/ SplitFails(p) \/ Spawn(p) \/ NotFound(p) \/ SpawnFails(p)
  \/ Communicate(p) \/ DecodeFails(p) \/ Timeout(p)
  \/ RefuseEvidence(p) \/ OpenEvidence(p) \/ SyncEvidence(p)
  \/ PublishEvidence(p) \/ EvidenceFails(p)
  \/ RefuseResult(p) \/ Return(p)

Caller(p) ==
  \/ Acquire(p) \/ Release(p) \/ Record(p) \/ Discard(p) \/ Die(p)
  \/ \E id \in Ids, command \in Commands : Begin(p, id, command)

Command(r) ==
  \/ \E fate \in {"zero", "nonzero"} : Exit(r, fate)
  \/ Fork(r) \/ End(r)

Next ==
  \/ \E p \in Processes : Step(p) \/ Caller(p)
  \/ \E r \in Runs : Command(r)

Spec == Init /\ [][Next]_vars

(* The runner's own steps go on, and its deadline passes; a command may    *)
(* run for ever.                                                           *)
FairSpec == Spec /\ \A p \in Processes : WF_vars(Step(p))

-----------------------------------------------------------------------------
(* Properties *)

(* subprocess_runner.py lines 9-11: only a command that exited with zero   *)
(* passes, and only one that exited otherwise fails, whatever timed out,   *)
(* was killed or crashed before, and whoever ran the same id before.       *)
HonestAnswers ==
  \A r \in returned : /\ answer[r] = "PASSED" => child[r] = "zero"
                      /\ answer[r] = "FAILED" => child[r] = "nonzero"

(* subprocess_runner.py lines 121-130 (capture_output): a result that says *)
(* PASSED or FAILED comes when no descendant of its command still holds    *)
(* the pipes; what goes on changing the worktree behind such a result has  *)
(* detached itself, and all else is behind a NOT_RUN or behind no result.  *)
AnsweredIsQuiet ==
  \A r \in returned : answer[r] \in {"PASSED", "FAILED"} => r \notin offspring

(* subprocess_runner.py lines 139-143, where subprocess.run kills the child *)
(* that it gives up on: as long as the command's own process runs, even one *)
(* whose runner died and that goes on beside later calls, nothing tells of  *)
(* the call: no status, no file, no result, no record.  Behind a NOT_RUN    *)
(* there go on descendants alone.                                           *)
RunningIsUnreported ==
  \A r \in Runs : child[r] = "running" =>
    /\ answer[r] = None /\ r \notin returned
    /\ \A id \in Ids : r \notin {temp[id], evidence[id], reports[id]}

(* PLAN Section 37, subprocess_runner.py lines 210-220: at the path that a *)
(* recorded result refers to there is whole evidence of a call with its    *)
(* result_id, never of a call before the recorded one, whoever crashed or  *)
(* retried: of the recorded call itself until the id is run again.         *)
RecordedEvidence ==
  \A id \in Ids :
    reports[id] # None /\ request[reports[id]].process \in WithEvidence
      => evidence[id] \in {r \in reports[id]..last : request[r].id = id}

(* subprocess_runner.py lines 36-48: neither a file of the evidence        *)
(* directory, temporary or not, nor a returned result holds a credential.  *)
NothingSecretLeaves ==
  /\ \A id \in Ids, r \in Runs : r \in {temp[id], evidence[id]} => ~Tainted(r)
  /\ \A r \in returned : ~SecretReference(r)

(* ports/validation.py lines 49-57: a call of run ends, by an answer or an *)
(* exception, even if its command never does.                              *)
RunsEnd ==
  \A p \in Processes : pc[p] = "begun" ~> pc[p] \in {"returned", "idle"}

(* subprocess_runner.py line 10: "the process ran and returned non-zero ->  *)
(* FAILED".                                                                 *)
FailedIsFailed ==
  \A r \in returned : child[r] = "nonzero" => answer[r] = "FAILED"

=============================================================================
