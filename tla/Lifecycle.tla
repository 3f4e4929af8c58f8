------------------------------ MODULE Lifecycle ------------------------------
(***************************************************************************)
(* One TASK driven from READINESS to CLOSED.  The policies of Workflow and *)
(* Gates are the code; the caller that asks them, records evidence and     *)
(* moves the Attempt (task T011 of the repository's plan, not written yet) *)
(* is external.  It is bound only by the contract the policies state:      *)
(* every move is a transition MayDerive allows, and GateDecision.passed is *)
(* "the only field a caller may use to authorize a transition"             *)
(* (decision.py).  Everything else is nondeterministic: the candidate may  *)
(* change between any two steps, evidence arrives in any order and any     *)
(* number of times, the human may approve whenever the gate lets him in,   *)
(* and the READY_TO_COMMIT decision is computed in one step and used in a  *)
(* later one, since HumanCommitGatePolicy and CommitAuthorizationPolicy    *)
(* take a decision together with the context it was computed for.          *)
(***************************************************************************)
EXTENDS Gates, FiniteSets

CONSTANTS
  Candidates,       \* the candidate identities the worktree may take
  Contracts,        \* identities of the artifact contract (SPEC/PLAN/TASKS)
  OtherTasks,       \* the other TASKs of the plan
  Dependencies,     \* those this TASK depends on
  Times,            \* the timestamps the wall clock may show
  ClockIsMonotone,  \* whether a later result never carries an earlier timestamp
  FindingInputs,    \* the sets of finding severities a review may report
  CIInputs,         \* the CI statuses that may be observed
  MaxAttempts,      \* bound: attempts of the TASK
  MaxReports,       \* bound: implementation reports, and reviews
  MaxResults,       \* bound: validation results
  MaxWaivers,       \* bound: waivers
  MaxCommits        \* bound: commits

ASSUME LifecycleAssumption ==
  /\ None \notin Candidates
  /\ Contracts # {}
  /\ Dependencies \subseteq OtherTasks
  /\ Times \subseteq Nat
  /\ None \notin Nat
  /\ ClockIsMonotone \in BOOLEAN
  /\ FindingInputs \subseteq SUBSET Severities
  /\ CIInputs \subseteq CIStatuses

VARIABLES
  phase,            \* Attempt.phase
  condition,        \* Attempt.condition
  context,          \* the current EvidenceContext
  closedTasks,      \* the TASKs known to be CLOSED
  reports,          \* ImplementationReports
  results,          \* ValidationResults; id counts them in execution order
  waivers,          \* ValidationWaivers
  reviews,          \* ReviewReports
  approvals,        \* contexts of the human's commit approvals
  readyToCommit,    \* the last READY_TO_COMMIT decision, or None
  commit,           \* the expected commit, or None
  pushed,           \* number of the last commit pushed, 0 if none
  ciResults         \* CIResults

evidence == <<reports, results, waivers, reviews, approvals>>
attempt  == <<phase, condition, context>>
delivery == <<commit, pushed, ciResults>>
vars     == <<attempt, closedTasks, evidence, readyToCommit, delivery>>

ContextSet == [attempt : Nat, candidate : Candidates \cup {None}, contract : Contracts]
ReportSet  == [context : ContextSet, status : CompletionStatuses]
ResultSet  == [id : Nat, obligation : Obligations, context : ContextSet,
               status : ValidationStatuses, time : Times \cup {None}]
WaiverSet  == [obligation : Obligations, result : Nat, context : ContextSet]
ReviewSet  == [context : ContextSet, findings : SUBSET Severities]
DecisionSet == [passed : BOOLEAN, context : ContextSet]
CommitSet  == [number : Nat, context : ContextSet]
CIResultSet == [commit : Nat, status : CIStatuses]

TypeOK ==
  /\ phase \in Phases
  /\ condition \in Conditions \cup {None}
  /\ context \in ContextSet
  /\ closedTasks \subseteq OtherTasks
  /\ reports \subseteq ReportSet
  /\ results \subseteq ResultSet
  /\ waivers \subseteq WaiverSet
  /\ reviews \subseteq ReviewSet
  /\ approvals \subseteq ContextSet
  /\ readyToCommit \in DecisionSet \cup {None}
  /\ commit \in CommitSet \cup {None}
  /\ pushed \in Nat
  /\ ciResults \subseteq CIResultSet

Init ==
  /\ phase = "READINESS"
  /\ condition = None
  /\ context \in {[attempt |-> 1, candidate |-> None, contract |-> k] : k \in Contracts}
  /\ closedTasks = {}
  /\ reports = {} /\ results = {} /\ waivers = {} /\ reviews = {} /\ approvals = {}
  /\ readyToCommit = None
  /\ commit = None
  /\ pushed = 0
  /\ ciResults = {}

-----------------------------------------------------------------------------
(* Moves of the Attempt *)

(* Every move between phases asks NextAuthorizedActionPolicy first. *)
Move(target) ==
  /\ MayDerive(phase, condition, target)
  /\ phase' = NextAction(condition, target)

(* READINESS is evaluated over facts the caller supplies. *)
EvaluateReadiness ==
  /\ phase = "READINESS" /\ condition = None
  /\ \E contractValid, mismatch \in BOOLEAN, ambiguity \in Classifications \cup {None} :
       LET satisfied == DependenciesSatisfied(Dependencies, closedTasks)
           blocked == ReadinessCondition(contractValid, satisfied, ambiguity, mismatch)
       IN  /\ MayEvaluateReadiness(contractValid, satisfied, ambiguity, mismatch)
           /\ \/ /\ blocked = None
                 /\ Move("IMPLEMENTATION")
                 /\ UNCHANGED condition
              \/ /\ blocked # None
                 /\ MayDerive(phase, blocked, None)
                 /\ condition' = blocked
                 /\ UNCHANGED phase
  /\ UNCHANGED <<context, closedTasks, evidence, readyToCommit, delivery>>

StartValidation ==
  /\ phase \in {"IMPLEMENTATION", "FIX"}
  /\ Move("VALIDATION")
  /\ UNCHANGED <<condition, context, closedTasks, evidence, readyToCommit, delivery>>

StartReview ==
  /\ \E report \in reports \cup {None} :
       ReadyForReview(context, report, results, waivers, condition)
  /\ \E target \in {"REVIEW", "RE_REVIEW"} : Move(target)
  /\ UNCHANGED <<condition, context, closedTasks, evidence, readyToCommit, delivery>>

EnterReadyToCommit ==
  /\ readyToCommit # None
  /\ MayEnterHumanCommitGate(readyToCommit.passed, readyToCommit.context, context)
  /\ Move("READY_TO_COMMIT")
  /\ UNCHANGED <<condition, context, closedTasks, evidence, readyToCommit, delivery>>

(* COMMIT, once authorized, fixes the expected commit for this context. *)
EnterCommit ==
  /\ readyToCommit # None
  /\ \E approval \in approvals \cup {None} :
       CommitAuthorized(readyToCommit.passed, readyToCommit.context, approval, context)
  /\ Move("COMMIT")
  /\ LET number == IF commit = None THEN 1 ELSE commit.number + 1 IN
       /\ number <= MaxCommits
       /\ commit' = [number |-> number, context |-> context]
  /\ UNCHANGED <<condition, context, closedTasks, evidence, readyToCommit, pushed, ciResults>>

EnterPush ==
  /\ Move("PUSH")
  /\ UNCHANGED <<condition, context, closedTasks, evidence, readyToCommit, delivery>>

EnterCI ==
  /\ Move("CI")
  /\ UNCHANGED <<condition, context, closedTasks, evidence, readyToCommit, delivery>>

(* CLOSED: the caller's facts are about the expected commit. *)
Close ==
  /\ phase = "CI"
  /\ commit # None
  /\ \E remoteVerified, mismatch \in BOOLEAN, ci \in ciResults \cup {None} :
       Closable(\E v \in reviews : ReviewGate(v, commit.context),
                readyToCommit # None /\ readyToCommit.passed
                  /\ AppliesTo(readyToCommit.context, commit.context),
                \E a \in approvals : AppliesTo(a, commit.context),
                TRUE, pushed = commit.number, remoteVerified, mismatch,
                commit.number, ci)
  /\ Move("CLOSED")
  /\ UNCHANGED <<condition, context, closedTasks, evidence, readyToCommit, delivery>>

Abandon ==
  /\ "ABANDONED" \in ValidTargets(phase)
  /\ phase' = "ABANDONED"
  /\ condition' = None
  /\ UNCHANGED <<context, closedTasks, evidence, readyToCommit, delivery>>

(* A new Attempt starts afresh, in a worktree that keeps its content. *)
NewAttempt ==
  /\ phase = "ABANDONED" /\ context.attempt < MaxAttempts
  /\ phase' = "READINESS"
  /\ context' = [context EXCEPT !.attempt = @ + 1]
  /\ readyToCommit' = None
  /\ UNCHANGED <<condition, closedTasks, evidence, delivery>>

-----------------------------------------------------------------------------
(* Blocking conditions *)

(* A problem is classified (by a human, an agent or CI) and routed. *)
Block(classification) ==
  /\ condition = None
  /\ MayDerive(phase, Route(classification), None)
  /\ condition' = Route(classification)
  /\ UNCHANGED <<phase, context, closedTasks, evidence, readyToCommit, delivery>>

(* FIX is entered either as the action FIX_REQUIRED authorizes, which ends *)
(* the condition, or as a proposed target.                                 *)
EnterFix ==
  /\ \/ /\ condition = "FIX_REQUIRED"
        /\ NextAction(condition, None) \in ValidTargets(phase)
        /\ phase' = NextAction(condition, None)
        /\ condition' = None
     \/ /\ Move("FIX")
        /\ UNCHANGED condition
  /\ UNCHANGED <<context, closedTasks, evidence, readyToCommit, delivery>>

(* An approved artifact change gives the contract a new identity and       *)
(* returns the Attempt to READINESS, ending an artifact condition if there *)
(* is one.                                                                 *)
ChangeArtifacts(contract) ==
  /\ \/ /\ condition \in ArtifactConditions
        /\ phase \in ArtifactAmbiguityPhases
        /\ phase' = "READINESS"
        /\ condition' = None
     \/ /\ Move("READINESS")
        /\ UNCHANGED condition
  /\ context' = [context EXCEPT !.contract = contract]
  /\ UNCHANGED <<closedTasks, evidence, readyToCommit, delivery>>

ResolveInPlace ==
  /\ condition \in {"ENVIRONMENT_BLOCKED", "REPOSITORY_MISMATCH",
                    "TASK_DEPENDENCY_UNSATISFIED"}
  /\ condition' = None
  /\ UNCHANGED <<phase, context, closedTasks, evidence, readyToCommit, delivery>>

-----------------------------------------------------------------------------
(* The world: the worktree, the agents, the runner, the human, the remote *)

ChangeCandidate(candidate) ==
  /\ phase \notin TerminalPhases \cup {"READINESS"}
  /\ context' = [context EXCEPT !.candidate = candidate]
  /\ UNCHANGED <<phase, condition, closedTasks, evidence, readyToCommit, delivery>>

TaskCloses(task) ==
  /\ closedTasks' = closedTasks \cup {task}
  /\ UNCHANGED <<attempt, evidence, readyToCommit, delivery>>

(* Evidence is bound to a candidate: the models refuse None. *)
Report(status) ==
  /\ phase \in {"IMPLEMENTATION", "FIX"}
  /\ context.candidate # None
  /\ Cardinality(reports) < MaxReports
  /\ reports' = reports \cup {[context |-> context, status |-> status]}
  /\ UNCHANGED <<attempt, closedTasks, results, waivers, reviews, approvals,
                 readyToCommit, delivery>>

RecordResult(obligation, status, time) ==
  /\ phase \notin TerminalPhases
  /\ context.candidate # None
  /\ ClockIsMonotone => \A r \in results : r.time # None /\ time # None => r.time <= time
  /\ \E id \in 1..MaxResults :
       /\ {r.id : r \in results} = 1..(id - 1)
       /\ results' = results \cup {[id |-> id, obligation |-> obligation, context |-> context,
                                    status |-> status, time |-> time]}
  /\ UNCHANGED <<attempt, closedTasks, reports, waivers, reviews, approvals,
                 readyToCommit, delivery>>

GrantWaiver(result, cause) ==
  /\ phase \notin TerminalPhases
  /\ WaiverEligible(result.obligation, result, cause)
  /\ context.candidate # None
  /\ Cardinality(waivers) < MaxWaivers
  /\ waivers' = waivers \cup {[obligation |-> result.obligation, result |-> result.id,
                               context |-> context]}
  /\ UNCHANGED <<attempt, closedTasks, reports, results, reviews, approvals,
                 readyToCommit, delivery>>

Review(findings) ==
  /\ phase \in {"REVIEW", "RE_REVIEW"}
  /\ context.candidate # None
  /\ Cardinality(reviews) < MaxReports
  /\ reviews' = reviews \cup {[context |-> context, findings |-> findings]}
  /\ UNCHANGED <<attempt, closedTasks, reports, results, waivers, approvals,
                 readyToCommit, delivery>>

(* The caller evaluates the two sub-gates and the composed one against the *)
(* current context, and keeps the decision with that context.              *)
EvaluateReadyToCommit ==
  /\ phase \notin TerminalPhases
  /\ \E report \in reports \cup {None}, review \in reviews, integrity \in BOOLEAN :
       readyToCommit' =
         [passed  |-> ReadyToCommit(
                        ReadyForReview(context, report, results, waivers, condition),
                        ReviewGate(review, context), integrity, condition),
          context |-> context]
  /\ UNCHANGED <<attempt, closedTasks, evidence, delivery>>

Approve ==
  /\ phase = "READY_TO_COMMIT"
  /\ readyToCommit # None
  /\ MayEnterHumanCommitGate(readyToCommit.passed, readyToCommit.context, context)
  /\ approvals' = approvals \cup {context}
  /\ UNCHANGED <<attempt, closedTasks, reports, results, waivers, reviews,
                 readyToCommit, delivery>>

Push ==
  /\ phase = "PUSH"
  /\ commit # None
  /\ pushed' = commit.number
  /\ UNCHANGED <<attempt, closedTasks, evidence, readyToCommit, commit, ciResults>>

(* Hosted CI may answer late, about a commit that is no longer expected. *)
ObserveCI(number, status) ==
  /\ phase = "CI"
  /\ ciResults' = ciResults \cup {[commit |-> number, status |-> status]}
  /\ UNCHANGED <<attempt, closedTasks, evidence, readyToCommit, commit, pushed>>

-----------------------------------------------------------------------------
Next ==
  \/ EvaluateReadiness
  \/ StartValidation
  \/ StartReview
  \/ EnterReadyToCommit
  \/ EnterCommit
  \/ EnterPush
  \/ EnterCI
  \/ Close
  \/ Abandon
  \/ NewAttempt
  \/ \E c \in Classifications : Block(c)
  \/ EnterFix
  \/ \E k \in Contracts : ChangeArtifacts(k)
  \/ ResolveInPlace
  \/ \E c \in Candidates : ChangeCandidate(c)
  \/ \E t \in OtherTasks : TaskCloses(t)
  \/ \E s \in CompletionStatuses : Report(s)
  \/ \E o \in Obligations, s \in ValidationStatuses, t \in Times \cup {None} :
       RecordResult(o, s, t)
  \/ \E r \in results, cause \in Classifications \cup {None} : GrantWaiver(r, cause)
  \/ \E f \in FindingInputs : Review(f)
  \/ EvaluateReadyToCommit
  \/ Approve
  \/ Push
  \/ \E n \in 1..MaxCommits, s \in CIInputs : ObserveCI(n, s)

Spec == Init /\ [][Next]_vars

-----------------------------------------------------------------------------
(* Properties *)

(* What the gates demand for a context: a candidate, a completed report, a  *)
(* review without BLOCKER or IMPORTANT findings, and for every required     *)
(* obligation a pass, or a NOT_RUN waived for that very result -- all bound *)
(* to exactly this context.                                                 *)
Backed(ctx) ==
  /\ ctx.candidate # None
  /\ \E p \in reports : p.context = ctx /\ p.status = "COMPLETED"
  /\ \E v \in reviews : v.context = ctx /\ v.findings \subseteq {"MINOR"}
  /\ \A o \in Required : \E r \in results :
       /\ r.obligation = o /\ r.context = ctx
       /\ \/ r.status = "PASSED"
          \/ /\ r.status = "NOT_RUN" /\ o \notin NonWaivable
             /\ \E w \in waivers : w.obligation = o /\ w.result = r.id /\ w.context = ctx

(* SPEC Section 37: a commit exists only for a candidate, contract and      *)
(* attempt that hold all the evidence themselves and that the human         *)
(* approved, whatever changed between the evaluation of READY_TO_COMMIT,    *)
(* the approval and the commit.                                             *)
CommitBacked ==
  commit # None => Backed(commit.context) /\ commit.context \in approvals

(* The kept decision stands on evidence too: it is what approval and commit *)
(* rely on after the evaluation.                                            *)
DecisionBacked ==
  readyToCommit # None /\ readyToCommit.passed => Backed(readyToCommit.context)

(* implementation.py lines 46-50: reports are bound to a candidate. *)
EvidenceBound == \A p \in reports : p.context.candidate # None

(* SPEC INV-33: the human is asked to approve nothing but a context that    *)
(* holds all the evidence.                                                  *)
ApprovalsBacked == \A a \in approvals : Backed(a)

(* SPEC Section 22.9, ready_for_review.py: READY_TO_COMMIT never passes     *)
(* while the last run of a required obligation on the current context       *)
(* failed, or did not run and carries no waiver of its own: neither an      *)
(* older pass nor an older waiver masks it.                                 *)
NoMaskedFailure ==
  [][ readyToCommit' # readyToCommit /\ readyToCommit' # None /\ readyToCommit'.passed
      => \A o \in Required : \A r \in Applicable(results, o, context) :
           (\A s \in Applicable(results, o, context) : s.id <= r.id)
           => \/ r.status = "PASSED"
              \/ r.status = "NOT_RUN" /\ \E w \in waivers : w.result = r.id
    ]_vars

(* SPEC INV-18, INV-19: CLOSED means that the last commit of this very      *)
(* attempt was pushed and is green; a green answer about an obsolete commit *)
(* never closes.                                                            *)
ClosedOnGreen ==
  phase = "CLOSED" =>
    /\ commit # None
    /\ commit.context.attempt = context.attempt
    /\ pushed = commit.number
    /\ [commit |-> commit.number, status |-> "GREEN"] \in ciResults

(* PLAN Section 58: a blocking condition is never bypassed.  A blocked      *)
(* Attempt waits, is abandoned, goes back to READINESS over an artifact     *)
(* condition, or enters FIX over FIX_REQUIRED.                              *)
NoBypass ==
  [][ condition # None =>
        phase' \in {phase, "ABANDONED"}
                    \cup {p \in {"READINESS"} : condition \in ArtifactConditions}
                    \cup {p \in {"FIX"} : condition = "FIX_REQUIRED"} ]_vars

(* SPEC INV-24: past READINESS every dependency is closed. *)
DependenciesFirst ==
  phase \notin {"READINESS", "ABANDONED"} => Dependencies \subseteq closedTasks

(* next_action.py lines 15-17: FIX_REQUIRED "describes an internal SDD      *)
(* Phase (`Phase.FIX`) the workflow is already authorized to enter".        *)
FixAuthorized ==
  condition = "FIX_REQUIRED" => NextAction(condition, None) \in ValidTargets(phase)

(* next_action.py, PLAN Section 58: a blocked Attempt can always be asked   *)
(* what to do next, derive does not raise; and if the answer is a phase,    *)
(* the transition map leads there, VALIDATION (FixAuthorized) excepted.     *)
ConditionsLeadOn ==
  condition # None =>
    /\ MayDerive(phase, condition, None)
    /\ NextAction(condition, None) \in Phases /\ phase # "VALIDATION"
         => NextAction(condition, None) \in ValidTargets(phase)

-----------------------------------------------------------------------------
(* The pipeline that the phases, conditions and kept decisions implement *)

Proven == {c \in {p.context : p \in reports} : Backed(c)}

GreenCommits == {r.commit : r \in {c \in ciResults : c.status = "GREEN"}}

Abstract == INSTANCE Pipeline WITH
  Needed    <- Dependencies,
  NoCommit  <- None,
  tries     <- context.attempt,
  done      <- closedTasks,
  proven    <- Proven,
  approved  <- approvals,
  expected  <- commit,
  published <- pushed,
  green     <- GreenCommits,
  closed    <- phase = "CLOSED"

(* SPEC Sections 34 to 46: an approval is of a proven context of the        *)
(* current attempt, a commit of an approved one with all dependencies       *)
(* closed, a push of a commit of this attempt, and closure of the pushed    *)
(* and green one; nothing is delivered, approved or proven afterwards.      *)
ImplementsPipeline == Abstract!Spec

=============================================================================
