-------------------------------- MODULE Gates --------------------------------
(***************************************************************************)
(* The deterministic gates (domain/policies) over immutable evidence       *)
(* (domain/models).  A gate answers with GateDecision.passed; its reasons  *)
(* are prose without authority and are left out.  Evidence contexts are    *)
(* [attempt, candidate, contract] records, where attempt stands for the    *)
(* pair task_id, attempt_id.                                               *)
(***************************************************************************)
EXTENDS Integers, Workflow

CONSTANTS
  Obligations,      \* the ValidationObligations of the TASK
  Required,         \* those declared required
  NonWaivable       \* those declared non_waivable

ASSUME ObligationAssumption ==
  Required \subseteq Obligations /\ NonWaivable \subseteq Obligations

ValidationStatuses == {"PASSED", "FAILED", "NOT_RUN"}
CompletionStatuses == {"COMPLETED", "INCOMPLETE", "FAILED"}
Severities         == {"BLOCKER", "IMPORTANT", "MINOR"}
CIStatuses         == {"PENDING", "RUNNING", "GREEN", "FAILED", "CANCELLED",
                       "NOT_FOUND"}

(* Mutant: evidence survives an artifact change. *)
AppliesToAnyContract(context, current) ==
  context.attempt = current.attempt /\ context.candidate = current.candidate

(* EvidenceContext.applies_to: exact equality of every field, None *)
(* included.                                                       *)
AppliesTo(context, current) ==
  /\ context.attempt = current.attempt
  /\ context.candidate = current.candidate
  /\ context.contract = current.contract

-----------------------------------------------------------------------------
(* Validation evidence *)

Applicable(results, obligation, current) ==
  {r \in results : r.obligation = obligation /\ AppliesTo(r.context, current)}

(* r is the result _latest_applicable_result returns: the only applicable  *)
(* one, or the one whose timestamp (completed_at or started_at) is above   *)
(* every other.  A missing timestamp or a tie at the top leaves no current *)
(* result: the lookup is ambiguous.                                        *)
IsCurrent(r, results, obligation, current) ==
  LET applicable == Applicable(results, obligation, current) IN
  /\ r \in applicable
  /\ \/ applicable = {r}
     \/ /\ \A s \in applicable : s.time # None
        /\ \A s \in applicable \ {r} : s.time < r.time

(* Mutant: a waiver covers every later run of its obligation. *)
HasOlderWaiver(waivers, obligation, resultId, current) ==
  \E w \in waivers : w.obligation = obligation /\ AppliesTo(w.context, current)

HasApplicableWaiver(waivers, obligation, resultId, current) ==
  \E w \in waivers : /\ w.obligation = obligation
                     /\ w.result = resultId
                     /\ AppliesTo(w.context, current)

(* _evaluate_required_obligation returns no reason to refuse. *)
ObligationMet(obligation, results, waivers, current) ==
  \E r \in results :
    /\ IsCurrent(r, results, obligation, current)
    /\ \/ r.status = "PASSED"
       \/ /\ r.status = "NOT_RUN"
          /\ obligation \notin NonWaivable
          /\ HasApplicableWaiver(waivers, obligation, r.id, current)

(* WaiverEligibilityPolicy: may a waiver be granted for this result? *)
WaiverEligible(obligation, result, cause) ==
  /\ result.obligation = obligation
  /\ result.status = "NOT_RUN"
  /\ obligation \notin NonWaivable
  /\ cause = "ENVIRONMENT"

-----------------------------------------------------------------------------
(* The gates *)

(* report is None or an ImplementationReport. *)
ReadyForReview(current, report, results, waivers, condition) ==
  /\ condition = None
  /\ report # None
  /\ AppliesTo(report.context, current)
  /\ report.status = "COMPLETED"
  /\ \A o \in Required : ObligationMet(o, results, waivers, current)

(* Only the severities of a review's findings count. *)
ReviewGate(review, current) ==
  /\ AppliesTo(review.context, current)
  /\ review.findings \cap {"BLOCKER", "IMPORTANT"} = {}

ReadyToCommit(readyForReview, reviewGate, integrity, condition) ==
  /\ condition = None
  /\ readyForReview
  /\ reviewGate
  /\ integrity

(* Mutant: a decision is good for whatever the worktree holds now. *)
MayEnterHumanCommitGateStale(readyToCommit, readyToCommitContext, current) == readyToCommit

MayEnterHumanCommitGate(readyToCommit, readyToCommitContext, current) ==
  /\ readyToCommit
  /\ AppliesTo(readyToCommitContext, current)

(* Mutant: without an approval there is nothing to compare. *)
CommitAuthorizedUnapproved(readyToCommit, readyToCommitContext, approvalContext, current) ==
  /\ readyToCommit
  /\ AppliesTo(readyToCommitContext, current)
  /\ approvalContext # None => AppliesTo(approvalContext, current)

(* approvalContext is None or the context of a commit approval. *)
CommitAuthorized(readyToCommit, readyToCommitContext, approvalContext, current) ==
  /\ readyToCommit
  /\ AppliesTo(readyToCommitContext, current)
  /\ approvalContext # None
  /\ AppliesTo(approvalContext, current)

(* Mutant: any green commit will do. *)
ClosableOnAnyCommit(reviewGate, ready, approval, committed, pushed, verified, mismatch, expected, ci) ==
  /\ reviewGate /\ ready /\ approval
  /\ committed /\ pushed /\ verified
  /\ ~mismatch
  /\ ci # None
  /\ ci.status = "GREEN"

(* Mutant: a CI answer about the commit will do. *)
ClosableOnAnyAnswer(reviewGate, ready, approval, committed, pushed, verified, mismatch, expected, ci) ==
  /\ reviewGate /\ ready /\ approval
  /\ committed /\ pushed /\ verified
  /\ ~mismatch
  /\ ci # None
  /\ ci.commit = expected

(* ci is None or a CIResult; the Boolean facts come from the caller. *)
Closable(reviewGate, ready, approval, committed, pushed, verified, mismatch, expected, ci) ==
  /\ reviewGate /\ ready /\ approval
  /\ committed /\ pushed /\ verified
  /\ ~mismatch
  /\ ci # None
  /\ ci.commit = expected
  /\ ci.status = "GREEN"

=============================================================================
