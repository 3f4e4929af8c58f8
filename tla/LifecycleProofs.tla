--------------------------- MODULE LifecycleProofs ---------------------------
(***************************************************************************)
(* Theorems about Lifecycle, for every value of its constants.             *)
(***************************************************************************)
EXTENDS Lifecycle, TLAPS

(* The action of FIX_REQUIRED is the phase FIX. *)
LEMMA FixAction == NextAction("FIX_REQUIRED", None) = "FIX"
  BY NoneAssumption DEF NextAction, ResolutionAction, Conditions

(* Every transition and every authorized action stays inside the phases. *)
LEMMA TargetsArePhases ==
  ASSUME NEW p \in Phases
  PROVE  ValidTargets(p) \subseteq Phases
  BY DEF ValidTargets, Forward, Phases, TerminalPhases, ArtifactReturnEligible

LEMMA RouteIsCondition ==
  ASSUME NEW c \in Classifications
  PROVE  Route(c) \in Conditions
  BY DEF Route, Classifications, Conditions

(* A move happens without a blocking condition, along a valid transition. *)
LEMMA MoveIsTransition ==
  ASSUME NEW t \in Phases, Move(t)
  PROVE  condition = None /\ t \in ValidTargets(phase) /\ phase' = t
  BY NoneAssumption DEF Move, MayDerive, NextAction

(* Lifecycle keeps its variables in their sets. *)
LEMMA Typing == Spec => []TypeOK
<1>1. Init => TypeOK
  BY NoneAssumption DEF Init, TypeOK, ContextSet, Phases
<1>2. TypeOK /\ [Next]_vars => TypeOK'
  <2> SUFFICES ASSUME TypeOK, [Next]_vars PROVE TypeOK'
    OBVIOUS
  <2> USE DEF TypeOK, evidence, attempt, delivery
  <2>1. CASE EvaluateReadiness
    <3>1. condition' \in Conditions \cup {None}
      BY <2>1, RouteIsCondition DEF EvaluateReadiness, ReadinessCondition, Conditions, MayEvaluateReadiness
    <3>2. phase' \in Phases
      BY <2>1, MoveIsTransition DEF EvaluateReadiness, Phases
    <3> QED BY <2>1, <3>1, <3>2 DEF EvaluateReadiness
  <2>2. CASE StartValidation
    BY <2>2, MoveIsTransition DEF StartValidation, Phases
  <2>3. CASE StartReview
    BY <2>3, MoveIsTransition DEF StartReview, Phases
  <2>4. CASE EnterReadyToCommit
    BY <2>4, MoveIsTransition DEF EnterReadyToCommit, Phases
  <2>5. CASE EnterCommit
    <3>1. commit' \in CommitSet
      BY <2>5 DEF EnterCommit, CommitSet
    <3> QED BY <2>5, <3>1, MoveIsTransition DEF EnterCommit, Phases
  <2>6. CASE EnterPush
    BY <2>6, MoveIsTransition DEF EnterPush, Phases
  <2>7. CASE EnterCI
    BY <2>7, MoveIsTransition DEF EnterCI, Phases
  <2>8. CASE Close
    BY <2>8, MoveIsTransition DEF Close, Phases
  <2>9. CASE Abandon
    BY <2>9 DEF Abandon, Phases
  <2>10. CASE NewAttempt
    BY <2>10 DEF NewAttempt, Phases, ContextSet
  <2>11. ASSUME NEW c \in Classifications, Block(c) PROVE TypeOK'
    BY <2>11, RouteIsCondition DEF Block
  <2>12. CASE EnterFix
    BY <2>12, TargetsArePhases, MoveIsTransition DEF EnterFix, Phases
  <2>13. ASSUME NEW k \in Contracts, ChangeArtifacts(k) PROVE TypeOK'
    BY <2>13, MoveIsTransition DEF ChangeArtifacts, Phases, ContextSet
  <2>14. CASE ResolveInPlace
    BY <2>14 DEF ResolveInPlace
  <2>15. ASSUME NEW c \in Candidates, ChangeCandidate(c) PROVE TypeOK'
    BY <2>15 DEF ChangeCandidate, ContextSet
  <2>16. ASSUME NEW t \in OtherTasks, TaskCloses(t) PROVE TypeOK'
    BY <2>16 DEF TaskCloses
  <2>17. ASSUME NEW s \in CompletionStatuses, Report(s) PROVE TypeOK'
    BY <2>17 DEF Report, ReportSet
  <2>18. ASSUME NEW o \in Obligations, NEW s \in ValidationStatuses,
                NEW t \in Times \cup {None}, RecordResult(o, s, t)
         PROVE TypeOK'
    BY <2>18 DEF RecordResult, ResultSet
  <2>19. ASSUME NEW r \in results, NEW cause \in Classifications \cup {None},
                GrantWaiver(r, cause)
         PROVE TypeOK'
    BY <2>19 DEF GrantWaiver, WaiverSet, ResultSet
  <2>20. ASSUME NEW f \in FindingInputs, Review(f) PROVE TypeOK'
    BY <2>20, LifecycleAssumption DEF Review, ReviewSet
  <2>21. CASE EvaluateReadyToCommit
    BY <2>21 DEF EvaluateReadyToCommit, DecisionSet, ReadyToCommit
  <2>22. CASE Approve
    BY <2>22 DEF Approve
  <2>23. CASE Push
    BY <2>23 DEF Push, CommitSet
  <2>24. ASSUME NEW n \in 1..MaxCommits, NEW s \in CIInputs, ObserveCI(n, s)
         PROVE TypeOK'
    BY <2>24, LifecycleAssumption DEF ObserveCI, CIResultSet
  <2>25. CASE UNCHANGED vars
    BY <2>25 DEF vars
  <2> QED
    BY <2>1, <2>2, <2>3, <2>4, <2>5, <2>6, <2>7, <2>8, <2>9, <2>10, <2>11, <2>12,
       <2>13, <2>14, <2>15, <2>16, <2>17, <2>18, <2>19, <2>20, <2>21, <2>22, <2>23,
       <2>24, <2>25
    DEF Next
<1> QED BY <1>1, <1>2, PTL DEF Spec

-----------------------------------------------------------------------------
(* The evidence behind a decision. *)

LEMMA AppliesToIsEquality ==
  ASSUME NEW a \in ContextSet, NEW b \in ContextSet, AppliesTo(a, b)
  PROVE  a = b
  BY DEF AppliesTo, ContextSet

(* The two sub-gates, evaluated for the current context, find all the *)
(* evidence Backed asks for.                                          *)
LEMMA GatesBack ==
  ASSUME TypeOK, EvidenceBound,
         NEW report \in reports \cup {None}, NEW review \in reviews,
         ReadyForReview(context, report, results, waivers, condition),
         ReviewGate(review, context)
  PROVE  Backed(context)
<1>1. report \in reports /\ report.context = context /\ report.status = "COMPLETED"
  BY AppliesToIsEquality DEF ReadyForReview, TypeOK, ReportSet
<1>2. review.context = context /\ review.findings \subseteq {"MINOR"}
  BY AppliesToIsEquality DEF ReviewGate, TypeOK, ReviewSet, Severities
<1>3. ASSUME NEW o \in Required
      PROVE  \E r \in results :
               /\ r.obligation = o /\ r.context = context
               /\ \/ r.status = "PASSED"
                  \/ /\ r.status = "NOT_RUN" /\ o \notin NonWaivable
                     /\ \E w \in waivers : w.obligation = o /\ w.result = r.id
                                           /\ w.context = context
  <2>1. PICK r \in results :
          /\ IsCurrent(r, results, o, context)
          /\ \/ r.status = "PASSED"
             \/ /\ r.status = "NOT_RUN" /\ o \notin NonWaivable
                /\ HasApplicableWaiver(waivers, o, r.id, context)
    BY <1>3 DEF ReadyForReview, ObligationMet
  <2>2. r.obligation = o /\ r.context = context
    BY <2>1, AppliesToIsEquality DEF IsCurrent, Applicable, TypeOK, ResultSet
  <2>3. HasApplicableWaiver(waivers, o, r.id, context)
          => \E w \in waivers : w.obligation = o /\ w.result = r.id /\ w.context = context
    BY AppliesToIsEquality DEF HasApplicableWaiver, TypeOK, WaiverSet
  <2> QED BY <2>1, <2>2, <2>3
<1> QED BY <1>1, <1>2, <1>3 DEF Backed, EvidenceBound

(* Evidence is only ever added, so what backs a context goes on backing it. *)
LEMMA BackedIsStable ==
  ASSUME NEW ctx, Backed(ctx),
         reports \subseteq reports', reviews \subseteq reviews',
         results \subseteq results', waivers \subseteq waivers'
  PROVE  Backed(ctx)'
  BY DEF Backed

(* No step removes a piece of evidence. *)
LEMMA EvidenceGrows ==
  ASSUME [Next]_vars
  PROVE  /\ reports \subseteq reports' /\ reviews \subseteq reviews'
         /\ results \subseteq results' /\ waivers \subseteq waivers'
<1> USE DEF evidence, attempt, delivery
<1>1. CASE UNCHANGED evidence
  BY <1>1
<1>2. ASSUME NEW s \in CompletionStatuses, Report(s) PROVE reports \subseteq reports' /\ UNCHANGED <<reviews, results, waivers>>
  BY <1>2 DEF Report
<1>3. ASSUME NEW o \in Obligations, NEW s \in ValidationStatuses,
             NEW t \in Times \cup {None}, RecordResult(o, s, t)
      PROVE  results \subseteq results' /\ UNCHANGED <<reviews, reports, waivers>>
  BY <1>3 DEF RecordResult
<1>4. ASSUME NEW r \in results, NEW cause \in Classifications \cup {None},
             GrantWaiver(r, cause)
      PROVE  waivers \subseteq waivers' /\ UNCHANGED <<reviews, reports, results>>
  BY <1>4 DEF GrantWaiver
<1>5. ASSUME NEW f \in FindingInputs, Review(f)
      PROVE  reviews \subseteq reviews' /\ UNCHANGED <<waivers, reports, results>>
  BY <1>5 DEF Review
<1>6. CASE Approve
  BY <1>6 DEF Approve
<1>7. ASSUME Next, ~Approve,
             \A s \in CompletionStatuses : ~Report(s),
             \A o \in Obligations, s \in ValidationStatuses, t \in Times \cup {None} :
               ~RecordResult(o, s, t),
             \A r \in results, cause \in Classifications \cup {None} : ~GrantWaiver(r, cause),
             \A f \in FindingInputs : ~Review(f)
      PROVE  UNCHANGED evidence
  BY <1>7 DEF Next, EvaluateReadiness, StartValidation, StartReview, EnterReadyToCommit,
       EnterCommit, EnterPush, EnterCI, Close, Abandon, NewAttempt, Block, EnterFix,
       ChangeArtifacts, ResolveInPlace, ChangeCandidate, TaskCloses,
       EvaluateReadyToCommit, Push, ObserveCI
<1>8. CASE UNCHANGED vars
  BY <1>8 DEF vars
<1> QED BY <1>1, <1>2, <1>3, <1>4, <1>5, <1>6, <1>7, <1>8

(* At most one result is current, whatever timestamps tie or are missing. *)
LEMMA CurrentIsUnique ==
  ASSUME NEW rs \in SUBSET ResultSet, NEW o, NEW ctx,
         NEW r, NEW s, IsCurrent(r, rs, o, ctx), IsCurrent(s, rs, o, ctx)
  PROVE  r = s
<1>1. r \in rs /\ s \in rs
  BY DEF IsCurrent, Applicable
<1>2. SUFFICES ASSUME r # s PROVE FALSE
  OBVIOUS
<1>3. r.time < s.time /\ s.time < r.time /\ r.time # None /\ s.time # None
  BY <1>2 DEF IsCurrent
<1>4. r.time \in Nat /\ s.time \in Nat
  BY <1>1, <1>3, LifecycleAssumption DEF ResultSet
<1> QED BY <1>3, <1>4

(* ready_for_review.py, SPEC INV-13, INV-30: evidence of another candidate, *)
(* contract or attempt neither lets READY_FOR_REVIEW pass nor keeps it from *)
(* passing; the gate answers as if there had never been any.                *)
THEOREM StaleEvidenceIsInert ==
  ASSUME NEW ctx \in ContextSet, NEW rs \in SUBSET ResultSet, NEW ws \in SUBSET WaiverSet,
         NEW report, NEW c
  PROVE  ReadyForReview(ctx, report, rs, ws, c)
           <=> ReadyForReview(ctx, report, {r \in rs : r.context = ctx},
                              {w \in ws : w.context = ctx}, c)
<1> DEFINE fresh == {r \in rs : r.context = ctx}
           granted == {w \in ws : w.context = ctx}
<1>1. ASSUME NEW o PROVE Applicable(rs, o, ctx) = Applicable(fresh, o, ctx)
  BY AppliesToIsEquality DEF Applicable, ResultSet
<1>2. ASSUME NEW o, NEW r PROVE IsCurrent(r, rs, o, ctx) <=> IsCurrent(r, fresh, o, ctx)
  BY <1>1 DEF IsCurrent
<1>3. ASSUME NEW o, NEW id
      PROVE  HasApplicableWaiver(ws, o, id, ctx) <=> HasApplicableWaiver(granted, o, id, ctx)
  BY AppliesToIsEquality DEF HasApplicableWaiver, WaiverSet
<1>4. ASSUME NEW o, NEW r, IsCurrent(r, rs, o, ctx) PROVE r \in fresh
  BY <1>1, <1>4 DEF IsCurrent, Applicable
<1>5. ASSUME NEW o PROVE ObligationMet(o, rs, ws, ctx) <=> ObligationMet(o, fresh, granted, ctx)
  BY <1>2, <1>3, <1>4 DEF ObligationMet
<1> HIDE DEF fresh, granted
<1>6. ReadyForReview(ctx, report, rs, ws, c) <=> ReadyForReview(ctx, report, fresh, granted, c)
  BY <1>5 DEF ReadyForReview
<1> QED BY <1>6 DEF fresh, granted

(* ready_for_review.py lines 147-149: a result without a timestamp beside   *)
(* another one of its obligation leaves the obligation ambiguous for good.  *)
(* No later result and no waiver makes the gate pass in this context; only  *)
(* a new context does.                                                      *)
THEOREM AmbiguityIsForGood ==
  ASSUME NEW ctx, NEW rs, NEW o \in Required,
         NEW r \in Applicable(rs, o, ctx), NEW s \in Applicable(rs, o, ctx),
         r # s, r.time = None,
         NEW later, rs \subseteq later, NEW ws, NEW report, NEW c
  PROVE  ~ReadyForReview(ctx, report, later, ws, c)
<1>1. r \in Applicable(later, o, ctx) /\ s \in Applicable(later, o, ctx)
  BY DEF Applicable
<1>2. ASSUME NEW t PROVE ~IsCurrent(t, later, o, ctx)
  BY <1>1 DEF IsCurrent
<1>3. ~ObligationMet(o, later, ws, ctx)
  BY <1>2 DEF ObligationMet
<1> QED BY <1>3 DEF ReadyForReview

(* The inductive invariant: the decision the caller keeps, the human's    *)
(* approvals and the commit all stand on evidence about their own context. *)
EvidenceInv == EvidenceBound /\ DecisionBacked /\ ApprovalsBacked /\ CommitBacked

LEMMA EvidenceInvInit == Init => EvidenceInv
  BY DEF Init, EvidenceInv, EvidenceBound, DecisionBacked, ApprovalsBacked, CommitBacked

LEMMA EvidenceInvStep ==
  ASSUME TypeOK, EvidenceInv, [Next]_vars
  PROVE  EvidenceInv'
<1> USE DEF evidence, attempt, delivery
<1>0. ASSUME NEW ctx, Backed(ctx) PROVE Backed(ctx)'
  BY <1>0, EvidenceGrows, BackedIsStable
<1>1. EvidenceBound'
  <2>1. ASSUME NEW s \in CompletionStatuses, Report(s) PROVE EvidenceBound'
    BY <2>1 DEF EvidenceInv, EvidenceBound, Report
  <2>2. ASSUME \A s \in CompletionStatuses : ~Report(s) PROVE UNCHANGED reports
    BY <2>2 DEF vars, Next, EvaluateReadiness, StartValidation, StartReview,
         EnterReadyToCommit, EnterCommit, EnterPush, EnterCI, Close, Abandon, NewAttempt,
         Block, EnterFix, ChangeArtifacts, ResolveInPlace, ChangeCandidate, TaskCloses,
         RecordResult, GrantWaiver, Review, EvaluateReadyToCommit, Approve, Push, ObserveCI
  <2> QED BY <2>1, <2>2 DEF EvidenceInv, EvidenceBound
<1>2. DecisionBacked'
  <2>1. CASE EvaluateReadyToCommit
    <3>1. PICK report \in reports \cup {None}, review \in reviews, integrity \in BOOLEAN :
            readyToCommit' =
              [passed  |-> ReadyToCommit(
                             ReadyForReview(context, report, results, waivers, condition),
                             ReviewGate(review, context), integrity, condition),
               context |-> context]
      BY <2>1 DEF EvaluateReadyToCommit
    <3>2. readyToCommit'.context = context
      BY <3>1
    <3>3. readyToCommit'.passed
            => /\ ReadyForReview(context, report, results, waivers, condition)
               /\ ReviewGate(review, context)
      BY <3>1 DEF ReadyToCommit
    <3>4. readyToCommit'.passed => Backed(context)
      BY <3>3, GatesBack DEF EvidenceInv
    <3> QED BY <3>2, <3>4, <1>0 DEF DecisionBacked
  <2>2. CASE NewAttempt
    BY <2>2 DEF NewAttempt, DecisionBacked
  <2>3. ASSUME ~EvaluateReadyToCommit, ~NewAttempt PROVE UNCHANGED readyToCommit
    BY <2>3 DEF vars, Next, EvaluateReadiness, StartValidation, StartReview,
         EnterReadyToCommit, EnterCommit, EnterPush, EnterCI, Close, Abandon,
         Block, EnterFix, ChangeArtifacts, ResolveInPlace, ChangeCandidate, TaskCloses,
         Report, RecordResult, GrantWaiver, Review, Approve, Push, ObserveCI
  <2> QED BY <2>1, <2>2, <2>3, <1>0 DEF EvidenceInv, DecisionBacked
<1>3. ApprovalsBacked'
  <2>1. CASE Approve
    <3>1. readyToCommit # None /\ readyToCommit.passed /\ readyToCommit.context = context
      BY <2>1, AppliesToIsEquality
      DEF Approve, MayEnterHumanCommitGate, TypeOK, DecisionSet
    <3> QED BY <2>1, <3>1, <1>0 DEF EvidenceInv, DecisionBacked, ApprovalsBacked, Approve
  <2>2. ASSUME ~Approve PROVE UNCHANGED approvals
    BY <2>2 DEF vars, Next, EvaluateReadiness, StartValidation, StartReview,
         EnterReadyToCommit, EnterCommit, EnterPush, EnterCI, Close, Abandon, NewAttempt,
         Block, EnterFix, ChangeArtifacts, ResolveInPlace, ChangeCandidate, TaskCloses,
         Report, RecordResult, GrantWaiver, Review, EvaluateReadyToCommit, Push, ObserveCI
  <2> QED BY <2>1, <2>2, <1>0 DEF EvidenceInv, ApprovalsBacked
<1>4. CommitBacked'
  <2>1. CASE EnterCommit
    <3>1. PICK approval \in approvals \cup {None} :
            CommitAuthorized(readyToCommit.passed, readyToCommit.context, approval, context)
      BY <2>1 DEF EnterCommit
    <3>2. approval \in approvals /\ approval = context
      BY <3>1, AppliesToIsEquality DEF CommitAuthorized, TypeOK
    <3>3. commit'.context = context /\ UNCHANGED approvals
      BY <2>1 DEF EnterCommit
    <3> QED BY <3>2, <3>3, <1>0 DEF EvidenceInv, ApprovalsBacked, CommitBacked
  <2>2. ASSUME ~EnterCommit PROVE UNCHANGED commit /\ approvals \subseteq approvals'
    BY <2>2 DEF vars, Next, EvaluateReadiness, StartValidation, StartReview,
         EnterReadyToCommit, EnterPush, EnterCI, Close, Abandon, NewAttempt,
         Block, EnterFix, ChangeArtifacts, ResolveInPlace, ChangeCandidate, TaskCloses,
         Report, RecordResult, GrantWaiver, Review, EvaluateReadyToCommit, Approve, Push,
         ObserveCI
  <2> QED BY <2>2, <2>1, <1>0 DEF EvidenceInv, CommitBacked
<1> QED BY <1>1, <1>2, <1>3, <1>4 DEF EvidenceInv

(* SPEC Section 37, INV-33: only a context with all its evidence is       *)
(* approved, and only an approved one is committed.                       *)
THEOREM CommitsAreBacked == Spec => [](CommitBacked /\ ApprovalsBacked)
<1>1. TypeOK /\ EvidenceInv /\ [Next]_vars => EvidenceInv'
  BY EvidenceInvStep
<1>2. EvidenceInv => CommitBacked /\ ApprovalsBacked
  BY DEF EvidenceInv
<1> QED BY <1>1, <1>2, EvidenceInvInit, Typing, PTL DEF Spec

(* SPEC INV-33: a human approves nothing that lacks its evidence, and later *)
(* changes of the candidate, the artifacts or the attempt take none away.   *)
THEOREM ApprovalsAreBacked == Spec => []ApprovalsBacked
  BY CommitsAreBacked, PTL

-----------------------------------------------------------------------------
(* Closure *)

(* From COMMIT on the expected commit was made by this attempt. *)
DeliveryInv ==
  /\ phase \in {"COMMIT", "PUSH", "CI", "CLOSED"} =>
       commit.context.attempt = context.attempt
  /\ ClosedOnGreen

(* The phases of delivery are entered only from the one before. *)
LEMMA DeliveryOrder ==
  ASSUME NEW p \in Phases
  PROVE  /\ "PUSH" \in ValidTargets(p) => p = "COMMIT"
         /\ "CI" \in ValidTargets(p) => p = "PUSH"
         /\ "CLOSED" \in ValidTargets(p) => p = "CI"
  BY DEF ValidTargets, Forward, Phases, TerminalPhases, ArtifactReturnEligible

LEMMA DeliveryInvStep ==
  ASSUME TypeOK, DeliveryInv, [Next]_vars
  PROVE  DeliveryInv'
<1> USE DEF evidence, attempt, delivery
<1> DEFINE Delivering(p) == p \in {"COMMIT", "PUSH", "CI", "CLOSED"}
<1>1. CASE EnterCommit
  <2>1. phase' = "COMMIT"
    BY <1>1, MoveIsTransition DEF EnterCommit, Phases
  <2> QED BY <1>1, <2>1 DEF EnterCommit, DeliveryInv, ClosedOnGreen
<1>2. CASE EnterPush
  <2>1. phase = "COMMIT" /\ phase' = "PUSH"
    BY <1>2, MoveIsTransition, DeliveryOrder DEF EnterPush, Phases, TypeOK
  <2> QED BY <1>2, <2>1 DEF EnterPush, DeliveryInv, ClosedOnGreen
<1>3. CASE EnterCI
  <2>1. phase = "PUSH" /\ phase' = "CI"
    BY <1>3, MoveIsTransition, DeliveryOrder DEF EnterCI, Phases, TypeOK
  <2> QED BY <1>3, <2>1 DEF EnterCI, DeliveryInv, ClosedOnGreen
<1>4. CASE Close
  <2>1. phase = "CI" /\ phase' = "CLOSED"
    BY <1>4, MoveIsTransition DEF Close, Phases
  <2>2. commit # None /\ pushed = commit.number
    BY <1>4 DEF Close, Closable
  <2>3. PICK ci \in ciResults : ci.commit = commit.number /\ ci.status = "GREEN"
    BY <1>4 DEF Close, Closable
  <2>4. ci = [commit |-> commit.number, status |-> "GREEN"]
    BY <2>3 DEF TypeOK, CIResultSet
  <2>5. UNCHANGED <<context, commit, pushed, ciResults>>
    BY <1>4 DEF Close
  <2> QED BY <2>1, <2>2, <2>3, <2>4, <2>5 DEF DeliveryInv, ClosedOnGreen
<1>5. ASSUME NEW c \in Candidates, ChangeCandidate(c) PROVE DeliveryInv'
  BY <1>5 DEF ChangeCandidate, DeliveryInv, ClosedOnGreen, TypeOK, ContextSet, TerminalPhases
<1>6. CASE Push
  BY <1>6 DEF Push, DeliveryInv, ClosedOnGreen
<1>7. ASSUME NEW n \in 1..MaxCommits, NEW s \in CIInputs, ObserveCI(n, s)
      PROVE  DeliveryInv'
  BY <1>7 DEF ObserveCI, DeliveryInv, ClosedOnGreen
<1>8. ASSUME NEW k \in Contracts, ChangeArtifacts(k) PROVE phase' = "READINESS"
  BY <1>8, MoveIsTransition DEF ChangeArtifacts, Phases
<1>9. CASE EvaluateReadiness
  BY <1>9, MoveIsTransition DEF EvaluateReadiness, DeliveryInv, ClosedOnGreen, Phases
<1>10. CASE StartValidation \/ StartReview \/ EnterReadyToCommit \/ Abandon \/ NewAttempt
  BY <1>10, MoveIsTransition
  DEF StartValidation, StartReview, EnterReadyToCommit, Abandon, NewAttempt,
      DeliveryInv, ClosedOnGreen, Phases
<1>11. CASE EnterFix
  <2>1. phase' = "FIX"
    BY <1>11, MoveIsTransition, FixAction DEF EnterFix, Phases
  <2> QED BY <2>1 DEF DeliveryInv, ClosedOnGreen
<1>12. ASSUME NEW k \in Contracts, ChangeArtifacts(k) PROVE DeliveryInv'
  BY <1>8, <1>12 DEF DeliveryInv, ClosedOnGreen
<1>13. ASSUME UNCHANGED <<phase, context, commit, pushed, ciResults>> PROVE DeliveryInv'
  BY <1>13 DEF DeliveryInv, ClosedOnGreen
<1>14. ASSUME NEW s \in CompletionStatuses, Report(s) PROVE DeliveryInv'
  BY <1>13, <1>14 DEF Report
<1>15. ASSUME NEW o \in Obligations, NEW s \in ValidationStatuses,
              NEW t \in Times \cup {None}, RecordResult(o, s, t)
       PROVE  DeliveryInv'
  BY <1>13, <1>15 DEF RecordResult
<1>16. ASSUME NEW r \in results, NEW cause \in Classifications \cup {None},
              GrantWaiver(r, cause)
       PROVE  DeliveryInv'
  BY <1>13, <1>16 DEF GrantWaiver
<1>17. ASSUME NEW f \in FindingInputs, Review(f) PROVE DeliveryInv'
  BY <1>13, <1>17 DEF Review
<1>18. ASSUME NEW c \in Classifications, Block(c) PROVE DeliveryInv'
  BY <1>13, <1>18 DEF Block
<1>19. ASSUME NEW t \in OtherTasks, TaskCloses(t) PROVE DeliveryInv'
  BY <1>13, <1>19 DEF TaskCloses
<1>20. CASE ResolveInPlace \/ EvaluateReadyToCommit \/ Approve
  BY <1>13, <1>20 DEF ResolveInPlace, EvaluateReadyToCommit, Approve
<1>21. CASE UNCHANGED vars
  BY <1>13, <1>21 DEF vars
<1> QED
  BY <1>1, <1>2, <1>3, <1>4, <1>5, <1>6, <1>7, <1>9, <1>10, <1>11, <1>12, <1>14, <1>15,
     <1>16, <1>17, <1>18, <1>19, <1>20, <1>21 DEF Next

(* SPEC INV-18, INV-19: CLOSED means the last commit of this attempt was *)
(* pushed and is green.                                                  *)
THEOREM ClosureIsGreen == Spec => []ClosedOnGreen
<1>1. Init => DeliveryInv
  BY DEF Init, DeliveryInv, ClosedOnGreen
<1>2. TypeOK /\ DeliveryInv /\ [Next]_vars => DeliveryInv'
  BY DeliveryInvStep
<1>3. DeliveryInv => ClosedOnGreen
  BY DEF DeliveryInv
<1> QED BY <1>1, <1>2, <1>3, Typing, PTL DEF Spec

-----------------------------------------------------------------------------
(* The last run of an obligation decides *)

(* Results are numbered in the order of their executions, and with a       *)
(* monotone clock their timestamps follow that order.                      *)
OrderInv ==
  /\ \A r, s \in results : r.id = s.id => r = s
  /\ ClockIsMonotone =>
       \A r, s \in results : r.id < s.id /\ r.time # None /\ s.time # None => r.time <= s.time

LEMMA OrderInvStep ==
  ASSUME TypeOK, OrderInv, [Next]_vars
  PROVE  OrderInv'
<1>1. ASSUME NEW o \in Obligations, NEW st \in ValidationStatuses,
             NEW t \in Times \cup {None}, RecordResult(o, st, t)
      PROVE  OrderInv'
  <2>1. PICK id \in 1..MaxResults :
          /\ {r.id : r \in results} = 1..(id - 1)
          /\ results' = results \cup {[id |-> id, obligation |-> o, context |-> context,
                                      status |-> st, time |-> t]}
    BY <1>1 DEF RecordResult
  <2> DEFINE new == [id |-> id, obligation |-> o, context |-> context,
                     status |-> st, time |-> t]
  <2>2. \A r \in results : r.id \in 1..(id - 1)
    BY <2>1
  <2>3. \A r \in results : r.id < id
    BY <2>2
  <2>4. new.id = id /\ new.time = t
    OBVIOUS
  <2>5. ClockIsMonotone => \A r \in results : r.time # None /\ t # None => r.time <= t
    BY <1>1 DEF RecordResult
  <2>6. results' = results \cup {new}
    BY <2>1
  <2>7. \A r \in results : r.id \in Nat
    BY DEF TypeOK, ResultSet
  <2> HIDE DEF new
  <2>8. (\A r, s \in results : r.id = s.id => r = s)'
    BY <2>3, <2>4, <2>6, <2>7 DEF OrderInv
  <2>9. ClockIsMonotone => (\A r, s \in results :
          r.id < s.id /\ r.time # None /\ s.time # None => r.time <= s.time)'
    <3> SUFFICES ASSUME ClockIsMonotone, NEW r \in results', NEW s \in results',
                        r.id < s.id, r.time # None, s.time # None
                 PROVE  r.time <= s.time
      OBVIOUS
    <3>1. r \in results
      BY <2>3, <2>4, <2>6, <2>7
    <3> QED BY <3>1, <2>4, <2>5, <2>6 DEF OrderInv
  <2> QED BY <2>8, <2>9 DEF OrderInv
<1>2. ASSUME \A o \in Obligations, st \in ValidationStatuses, t \in Times \cup {None} :
               ~RecordResult(o, st, t)
      PROVE  UNCHANGED results
  BY <1>2 DEF vars, evidence, Next, EvaluateReadiness, StartValidation, StartReview,
       EnterReadyToCommit, EnterCommit, EnterPush, EnterCI, Close, Abandon, NewAttempt,
       Block, EnterFix, ChangeArtifacts, ResolveInPlace, ChangeCandidate, TaskCloses,
       Report, GrantWaiver, Review, EvaluateReadyToCommit, Approve, Push, ObserveCI
<1> QED BY <1>1, <1>2 DEF OrderInv

(* The current result is the last one executed. *)
LEMMA CurrentIsLast ==
  ASSUME TypeOK, OrderInv, ClockIsMonotone, NEW o \in Required,
         NEW r \in results, IsCurrent(r, results, o, context),
         NEW last \in Applicable(results, o, context),
         \A s \in Applicable(results, o, context) : s.id <= last.id
  PROVE  r = last
<1> DEFINE applicable == Applicable(results, o, context)
<1>1. r \in applicable /\ applicable \subseteq results
  BY DEF IsCurrent, Applicable
<1>2. CASE applicable = {r}
  BY <1>2
<1>3. CASE /\ \A s \in applicable : s.time # None
           /\ \A s \in applicable \ {r} : s.time < r.time
  <2> SUFFICES ASSUME r # last PROVE FALSE
    OBVIOUS
  <2>1. last.time < r.time
    BY <1>3
  <2>2. r.id <= last.id /\ r.id # last.id
    BY <1>1 DEF OrderInv
  <2>3. r.id \in Nat /\ last.id \in Nat /\ r.time \in Nat /\ last.time \in Nat
    BY <1>1, <1>3, LifecycleAssumption DEF TypeOK, ResultSet
  <2>4. r.time <= last.time
    BY <1>1, <1>3, <2>2, <2>3 DEF OrderInv
  <2> QED BY <2>1, <2>3, <2>4
<1> QED BY <1>2, <1>3 DEF IsCurrent

(* SPEC Section 22.9: with a clock that never steps back, READY_TO_COMMIT *)
(* never passes over a failure or an unwaived NOT_RUN of the last run.     *)
THEOREM NoFailureIsMasked ==
  ASSUME ClockIsMonotone
  PROVE  Spec => NoMaskedFailure
<1> DEFINE Step ==
      readyToCommit' # readyToCommit /\ readyToCommit' # None /\ readyToCommit'.passed
      => \A o \in Required : \A r \in Applicable(results, o, context) :
           (\A s \in Applicable(results, o, context) : s.id <= r.id)
           => \/ r.status = "PASSED"
              \/ r.status = "NOT_RUN" /\ \E w \in waivers : w.result = r.id
<1>1. Init => OrderInv
  BY DEF Init, OrderInv
<1>2. TypeOK /\ OrderInv /\ [Next]_vars => OrderInv'
  BY OrderInvStep
<1>3. TypeOK /\ OrderInv /\ [Next]_vars => [Step]_vars
  <2> SUFFICES ASSUME TypeOK, OrderInv, [Next]_vars,
                      readyToCommit' # readyToCommit, readyToCommit' # None,
                      readyToCommit'.passed,
                      NEW o \in Required, NEW last \in Applicable(results, o, context),
                      \A s \in Applicable(results, o, context) : s.id <= last.id
               PROVE  \/ last.status = "PASSED"
                      \/ last.status = "NOT_RUN" /\ \E w \in waivers : w.result = last.id
    OBVIOUS
  <2>1. EvaluateReadyToCommit
    BY DEF vars, Next, EvaluateReadiness, StartValidation, StartReview, attempt, evidence,
         delivery, EnterReadyToCommit, EnterCommit, EnterPush, EnterCI, Close, Abandon,
         NewAttempt, Block, EnterFix, ChangeArtifacts, ResolveInPlace, ChangeCandidate,
         TaskCloses, Report, RecordResult, GrantWaiver, Review, Approve, Push, ObserveCI
  <2>2. PICK report \in reports \cup {None}, review \in reviews, integrity \in BOOLEAN :
          readyToCommit' =
            [passed  |-> ReadyToCommit(
                           ReadyForReview(context, report, results, waivers, condition),
                           ReviewGate(review, context), integrity, condition),
             context |-> context]
    BY <2>1 DEF EvaluateReadyToCommit
  <2>3. ReadyForReview(context, report, results, waivers, condition)
    BY <2>2 DEF ReadyToCommit
  <2>4. ObligationMet(o, results, waivers, context)
    BY <2>3 DEF ReadyForReview
  <2>5. PICK r \in results :
          /\ IsCurrent(r, results, o, context)
          /\ \/ r.status = "PASSED"
             \/ /\ r.status = "NOT_RUN"
                /\ HasApplicableWaiver(waivers, o, r.id, context)
    BY <2>4 DEF ObligationMet
  <2>6. r = last
    BY <2>5, CurrentIsLast
  <2> QED BY <2>5, <2>6 DEF HasApplicableWaiver
<1>4. NoMaskedFailure <=> [][Step]_vars
  BY DEF NoMaskedFailure
<1> QED BY <1>1, <1>2, <1>3, <1>4, Typing, PTL DEF Spec

-----------------------------------------------------------------------------
(* A condition is only ever held in a phase it is coherent with. *)
Coherent == condition # None => phase \in ConditionValidPhases(condition)

(* No condition is coherent with a terminal phase: an abandoned Attempt     *)
(* carries none into the next one.                                          *)
LEMMA TerminalIsUnblocked ==
  ASSUME TypeOK, Coherent, phase \in TerminalPhases
  PROVE  condition = None
  BY DEF TypeOK, Coherent, ConditionValidPhases, ArtifactAmbiguityPhases,
     ArtifactReturnEligible, CodeOrEnvironmentPhases, TerminalPhases, Conditions

LEMMA CoherentStep ==
  ASSUME TypeOK, Coherent, [Next]_vars
  PROVE  Coherent'
<1> USE DEF evidence, attempt, delivery
<1>1. ASSUME NEW c \in Conditions, MayDerive(phase, c, None), condition' = c, UNCHANGED phase
      PROVE  Coherent'
  BY <1>1, NoneAssumption DEF Coherent, MayDerive
<1>2. ASSUME condition' = None PROVE Coherent'
  BY <1>2 DEF Coherent
<1>3. ASSUME NEW t \in Phases, Move(t), UNCHANGED condition PROVE Coherent'
  BY <1>2, <1>3, MoveIsTransition
<1>4. CASE EvaluateReadiness
  <2>1. CASE UNCHANGED phase /\ condition' # None
    <3>1. condition' \in Conditions
      BY <1>4, <2>1, RouteIsCondition
      DEF EvaluateReadiness, ReadinessCondition, Conditions, MayEvaluateReadiness
    <3>2. MayDerive(phase, condition', None)
      BY <1>4, <2>1 DEF EvaluateReadiness
    <3> QED BY <2>1, <3>1, <3>2, NoneAssumption DEF Coherent, MayDerive
  <2>2. CASE condition' = None
    BY <1>2, <2>2
  <2> QED BY <1>4, <2>1, <2>2 DEF EvaluateReadiness
<1>5. ASSUME NEW c \in Classifications, Block(c) PROVE Coherent'
  BY <1>1, <1>5, RouteIsCondition DEF Block
<1>6. CASE EnterFix
  BY <1>2, <1>3, <1>6 DEF EnterFix, Phases
<1>7. CASE StartValidation \/ StartReview \/ EnterReadyToCommit \/ EnterCommit \/ EnterPush
           \/ EnterCI \/ Close
  BY <1>3, <1>7 DEF StartValidation, StartReview, EnterReadyToCommit, EnterCommit, EnterPush,
     EnterCI, Close, Phases
<1>8. CASE Abandon \/ ResolveInPlace
  BY <1>2, <1>8 DEF Abandon, ResolveInPlace
<1>9. CASE NewAttempt
  BY <1>2, <1>9, TerminalIsUnblocked DEF NewAttempt, TerminalPhases
<1>10. ASSUME NEW k \in Contracts, ChangeArtifacts(k) PROVE Coherent'
  BY <1>2, <1>3, <1>10 DEF ChangeArtifacts, Phases
<1>11. ASSUME UNCHANGED <<phase, condition>> PROVE Coherent'
  BY <1>11 DEF Coherent
<1> QED
  BY <1>4, <1>5, <1>6, <1>7, <1>8, <1>9, <1>10, <1>11
  DEF vars, Next, ChangeCandidate, TaskCloses, Report, RecordResult, GrantWaiver, Review,
      EvaluateReadyToCommit, Approve, Push, ObserveCI

LEMMA CoherentAlways == Spec => []Coherent
<1>1. Init => Coherent
  BY DEF Init, Coherent
<1>2. TypeOK /\ Coherent /\ [Next]_vars => Coherent'
  BY CoherentStep
<1> QED BY <1>1, <1>2, Typing, PTL DEF Spec

(* PLAN Section 58: derive has an answer for every condition an Attempt      *)
(* ever holds, and where the answer is a phase, the Attempt may move there:  *)
(* FIX_REQUIRED held in VALIDATION is the only case the transition map       *)
(* leaves stranded.                                                          *)
THEOREM OnlyValidationStrands == Spec => []ConditionsLeadOn
<1>1. TypeOK /\ Coherent => ConditionsLeadOn
  <2> SUFFICES ASSUME TypeOK, Coherent, condition # None PROVE ConditionsLeadOn
    BY DEF ConditionsLeadOn
  <2>1. condition \in Conditions /\ phase \in ConditionValidPhases(condition)
    BY DEF TypeOK, Coherent
  <2>2. MayDerive(phase, condition, None)
    BY <2>1 DEF MayDerive
  <2>3. ASSUME NextAction(condition, None) \in Phases
        PROVE  condition = "FIX_REQUIRED" /\ NextAction(condition, None) = "FIX"
    BY <2>1, <2>3 DEF NextAction, ResolutionAction, Conditions, Phases
  <2>4. ASSUME condition = "FIX_REQUIRED", phase # "VALIDATION"
        PROVE  "FIX" \in ValidTargets(phase)
    BY <2>1, <2>4 DEF ConditionValidPhases, ArtifactConditions, CodeOrEnvironmentPhases,
       ArtifactReturnEligible, ValidTargets, Forward, TerminalPhases
  <2> QED BY <2>2, <2>3, <2>4 DEF ConditionsLeadOn
<1> QED BY <1>1, Typing, CoherentAlways, PTL

(* PLAN Section 58: no move bypasses a blocking condition. *)
THEOREM ConditionsBlock == Spec => NoBypass
<1> DEFINE Step ==
      condition # None =>
        phase' \in {phase, "ABANDONED"}
                    \cup {p \in {"READINESS"} : condition \in ArtifactConditions}
                    \cup {p \in {"FIX"} : condition = "FIX_REQUIRED"}
<1>1. TypeOK /\ Coherent /\ [Next]_vars => [Step]_vars
  <2> SUFFICES ASSUME TypeOK, Coherent, [Next]_vars,
                      condition # None, phase' # phase
               PROVE  Step
    OBVIOUS
  <2>0. phase # "ABANDONED"
    BY TerminalIsUnblocked DEF TerminalPhases
  <2>1. \A t \in Phases : ~Move(t)
    BY MoveIsTransition
  <2>2. \/ Abandon \/ EnterFix \/ \E k \in Contracts : ChangeArtifacts(k)
    BY <2>0, <2>1 DEF vars, Next, EvaluateReadiness, StartValidation, StartReview, attempt, evidence,
         delivery, EnterReadyToCommit, EnterCommit, EnterPush, EnterCI, Close,
         NewAttempt, Block, ResolveInPlace, ChangeCandidate, TaskCloses, Report, RecordResult,
         GrantWaiver, Review, EvaluateReadyToCommit, Approve, Push, ObserveCI, Phases
  <2>3. CASE EnterFix
    BY <2>1, <2>3, FixAction DEF EnterFix, Phases
  <2>4. ASSUME NEW k \in Contracts, ChangeArtifacts(k) PROVE Step
    BY <2>1, <2>4 DEF ChangeArtifacts, Phases
  <2> QED BY <2>2, <2>3, <2>4 DEF Abandon
<1>2. NoBypass <=> [][Step]_vars
  BY DEF NoBypass
<1> QED BY <1>1, <1>2, Typing, CoherentAlways, PTL DEF Spec

-----------------------------------------------------------------------------
(* Dependencies are closed once and for all *)

(* READINESS lets code begin only when every dependency is closed: no other *)
(* fact the caller supplies makes up for an open one.                       *)
LEMMA ReadyMeansSatisfied ==
  ASSUME NEW valid \in BOOLEAN, NEW mismatch \in BOOLEAN, NEW satisfied \in BOOLEAN,
         NEW ambiguity \in Classifications \cup {None},
         ReadinessCondition(valid, satisfied, ambiguity, mismatch) = None
  PROVE  satisfied
  BY NoneAssumption DEF ReadinessCondition, Conditions

(* READINESS is left for code, or for nothing but ABANDONED. *)
LEMMA ReadinessLeadsToCode == ValidTargets("READINESS") = {"IMPLEMENTATION", "ABANDONED"}
  BY DEF ValidTargets, Forward, TerminalPhases, ArtifactReturnEligible

LEMMA AbandonedLeadsNowhere == ValidTargets("ABANDONED") = {}
  BY DEF ValidTargets, TerminalPhases

LEMMA DependenciesFirstStep ==
  ASSUME TypeOK, DependenciesFirst, [Next]_vars
  PROVE  DependenciesFirst'
<1> USE DEF evidence, attempt, delivery, DependenciesFirst
<1>1. CASE EvaluateReadiness
  <2>1. UNCHANGED closedTasks
    BY <1>1 DEF EvaluateReadiness
  <2>2. CASE UNCHANGED phase
    BY <2>1, <2>2
  <2>3. CASE phase' # phase
    <3>1. PICK valid \in BOOLEAN, mismatch \in BOOLEAN,
               ambiguity \in Classifications \cup {None} :
            ReadinessCondition(valid, DependenciesSatisfied(Dependencies, closedTasks),
                               ambiguity, mismatch) = None
      BY <1>1, <2>3 DEF EvaluateReadiness
    <3>2. DependenciesSatisfied(Dependencies, closedTasks) \in BOOLEAN
      BY DEF DependenciesSatisfied
    <3>3. DependenciesSatisfied(Dependencies, closedTasks)
      BY <3>1, <3>2, ReadyMeansSatisfied
    <3> QED BY <2>1, <3>3 DEF DependenciesSatisfied
  <2> QED BY <2>2, <2>3
<1>2. ASSUME NEW t \in Phases \ {"IMPLEMENTATION"}, Move(t), UNCHANGED closedTasks
      PROVE  DependenciesFirst'
  BY <1>2, MoveIsTransition, ReadinessLeadsToCode, AbandonedLeadsNowhere
<1>3. CASE StartValidation \/ StartReview \/ EnterReadyToCommit \/ EnterCommit \/ EnterPush
           \/ EnterCI \/ Close
  BY <1>2, <1>3 DEF StartValidation, StartReview, EnterReadyToCommit, EnterCommit, EnterPush,
     EnterCI, Close, Phases
<1>4. CASE Abandon \/ NewAttempt
  BY <1>4 DEF Abandon, NewAttempt
<1>5. CASE EnterFix
  <2>1. CASE Move("FIX")
    BY <1>5, <1>2, <2>1 DEF EnterFix, Phases
  <2>2. CASE ~Move("FIX")
    BY <1>5, <2>2, FixAction, ReadinessLeadsToCode, AbandonedLeadsNowhere DEF EnterFix
  <2> QED BY <2>1, <2>2
<1>6. ASSUME NEW k \in Contracts, ChangeArtifacts(k) PROVE DependenciesFirst'
  BY <1>6, MoveIsTransition DEF ChangeArtifacts, Phases
<1>7. ASSUME NEW t \in OtherTasks, TaskCloses(t) PROVE DependenciesFirst'
  BY <1>7 DEF TaskCloses
<1>8. ASSUME UNCHANGED <<phase, closedTasks>> PROVE DependenciesFirst'
  BY <1>8
<1> QED
  BY <1>1, <1>3, <1>4, <1>5, <1>6, <1>7, <1>8
  DEF vars, Next, Block, ResolveInPlace, ChangeCandidate, Report, RecordResult, GrantWaiver,
      Review, EvaluateReadyToCommit, Approve, Push, ObserveCI

(* SPEC INV-24: whatever the caller claims of contract, repository and      *)
(* ambiguity, and however Attempts return to READINESS or start anew, no    *)
(* phase past READINESS is reached before every dependency is closed.       *)
THEOREM CodeWaitsForDependencies == Spec => []DependenciesFirst
<1>1. Init => DependenciesFirst
  BY DEF Init, DependenciesFirst
<1>2. TypeOK /\ DependenciesFirst /\ [Next]_vars => DependenciesFirst'
  BY DependenciesFirstStep
<1> QED BY <1>1, <1>2, Typing, PTL DEF Spec

-----------------------------------------------------------------------------
(* The pipeline *)

(* A step within the life cycle that leaves evidence, delivery and the     *)
(* attempt as they are is none of the pipeline.                            *)
LEMMA PipelineStutters ==
  ASSUME UNCHANGED <<context.attempt, closedTasks, evidence, delivery>>,
         phase' = "CLOSED" <=> phase = "CLOSED"
  PROVE  UNCHANGED Abstract!pipeline
<1>1. UNCHANGED <<reports, results, waivers, reviews, approvals, commit, pushed, ciResults>>
  BY DEF evidence, delivery
<1>2. UNCHANGED <<Proven, GreenCommits>>
  BY <1>1 DEF Proven, Backed, GreenCommits
<1>3. (phase = "CLOSED")' = (phase = "CLOSED")
  OBVIOUS
<1> QED BY <1>1, <1>2, <1>3 DEF Abstract!pipeline

(* No phase follows CLOSED. *)
LEMMA ClosedLeadsNowhere == ValidTargets("CLOSED") = {}
  BY DEF ValidTargets, TerminalPhases

(* Recording evidence takes none back. *)
LEMMA ProvenGrows ==
  ASSUME [Next]_vars
  PROVE  Proven \subseteq Proven'
<1>1. ASSUME NEW c \in Proven PROVE c \in Proven'
  <2>1. Backed(c)'
    BY <1>1, EvidenceGrows, BackedIsStable DEF Proven
  <2> QED BY <1>1, <2>1, EvidenceGrows DEF Proven
<1> QED BY <1>1

(* A context with all the evidence has a report, so it is proven. *)
LEMMA BackedIsProven ==
  ASSUME NEW ctx, Backed(ctx)
  PROVE  ctx \in Proven
  BY DEF Proven, Backed

(* What the pipeline rests on. *)
PipelineInv == TypeOK /\ EvidenceInv /\ DeliveryInv /\ DependenciesFirst

LEMMA EvidenceProves ==
  ASSUME [Next]_vars, phase \notin TerminalPhases,
         UNCHANGED <<attempt, closedTasks, approvals, delivery>>
  PROVE  Abstract!Prove
<1>1. UNCHANGED <<context, closedTasks, approvals, commit, pushed, GreenCommits, phase>>
  BY DEF attempt, delivery, GreenCommits
<1> QED BY <1>1, ProvenGrows DEF Abstract!Prove, TerminalPhases

LEMMA EnterCommitCommits ==
  ASSUME PipelineInv, EnterCommit
  PROVE  Abstract!Commit
<1> USE DEF PipelineInv, evidence, attempt, delivery
<1>1. PICK approval \in approvals \cup {None} :
        CommitAuthorized(readyToCommit.passed, readyToCommit.context, approval, context)
  BY DEF EnterCommit
<1>2. context \in approvals
  BY <1>1, AppliesToIsEquality DEF CommitAuthorized, TypeOK
<1>3. context \in Proven
  BY <1>2, BackedIsProven DEF EvidenceInv, ApprovalsBacked
<1>4. phase = "READY_TO_COMMIT" /\ phase' = "COMMIT"
  BY MoveIsTransition DEF EnterCommit, Phases, TypeOK, ValidTargets, Forward, TerminalPhases,
     ArtifactReturnEligible
<1>5. Dependencies \subseteq closedTasks
  BY <1>4 DEF DependenciesFirst
<1>6. UNCHANGED <<Proven, GreenCommits>>
  BY DEF EnterCommit, Proven, Backed, GreenCommits
<1>7. commit' = [number  |-> IF commit = None THEN 1 ELSE commit.number + 1,
                 context |-> context]
  BY DEF EnterCommit
<1>8. UNCHANGED <<context, closedTasks, approvals, pushed>>
  BY DEF EnterCommit
<1> QED BY <1>2, <1>3, <1>4, <1>5, <1>6, <1>7, <1>8 DEF Abstract!Commit

LEMMA CloseCloses ==
  ASSUME PipelineInv, Close
  PROVE  Abstract!Close
<1> USE DEF PipelineInv, evidence, attempt, delivery
<1>1. PICK verified \in BOOLEAN, mismatch \in BOOLEAN, ci \in ciResults \cup {None} :
        Closable(\E v \in reviews : ReviewGate(v, commit.context),
                 readyToCommit # None /\ readyToCommit.passed
                   /\ AppliesTo(readyToCommit.context, commit.context),
                 \E a \in approvals : AppliesTo(a, commit.context),
                 TRUE, pushed = commit.number, verified, mismatch, commit.number, ci)
  BY DEF Close
<1>2. ci \in ciResults /\ ci.commit = commit.number /\ ci.status = "GREEN"
      /\ pushed = commit.number
  BY <1>1 DEF Closable
<1>3. commit.number \in GreenCommits
  BY <1>2 DEF GreenCommits
<1>4. phase = "CI" /\ phase' = "CLOSED" /\ commit # None
  BY MoveIsTransition DEF Close, Phases
<1>5. commit.context.attempt = context.attempt
  BY <1>4 DEF DeliveryInv
<1>6. UNCHANGED <<Proven, GreenCommits>>
  BY DEF Close, Proven, Backed, GreenCommits
<1>7. UNCHANGED <<context, closedTasks, approvals, commit, pushed>>
  BY DEF Close
<1> QED BY <1>2, <1>3, <1>4, <1>5, <1>6, <1>7 DEF Abstract!Close

LEMMA ApproveApproves ==
  ASSUME PipelineInv, Approve
  PROVE  Abstract!Approve
<1> USE DEF PipelineInv, evidence, attempt, delivery
<1>1. readyToCommit # None /\ readyToCommit.passed /\ readyToCommit.context = context
  BY AppliesToIsEquality DEF Approve, MayEnterHumanCommitGate, TypeOK, DecisionSet
<1>2. context \in Proven
  BY <1>1, BackedIsProven DEF EvidenceInv, DecisionBacked
<1>3. UNCHANGED <<Proven, GreenCommits>>
  BY DEF Approve, Proven, Backed, GreenCommits
<1>4. UNCHANGED <<phase, context, closedTasks, commit, pushed>>
      /\ phase = "READY_TO_COMMIT" /\ approvals' = approvals \cup {context}
  BY DEF Approve
<1> QED BY <1>2, <1>3, <1>4 DEF Abstract!Approve

LEMMA ObserveCISucceeds ==
  ASSUME NEW n, NEW s, ObserveCI(n, s)
  PROVE  Abstract!Succeed \/ UNCHANGED Abstract!pipeline
<1> USE DEF evidence, attempt, delivery
<1>1. UNCHANGED <<phase, context, closedTasks, approvals, commit, pushed, Proven>>
      /\ phase = "CI"
  BY DEF ObserveCI, Proven, Backed
<1>2. CASE s = "GREEN"
  <2> DEFINE new == [commit |-> n, status |-> s]
  <2>1. ciResults' = ciResults \cup {new} /\ new.commit = n /\ new.status = "GREEN"
    BY <1>2 DEF ObserveCI
  <2> HIDE DEF new
  <2>2. \A g : g \in GreenCommits' <=> \E c \in ciResults' : c.status = "GREEN" /\ g = c.commit
    BY DEF GreenCommits
  <2>3. \A g : g \in GreenCommits <=> \E c \in ciResults : c.status = "GREEN" /\ g = c.commit
    BY DEF GreenCommits
  <2>4. \A g : g \in GreenCommits' <=> g \in GreenCommits \cup {n}
    BY <2>1, <2>2, <2>3
  <2>5. GreenCommits' = GreenCommits \cup {n}
    BY <2>4
  <2> QED BY <1>1, <2>5 DEF Abstract!Succeed
<1>3. CASE s # "GREEN"
  <2>1. GreenCommits' = GreenCommits
    BY <1>3 DEF ObserveCI, GreenCommits
  <2> QED BY <1>1, <2>1 DEF Abstract!pipeline
<1> QED BY <1>2, <1>3

LEMMA PipelineStep ==
  ASSUME PipelineInv, [Next]_vars
  PROVE  Abstract!Next \/ UNCHANGED Abstract!pipeline
<1> USE DEF PipelineInv
<1>1. CASE EnterCommit
  BY <1>1, EnterCommitCommits DEF Abstract!Next
<1>2. CASE Close
  BY <1>2, CloseCloses DEF Abstract!Next
<1>3. CASE Approve
  BY <1>3, ApproveApproves DEF Abstract!Next
<1>4. ASSUME NEW n \in 1..MaxCommits, NEW s \in CIInputs, ObserveCI(n, s)
      PROVE  Abstract!Next \/ UNCHANGED Abstract!pipeline
  BY <1>4, ObserveCISucceeds DEF Abstract!Next
<1>5. CASE Push
  <2>1. UNCHANGED <<Proven, GreenCommits>>
    BY <1>5 DEF Push, Proven, Backed, GreenCommits, evidence
  <2>2. phase = "PUSH" /\ commit # None /\ pushed' = commit.number
        /\ UNCHANGED <<phase, context, closedTasks, approvals, commit>>
    BY <1>5 DEF Push, attempt, evidence
  <2>3. commit.context.attempt = context.attempt
    BY <2>2 DEF DeliveryInv
  <2> QED BY <2>1, <2>2, <2>3 DEF Abstract!Publish, Abstract!Next
<1>6. CASE NewAttempt
  <2>1. UNCHANGED <<Proven, GreenCommits, closedTasks, approvals, commit, pushed>>
    BY <1>6 DEF NewAttempt, Proven, Backed, GreenCommits, evidence, delivery
  <2>2. phase # "CLOSED" /\ phase' # "CLOSED"
        /\ context'.attempt = context.attempt + 1
    BY <1>6 DEF NewAttempt, TypeOK, ContextSet
  <2> QED BY <2>1, <2>2 DEF Abstract!Restart, Abstract!Next
<1>7. ASSUME NEW t \in OtherTasks, TaskCloses(t)
      PROVE  Abstract!Next \/ UNCHANGED Abstract!pipeline
  <2>1. UNCHANGED <<Proven, GreenCommits, phase, context, approvals, commit, pushed>>
    BY <1>7 DEF TaskCloses, Proven, Backed, GreenCommits, evidence, delivery, attempt
  <2>2. closedTasks \subseteq closedTasks'
    BY <1>7 DEF TaskCloses
  <2> QED BY <2>1, <2>2 DEF Abstract!Unblock, Abstract!Next
<1>8. ASSUME NEW s \in CompletionStatuses, Report(s) PROVE Abstract!Next
  BY <1>8, EvidenceProves DEF Report, Abstract!Next, TerminalPhases, attempt, delivery
<1>9. ASSUME NEW o \in Obligations, NEW s \in ValidationStatuses,
             NEW t \in Times \cup {None}, RecordResult(o, s, t)
      PROVE  Abstract!Next
  BY <1>9, EvidenceProves DEF RecordResult, Abstract!Next, attempt, delivery
<1>10. ASSUME NEW r \in results, NEW cause \in Classifications \cup {None},
              GrantWaiver(r, cause)
       PROVE  Abstract!Next
  BY <1>10, EvidenceProves DEF GrantWaiver, Abstract!Next, attempt, delivery
<1>11. ASSUME NEW f \in FindingInputs, Review(f) PROVE Abstract!Next
  BY <1>11, EvidenceProves DEF Review, Abstract!Next, TerminalPhases, attempt, delivery
<1>12. ASSUME NEW t \in Phases \ {"CLOSED"}, Move(t),
              UNCHANGED <<context.attempt, closedTasks, evidence, delivery>>
       PROVE  UNCHANGED Abstract!pipeline
  BY <1>12, MoveIsTransition, ClosedLeadsNowhere, PipelineStutters
<1>13. CASE StartValidation \/ StartReview \/ EnterReadyToCommit \/ EnterPush \/ EnterCI
  BY <1>12, <1>13 DEF StartValidation, StartReview, EnterReadyToCommit, EnterPush, EnterCI,
     Phases
<1>14. CASE EvaluateReadiness
  <2>1. phase # "CLOSED" /\ phase' # "CLOSED"
    BY <1>14, MoveIsTransition DEF EvaluateReadiness, Phases
  <2> QED BY <1>14, <2>1, PipelineStutters DEF EvaluateReadiness
<1>15. CASE Abandon
  BY <1>15, ClosedLeadsNowhere, PipelineStutters DEF Abandon
<1>16. CASE EnterFix
  <2>1. phase # "CLOSED" /\ phase' # "CLOSED"
    BY <1>16, MoveIsTransition, ClosedLeadsNowhere, FixAction DEF EnterFix, Phases
  <2> QED BY <1>16, <2>1, PipelineStutters DEF EnterFix
<1>17. ASSUME NEW k \in Contracts, ChangeArtifacts(k) PROVE UNCHANGED Abstract!pipeline
  <2>1. phase # "CLOSED" /\ phase' # "CLOSED"
    BY <1>17, MoveIsTransition, ClosedLeadsNowhere
    DEF ChangeArtifacts, Phases, ArtifactAmbiguityPhases, ArtifactReturnEligible
  <2>2. context'.attempt = context.attempt
    BY <1>17 DEF ChangeArtifacts, TypeOK, ContextSet
  <2> QED BY <1>17, <2>1, <2>2, PipelineStutters DEF ChangeArtifacts
<1>18. ASSUME NEW c \in Candidates, ChangeCandidate(c) PROVE UNCHANGED Abstract!pipeline
  <2>1. context'.attempt = context.attempt
    BY <1>18 DEF ChangeCandidate, TypeOK, ContextSet
  <2> QED BY <1>18, <2>1, PipelineStutters DEF ChangeCandidate
<1>19. ASSUME UNCHANGED <<phase, context, closedTasks, evidence, delivery>>
       PROVE  UNCHANGED Abstract!pipeline
  BY <1>19, PipelineStutters
<1>20. ASSUME NEW c \in Classifications, Block(c) PROVE UNCHANGED Abstract!pipeline
  BY <1>20, <1>19 DEF Block
<1>21. CASE ResolveInPlace \/ EvaluateReadyToCommit
  BY <1>21, <1>19 DEF ResolveInPlace, EvaluateReadyToCommit, attempt
<1>22. CASE UNCHANGED vars
  BY <1>22, <1>19 DEF vars, attempt
<1> QED
  BY <1>1, <1>2, <1>3, <1>4, <1>5, <1>6, <1>7, <1>8, <1>9, <1>10, <1>11, <1>13, <1>14,
     <1>15, <1>16, <1>17, <1>18, <1>20, <1>21, <1>22 DEF Next

(* SPEC Sections 34 to 46: phases, conditions, kept decisions and the many  *)
(* pieces of evidence implement the pipeline of proof, approval, commit,    *)
(* push, green CI and closure.                                              *)
THEOREM LifecycleImplementsPipeline == Spec => ImplementsPipeline
<1>1. Init => Abstract!Init
  <2> SUFFICES ASSUME Init PROVE Abstract!Init
    OBVIOUS
  <2>1. Proven = {} /\ GreenCommits = {}
    BY DEF Init, Proven, GreenCommits
  <2> QED BY <2>1 DEF Init, Abstract!Init
<1>2. PipelineInv /\ [Next]_vars => [Abstract!Next]_(Abstract!pipeline)
  BY PipelineStep
<1>3. Init => EvidenceInv /\ DeliveryInv /\ DependenciesFirst
  BY EvidenceInvInit DEF Init, DeliveryInv, ClosedOnGreen, DependenciesFirst
<1>4. TypeOK /\ EvidenceInv /\ [Next]_vars => EvidenceInv'
  BY EvidenceInvStep
<1>5. TypeOK /\ DeliveryInv /\ [Next]_vars => DeliveryInv'
  BY DeliveryInvStep
<1>6. TypeOK /\ DependenciesFirst /\ [Next]_vars => DependenciesFirst'
  BY DependenciesFirstStep
<1>7. PipelineInv <=> TypeOK /\ EvidenceInv /\ DeliveryInv /\ DependenciesFirst
  BY DEF PipelineInv
<1> QED
  BY <1>1, <1>2, <1>3, <1>4, <1>5, <1>6, <1>7, Typing, PTL
  DEF Spec, ImplementsPipeline, Abstract!Spec

=============================================================================
