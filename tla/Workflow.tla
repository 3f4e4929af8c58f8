------------------------------ MODULE Workflow ------------------------------
(***************************************************************************)
(* The phase machine of one Attempt: the structural transition map         *)
(* (domain/workflow/transitions.py), the routing of classified problems    *)
(* (domain/routing/classification.py), the derivation of the next          *)
(* authorized action (domain/workflow/next_action.py) and the READINESS    *)
(* decision (domain/policies/readiness.py).  The code of these modules is  *)
(* pure, and so are the operators below.  Where the code raises            *)
(* WorkflowViolation, the operator that guards the call is FALSE.          *)
(***************************************************************************)

CONSTANT None       \* Python's None

Phases == {"READINESS", "IMPLEMENTATION", "VALIDATION", "REVIEW", "FIX",
           "RE_REVIEW", "READY_TO_COMMIT", "COMMIT", "PUSH", "CI",
           "CLOSED", "ABANDONED"}

Conditions == {"SPEC_REQUIRED", "PLAN_REQUIRED", "TASKS_REQUIRED",
               "FIX_REQUIRED", "ENVIRONMENT_BLOCKED", "REPOSITORY_MISMATCH",
               "TASK_DEPENDENCY_UNSATISFIED"}

Classifications == {"PRODUCT", "ARCHITECTURE", "TASKS", "CODE",
                    "ENVIRONMENT", "REPOSITORY_MISMATCH"}

(* None is a value of its own, as it is in Python. *)
ASSUME NoneAssumption == None \notin Phases \cup Conditions \cup Classifications

-----------------------------------------------------------------------------
(* Transitions *)

TerminalPhases == {"CLOSED", "ABANDONED"}

Forward(phase) ==
  CASE phase = "READINESS"       -> {"IMPLEMENTATION"}
    [] phase = "IMPLEMENTATION"  -> {"VALIDATION"}
    [] phase = "VALIDATION"      -> {"REVIEW", "RE_REVIEW"}
    [] phase = "REVIEW"          -> {"FIX", "READY_TO_COMMIT"}
    [] phase = "FIX"             -> {"VALIDATION"}
    [] phase = "RE_REVIEW"       -> {"FIX", "READY_TO_COMMIT"}
    [] phase = "READY_TO_COMMIT" -> {"COMMIT", "FIX"}
    [] phase = "COMMIT"          -> {"PUSH"}
    [] phase = "PUSH"            -> {"CI"}
    [] phase = "CI"              -> {"CLOSED", "FIX"}
    [] OTHER                     -> {}

ArtifactReturnEligible == {"IMPLEMENTATION", "VALIDATION", "REVIEW",
                           "RE_REVIEW", "READY_TO_COMMIT", "CI"}

(* valid_targets: a terminal phase has no way out, every other phase may   *)
(* be abandoned, and an artifact change returns to READINESS.              *)
ValidTargets(phase) ==
  IF phase \in TerminalPhases THEN {}
  ELSE Forward(phase) \cup {"ABANDONED"}
         \cup {p \in {"READINESS"} : phase \in ArtifactReturnEligible}

-----------------------------------------------------------------------------
(* Routing *)

Route(classification) ==
  CASE classification = "PRODUCT"      -> "SPEC_REQUIRED"
    [] classification = "ARCHITECTURE" -> "PLAN_REQUIRED"
    [] classification = "TASKS"        -> "TASKS_REQUIRED"
    [] classification = "CODE"         -> "FIX_REQUIRED"
    [] classification = "ENVIRONMENT"  -> "ENVIRONMENT_BLOCKED"
    [] OTHER                           -> "REPOSITORY_MISMATCH"

ArtifactConditions == {"SPEC_REQUIRED", "PLAN_REQUIRED", "TASKS_REQUIRED"}

-----------------------------------------------------------------------------
(* The next authorized action *)

ArtifactAmbiguityPhases == {"READINESS"} \cup ArtifactReturnEligible

CodeOrEnvironmentPhases == ArtifactReturnEligible \ {"IMPLEMENTATION"}

ConditionValidPhases(condition) ==
  CASE condition \in ArtifactConditions            -> ArtifactAmbiguityPhases
    [] condition = "TASK_DEPENDENCY_UNSATISFIED"   -> {"READINESS"}
    [] condition \in {"FIX_REQUIRED", "ENVIRONMENT_BLOCKED"}
                                                   -> CodeOrEnvironmentPhases
    [] OTHER                                       -> Phases \ TerminalPhases

ResolutionAction(condition) ==
  CASE condition = "SPEC_REQUIRED"               -> "RESOLVE_SPEC"
    [] condition = "PLAN_REQUIRED"               -> "RESOLVE_PLAN"
    [] condition = "TASKS_REQUIRED"              -> "RESOLVE_TASKS"
    [] condition = "ENVIRONMENT_BLOCKED"         -> "RESOLVE_ENVIRONMENT"
    [] condition = "REPOSITORY_MISMATCH"         -> "RESOLVE_REPOSITORY_MISMATCH"
    [] condition = "TASK_DEPENDENCY_UNSATISFIED" -> "RESOLVE_DEPENDENCY"
    [] OTHER                                     -> "FIX"

(* Mutant: a blocking condition no longer excludes a proposed target. *)
MayDeriveDespiteCondition(phase, condition, target) ==
  IF target = None THEN condition # None /\ phase \in ConditionValidPhases(condition)
                   ELSE target \in ValidTargets(phase)

(* Mutant: a blocking condition is not compared with the phase. *)
MayDeriveAnywhere(phase, condition, target) ==
  IF condition # None THEN target = None ELSE target \in ValidTargets(phase)

(* derive raises exactly when this is FALSE: a blocking condition excludes *)
(* a target and must be coherent with the phase; without one a target is   *)
(* mandatory and must be a structurally valid transition.                  *)
MayDerive(phase, condition, target) ==
  \/ /\ condition # None
     /\ target = None
     /\ phase \in ConditionValidPhases(condition)
  \/ /\ condition = None
     /\ target \in ValidTargets(phase)

NextAction(condition, target) ==
  IF condition # None THEN ResolutionAction(condition) ELSE target

-----------------------------------------------------------------------------
(* READINESS *)

(* Mutant: one closed TASK is enough. *)
AnyTaskClosed(dependencies, closed) == dependencies = {} \/ closed # {}

DependenciesSatisfied(dependencies, closed) == dependencies \subseteq closed

AmbiguityClassifications == {"PRODUCT", "ARCHITECTURE", "TASKS"}

(* ReadinessPolicy.evaluate returns; otherwise it raises. *)
MayEvaluateReadiness(contractValid, satisfied, ambiguity, mismatch) ==
  \/ mismatch \/ ~contractValid \/ ~satisfied
  \/ ambiguity \in AmbiguityClassifications \cup {None}

(* Mutant: the ambiguity is taken for a condition without being routed. *)
ReadinessConditionUnrouted(contractValid, satisfied, ambiguity, mismatch) ==
  CASE mismatch                       -> "REPOSITORY_MISMATCH"
    [] ~mismatch /\ ~contractValid    -> "TASKS_REQUIRED"
    [] ~mismatch /\ contractValid     ->
         IF satisfied THEN ambiguity ELSE "TASK_DEPENDENCY_UNSATISFIED"

(* The condition of the decision, None when the TASK is ready for code. *)
ReadinessCondition(contractValid, satisfied, ambiguity, mismatch) ==
  CASE mismatch                                          -> "REPOSITORY_MISMATCH"
    [] ~mismatch /\ ~contractValid                       -> "TASKS_REQUIRED"
    [] ~mismatch /\ contractValid /\ ~satisfied          -> "TASK_DEPENDENCY_UNSATISFIED"
    [] ~mismatch /\ contractValid /\ satisfied
         /\ ambiguity # None                             -> Route(ambiguity)
    [] OTHER                                             -> None

=============================================================================
