------------------------------- MODULE AgentRun -------------------------------
(***************************************************************************)
(* domain/models/agent.py and adapters/agents/fake.py: the orchestrator    *)
(* asks an agent for a report about the candidate it sees, the agent (or   *)
(* an editor) changes the worktree meanwhile, and what comes back passes   *)
(* two checks before it is evidence: the hook                              *)
(* build_successful_agent_result, which sees the request, and the          *)
(* validator of AgentResult, which does not.  A context stands for its     *)
(* candidate: the other fields of EvidenceContext act with it in           *)
(* applies_to, which is equality.                                          *)
(***************************************************************************)
CONSTANTS
  Roles,            \* AgentRole
  Candidates,
  None

ReportTypes       == {"readiness_report", "implementation_report", "review_report"}
ExecutionStatuses == {"succeeded", "failed", "timeout", "provider_error", "malformed_output"}
Contexts          == Candidates \cup {None}

(* Only an ImplementationReport names a role, and it and a ReviewReport    *)
(* are bound to a candidate.                                               *)
Reports ==
  {r \in [type : ReportTypes, context : Contexts, role : Roles \cup {None}] :
     /\ r.type \in {"implementation_report", "review_report"} => r.context # None
     /\ r.role # None <=> r.type = "implementation_report"}

Requests == [role : Roles, context : Contexts, expected : ReportTypes]

Results ==
  [role : Roles, context : Contexts, status : ExecutionStatuses,
   type : ReportTypes \cup {None}, report : Reports \cup {None}]

(* What a scripted or a real agent ends with. *)
Outcomes == [status : ExecutionStatuses, report : Reports \cup {None}]

Answers == [request : Requests, seen : Candidates, left : Candidates, result : Results]

ASSUME AgentAssumption ==
  /\ None \notin Roles \cup Candidates \cup ReportTypes
  /\ None \notin Reports \cup Requests \cup Results \cup Answers

VARIABLES
  candidate,        \* what is in the worktree
  request,          \* the AgentRequest being run, or None
  seen,             \* the candidate when it was made
  answer            \* the last AgentResult, with what it answers, or None

vars == <<candidate, request, seen, answer>>

TypeOK ==
  /\ candidate \in Candidates
  /\ request \in Requests \cup {None}
  /\ seen \in Candidates
  /\ answer \in Answers \cup {None}

Init ==
  /\ candidate \in Candidates
  /\ request = None
  /\ seen = candidate
  /\ answer = None

-----------------------------------------------------------------------------
(* The validator of AgentResult. *)
Valid(result) ==
  IF result.status = "succeeded"
  THEN /\ result.report # None
       /\ result.report.context = result.context
       /\ result.type = result.report.type
       /\ result.type = "implementation_report" => result.report.role = result.role
  ELSE result.report = None /\ result.type = None

(* Mutant: the type is left to the validator, which does not know the      *)
(* request.                                                                *)
HookAcceptsAnyType(req, report) ==
  /\ report.context = req.context
  /\ report.type = "implementation_report" => report.role = req.role

(* The checks of build_successful_agent_result. *)
HookAccepts(req, report) ==
  /\ report.type = req.expected
  /\ report.context = req.context
  /\ report.type = "implementation_report" => report.role = req.role

Successful(req, report) ==
  [role |-> req.role, context |-> req.context, status |-> "succeeded",
   type |-> report.type, report |-> report]

(* Mutant: a status of its own for what was cancelled. *)
UnsuccessfulCancelled(req, status) ==
  [role |-> req.role, context |-> req.context, status |-> "cancelled",
   type |-> None, report |-> None]

(* The report of an execution that did not succeed is not even looked at.  *)
Unsuccessful(req, status) ==
  [role |-> req.role, context |-> req.context, status |-> status,
   type |-> None, report |-> None]

(* Mutant: an adapter that builds the result itself, from the report.      *)
AnsweredUnhooked(req, outcome) ==
  {result \in
     IF outcome.status # "succeeded" THEN {Unsuccessful(req, outcome.status)}
     ELSE {Successful([req EXCEPT !.context = report.context], report) :
             report \in {outcome.report} \ {None}} :
     Valid(result)}

(* FakeAgentRunner.run: the AgentResult it returns, if it returns one.     *)
Answered(req, outcome) ==
  {result \in
     IF outcome.status # "succeeded" THEN {Unsuccessful(req, outcome.status)}
     ELSE {Successful(req, report) :
             report \in {r \in {outcome.report} \ {None} : HookAccepts(req, r)}} :
     Valid(result)}

-----------------------------------------------------------------------------
(* The caller computes the context from the worktree, or has none yet.     *)
Ask(req) ==
  /\ request = None
  /\ req.context \in {candidate, None}
  /\ request' = req
  /\ seen' = candidate
  /\ UNCHANGED <<candidate, answer>>

(* The agent, an editor, or an agent whose orchestrator is dead. *)
Edit(c) ==
  /\ c # candidate
  /\ candidate' = c
  /\ UNCHANGED <<request, seen, answer>>

Answer(outcome) ==
  /\ request # None
  /\ request' = None
  /\ \E result \in Answered(request, outcome) :
       answer' = [request |-> request, seen |-> seen, left |-> candidate, result |-> result]
  /\ UNCHANGED <<candidate, seen>>

(* run raises, or the orchestrator dies. *)
Fails ==
  /\ request # None
  /\ request' = None
  /\ UNCHANGED <<candidate, seen, answer>>

Next ==
  \/ \E req \in Requests : Ask(req)
  \/ \E c \in Candidates : Edit(c)
  \/ \E outcome \in Outcomes : Answer(outcome)
  \/ Fails

Spec == Init /\ [][Next]_vars

-----------------------------------------------------------------------------
(* Properties *)

Evidence(a) == a # None /\ a.result.report # None

(* ports/agents.py lines 22-28: whatever an agent sends, a result carries  *)
(* evidence only if it succeeded, and then what was asked for, about what  *)
(* was asked and by whom, though the result itself forgets the question.   *)
EvidenceFitsRequest ==
  Evidence(answer) =>
    /\ answer.result.status = "succeeded"
    /\ answer.result.report.type = answer.request.expected
    /\ answer.result.report.context = answer.request.context
    /\ answer.result.report.role \in {answer.request.role, None}

(* PLAN Sections 20 and 90A: a report that names the candidate the agent   *)
(* left behind is evidence only if that is the candidate it was asked      *)
(* about.  So an implementer that changes anything and tells the truth     *)
(* answers nothing: its work needs a second request.                       *)
HonestWorkNeedsNoChange ==
  Evidence(answer) /\ answer.result.report.context = answer.left
    => answer.seen = answer.left

=============================================================================
