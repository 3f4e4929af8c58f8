---------------------------- MODULE AgentRunProofs ----------------------------
(***************************************************************************)
(* What an agent's answer is evidence of, for any agents, candidates and   *)
(* outcomes.                                                               *)
(***************************************************************************)
EXTENDS AgentRun, TLAPS

(* The request is about the candidate it saw, if about any. *)
AskedOfSeen == request # None => request.context \in {seen, None}

(* The answer is about the candidate its request saw, if about any.        *)
AnswerInv ==
  answer # None =>
    /\ answer.request.context \in {answer.seen, None}
    /\ answer.left \in Candidates
    /\ answer.result.report # None =>
         /\ answer.result.status = "succeeded"
         /\ HookAccepts(answer.request, answer.result.report)
         /\ answer.result.report \in Reports

AgentInv == TypeOK /\ AskedOfSeen /\ AnswerInv

(* A result is the answer to its request, or carries nothing.              *)
LEMMA AnsweredProperties ==
  ASSUME NEW req \in Requests, NEW outcome \in Outcomes, NEW result \in Answered(req, outcome)
  PROVE  /\ result \in Results
         /\ result.report # None =>
              /\ result.status = "succeeded"
              /\ HookAccepts(req, result.report) /\ result.report \in Reports
<1>1. CASE outcome.status # "succeeded"
  <2>1. result = Unsuccessful(req, outcome.status)
    BY <1>1 DEF Answered
  <2> QED BY <2>1 DEF Unsuccessful, Results, Requests, Outcomes
<1>2. CASE outcome.status = "succeeded"
  <2>1. PICK report \in {r \in {outcome.report} \ {None} : HookAccepts(req, r)} :
          result = Successful(req, report)
    BY <1>2 DEF Answered
  <2>2. report \in Reports /\ HookAccepts(req, report)
    BY <2>1 DEF Outcomes
  <2>3. report.type \in ReportTypes
    BY <2>2 DEF Reports
  <2>4. req.role \in Roles /\ req.context \in Contexts /\ "succeeded" \in ExecutionStatuses
    BY DEF Requests, ExecutionStatuses
  <2>5. result = [role |-> req.role, context |-> req.context, status |-> "succeeded",
                  type |-> report.type, report |-> report]
    BY <2>1 DEF Successful
  <2> QED BY <2>2, <2>3, <2>4, <2>5 DEF Results
<1> QED BY <1>1, <1>2

LEMMA AgentInvariant == Spec => []AgentInv
<1> USE AgentAssumption
<1>1. Init => AgentInv
  BY DEF Init, AgentInv, TypeOK, AskedOfSeen, AnswerInv
<1>2. AgentInv /\ [Next]_vars => AgentInv'
  <2> SUFFICES ASSUME AgentInv, [Next]_vars PROVE AgentInv'
    OBVIOUS
  <2>1. ASSUME NEW req \in Requests, Ask(req) PROVE AgentInv'
    BY <2>1 DEF Ask, AgentInv, TypeOK, AskedOfSeen, AnswerInv
  <2>2. ASSUME NEW c \in Candidates, Edit(c) PROVE AgentInv'
    BY <2>2 DEF Edit, AgentInv, TypeOK, AskedOfSeen, AnswerInv
  <2>3. ASSUME NEW outcome \in Outcomes, Answer(outcome) PROVE AgentInv'
    <3>1. request \in Requests /\ candidate \in Candidates /\ seen \in Candidates
      BY <2>3 DEF Answer, AgentInv, TypeOK
    <3>2. PICK result \in Answered(request, outcome) :
            answer' = [request |-> request, seen |-> seen, left |-> candidate, result |-> result]
      BY <2>3 DEF Answer
    <3>3. /\ result \in Results
          /\ result.report # None =>
               /\ result.status = "succeeded"
               /\ HookAccepts(request, result.report) /\ result.report \in Reports
      BY <3>1, AnsweredProperties
    <3>4. answer' \in Answers
      BY <3>1, <3>2, <3>3 DEF Answers
    <3>5. request.context \in {seen, None}
      BY <2>3 DEF Answer, AgentInv, AskedOfSeen
    <3>6. /\ answer'.request = request /\ answer'.seen = seen /\ answer'.left = candidate
          /\ answer'.result = result
      BY <3>2
    <3>7. AnswerInv'
      BY <3>1, <3>3, <3>5, <3>6 DEF AnswerInv, HookAccepts
    <3> QED BY <2>3, <3>4, <3>7 DEF Answer, AgentInv, TypeOK, AskedOfSeen
  <2>4. CASE Fails
    BY <2>4 DEF Fails, AgentInv, TypeOK, AskedOfSeen, AnswerInv
  <2>5. CASE UNCHANGED vars
    BY <2>5 DEF vars, AgentInv, TypeOK, AskedOfSeen, AnswerInv
  <2> QED BY <2>1, <2>2, <2>3, <2>4, <2>5 DEF Next
<1> QED BY <1>1, <1>2, PTL DEF Spec

(* Type correctness: a result of one of the five statuses, and a report    *)
(* well formed, whatever was sent.                                         *)
THEOREM Typing == Spec => []TypeOK
  BY AgentInvariant, PTL DEF AgentInv

(* ports/agents.py lines 22-28: evidence is what was asked for, about what *)
(* was asked and by whom.                                                  *)
THEOREM EvidenceFits == Spec => []EvidenceFitsRequest
<1>1. AgentInv => EvidenceFitsRequest
  <2> SUFFICES ASSUME AgentInv, Evidence(answer) PROVE EvidenceFitsRequest
    BY DEF EvidenceFitsRequest
  <2> DEFINE report == answer.result.report
  <2>1. /\ answer.result.status = "succeeded"
        /\ HookAccepts(answer.request, report) /\ report \in Reports
    BY DEF Evidence, AgentInv, AnswerInv
  <2>2. report.role \in {answer.request.role, None}
    <3>1. CASE report.type = "implementation_report"
      BY <2>1, <3>1 DEF HookAccepts
    <3>2. CASE report.type # "implementation_report"
      BY <2>1, <3>2 DEF Reports
    <3> QED BY <3>1, <3>2
  <2> QED BY <2>1, <2>2 DEF EvidenceFitsRequest, HookAccepts
<1> QED BY <1>1, AgentInvariant, PTL

(* PLAN Sections 20 and 90A: a report of the candidate it leaves is        *)
(* evidence only if that was the candidate it was asked about.             *)
THEOREM HonestWorkIsOld == Spec => []HonestWorkNeedsNoChange
<1>1. AgentInv => HonestWorkNeedsNoChange
  BY AgentAssumption DEF AgentInv, AnswerInv, HonestWorkNeedsNoChange, Evidence, HookAccepts
<1> QED BY <1>1, AgentInvariant, PTL

=============================================================================
