------------------------- MODULE ValidationRunProofs -------------------------
(***************************************************************************)
(* The classification, the evidence and the secrecy of the validation      *)
(* runner, for any number of processes, commands, result ids and calls,    *)
(* whatever the commands do and whoever dies.                              *)
(***************************************************************************)
EXTENDS ValidationRun, TLAPS

(* No file is of the call. *)
Unfiled(r) == \A id \in Ids : temp[id] # r /\ evidence[id] # r

(* What is known of a call: before it is made nothing runs, until it comes  *)
(* to a status nothing tells of it, its status fits its child, which no     *)
(* longer runs, and what was filed or returned of it is clean.              *)
CallInv ==
  \A r \in Runs :
    /\ r > last => answer[r] = None /\ child[r] = "none"
    /\ answer[r] = None => r \notin returned /\ Unfiled(r)
                           /\ \A id \in Ids : reports[id] # r
    /\ child[r] = "running" => answer[r] = None
    /\ answer[r] = "PASSED" => child[r] = "zero" /\ r \notin offspring
    /\ answer[r] = "FAILED" => child[r] = "nonzero" /\ r \notin offspring
    /\ ~Unfiled(r) => ~Tainted(r)
    /\ r \in returned => ~SecretReference(r)

(* What is known where a process is: it has the lock, so nobody else files  *)
(* or records anything, and its call, the last one made, is not recorded.   *)
Place(p) ==
  /\ holder = p
  /\ run[p] = last /\ last >= 1
  /\ request[run[p]] \in RequestSet /\ request[run[p]].process = p
  /\ \A id \in Ids : reports[id] # run[p]
  /\ pc[p] = "begun" => child[run[p]] = "none"
  /\ pc[p] \in {"begun", "waiting"} => answer[run[p]] = None /\ Unfiled(run[p])
  /\ pc[p] \notin {"begun", "waiting"} => answer[run[p]] # None
  /\ pc[p] \in {"writing", "synced"} => ~Tainted(run[p])
  /\ pc[p] = "synced" => temp[request[run[p]].id] = run[p]
  /\ pc[p] = "evidenced" \/ (pc[p] = "returned" /\ p \in WithEvidence)
       => evidence[request[run[p]].id] = run[p]

PlaceInv == \A p \in Processes : pc[p] # "idle" => Place(p)

RunnerInv == TypeOK /\ CallInv /\ PlaceInv /\ RecordedEvidence

-----------------------------------------------------------------------------
(* A call that ends without a result, or whose result is dropped.          *)
Stops(p) ==
  /\ pc[p] # "idle" /\ pc' = [pc EXCEPT ![p] = "idle"]
  /\ UNCHANGED <<holder, run, last, request, child, offspring, leaky, answer, returned,
                 temp, evidence, reports>>

LEMMA CallsStop ==
  ASSUME NEW p, Discard(p) \/ SplitFails(p) \/ SpawnFails(p) \/ DecodeFails(p)
                \/ RefuseEvidence(p) \/ EvidenceFails(p) \/ RefuseResult(p)
  PROVE  Stops(p)
<1> USE DEF Stops, Goto, commandVars, fileVars
<1>1. CASE Discard(p)        BY <1>1 DEF Discard
<1>2. CASE SpawnFails(p)     BY <1>2 DEF SpawnFails
<1>3. CASE DecodeFails(p)    BY <1>3 DEF DecodeFails
<1>4. CASE RefuseEvidence(p) BY <1>4 DEF RefuseEvidence
<1>5. CASE EvidenceFails(p)  BY <1>5 DEF EvidenceFails
<1>6. CASE RefuseResult(p)   BY <1>6 DEF RefuseResult, Built
<1>7. CASE SplitFails(p)     BY <1>7 DEF SplitFails
<1> QED BY <1>1, <1>2, <1>3, <1>4, <1>5, <1>6, <1>7

(* Types *)

LEMMA RunTyping ==
  ASSUME RunnerInv, NEW p \in Processes, pc[p] # "idle"
  PROVE  /\ run[p] \in Runs /\ run[p] \in Nat
         /\ request[run[p]] \in RequestSet /\ request[run[p]].id \in Ids
  BY ValidationAssumption DEF RunnerInv, PlaceInv, Place, TypeOK, Runs, RequestSet

LEMMA TypeStep ==
  ASSUME RunnerInv, [Next]_vars
  PROVE  TypeOK'
<1> USE ValidationAssumption DEF RunnerInv, TypeOK, Goto, Stages, Runs
<1>1. ASSUME NEW p \in Processes, Acquire(p) \/ Release(p) \/ Die(p)
      PROVE  TypeOK'
  BY <1>1 DEF Acquire, Release, Die, Lock!Take, Lock!GiveUp, commandVars, fileVars
<1>2. ASSUME NEW p \in Processes, NEW id \in Ids, NEW command \in Commands, Begin(p, id, command)
      PROVE  TypeOK'
  <2>1. [process |-> p, id |-> id, command |-> command] \in RequestSet
    BY DEF RequestSet
  <2>2. last + 1 \in 1..MaxRuns
    BY <1>2 DEF Begin
  <2> QED BY <1>2, <2>1, <2>2 DEF Begin, commandVars, fileVars
<1>3. ASSUME NEW p \in Processes, Record(p) PROVE TypeOK'
  BY <1>3, RunTyping DEF Record, commandVars
<1>4. ASSUME NEW p \in Processes, Stops(p) PROVE TypeOK'
  BY <1>4 DEF Stops
<1>5. ASSUME NEW p \in Processes, Spawn(p) PROVE TypeOK'
  <2>1. child' \in [Runs -> {"none", "running", "zero", "nonzero", "killed"}]
    BY <1>5 DEF Spawn
  <2>2. pc' \in [Processes -> Stages]
    BY <1>5 DEF Spawn
  <2> QED BY <1>5, <2>1, <2>2 DEF Spawn, fileVars
<1>6. ASSUME NEW p \in Processes, NotFound(p) PROVE TypeOK'
  BY <1>6, RunTyping DEF NotFound, Answer, Statuses, commandVars, fileVars
<1>7. ASSUME NEW p \in Processes, Communicate(p) \/ Timeout(p) PROVE TypeOK'
  <2>1. run[p] \in Runs
    BY <1>7, RunTyping DEF Communicate, Timeout
  <2>2. leaky' \subseteq Runs
    <3>1. Capture(run[p])
      BY <1>7 DEF Communicate, Timeout
    <3> QED BY <2>1, <3>1 DEF Capture
  <2>3. answer' \in [Runs -> Statuses \cup {None}]
    BY <1>7, <2>1 DEF Communicate, Timeout, Answer, Statuses
  <2>4. child' \in [Runs -> {"none", "running", "zero", "nonzero", "killed"}]
    <3>1. CASE Communicate(p)
      BY <3>1 DEF Communicate, commandVars
    <3>2. CASE Timeout(p)
      <4>1. child' = [child EXCEPT ![run[p]] = IF child[run[p]] = "running" THEN "killed" ELSE child[run[p]]]
        BY <3>2 DEF Timeout
      <4> QED BY <2>1, <4>1
    <3> QED BY <1>7, <3>1, <3>2
  <2>5. pc' \in [Processes -> Stages]
    BY <1>7 DEF Communicate, Timeout
  <2> QED BY <1>7, <2>2, <2>3, <2>4, <2>5 DEF Communicate, Timeout, commandVars, fileVars
<1>8. ASSUME NEW p \in Processes, OpenEvidence(p) \/ SyncEvidence(p) \/ PublishEvidence(p)
      PROVE  TypeOK'
  <2>1. run[p] \in Runs /\ request[run[p]].id \in Ids
    BY <1>8, RunTyping DEF OpenEvidence, SyncEvidence, PublishEvidence
  <2>2. temp' \in Files /\ evidence' \in Files
    BY <1>8, <2>1 DEF OpenEvidence, SyncEvidence, PublishEvidence, Files
  <2>3. pc' \in [Processes -> Stages]
    BY <1>8 DEF OpenEvidence, SyncEvidence, PublishEvidence
  <2> QED BY <1>8, <2>2, <2>3 DEF OpenEvidence, SyncEvidence, PublishEvidence, commandVars
<1>9. ASSUME NEW p \in Processes, Return(p) PROVE TypeOK'
  <2>1. run[p] \in Runs
    BY <1>9, RunTyping DEF Return, Built
  <2> QED BY <1>9, <2>1 DEF Return, commandVars, fileVars
<1>10. ASSUME NEW r \in Runs, Command(r) PROVE TypeOK'
  <2>1. ASSUME NEW fate \in {"zero", "nonzero"}, Exit(r, fate) PROVE TypeOK'
    <3>1. child' \in [Runs -> {"none", "running", "zero", "nonzero", "killed"}]
      BY <2>1 DEF Exit
    <3> QED BY <2>1, <3>1 DEF Exit, fileVars
  <2>2. CASE Fork(r) \/ End(r)
    BY <2>2 DEF Fork, End, fileVars
  <2> QED BY <1>10, <2>1, <2>2 DEF Command
<1>11. CASE UNCHANGED vars
  BY <1>11 DEF vars, commandVars, fileVars
<1> QED BY <1>1, <1>2, <1>3, <1>4, <1>5, <1>6, <1>7, <1>8, <1>9, <1>10, <1>11, CallsStop
        DEF Next, Step, Caller

-----------------------------------------------------------------------------
(* Calls *)

LEMMA CallStep ==
  ASSUME RunnerInv, [Next]_vars
  PROVE  CallInv'
<1> USE ValidationAssumption DEF Unfiled, Tainted, SecretReference
<1>0. /\ last \in Nat /\ TypeOK /\ CallInv
      /\ \A r \in Runs : r \in Nat /\ r # None /\ r # Torn
  BY DEF RunnerInv, TypeOK, Runs
<1>1. ASSUME NEW p \in Processes, Stops(p) \/ Acquire(p) \/ Release(p) \/ Die(p)
      PROVE  CallInv'
  BY <1>0, <1>1 DEF CallInv, Stops, Acquire, Release, Die, commandVars, fileVars
<1>2. ASSUME NEW p \in Processes, NEW id \in Ids, NEW command \in Commands, Begin(p, id, command)
      PROVE  CallInv'
  <2>1. /\ last' = last + 1
        /\ UNCHANGED <<child, offspring, leaky, answer, returned, temp, evidence, reports>>
    BY <1>2 DEF Begin, commandVars, fileVars
  <2>2. \A r \in Runs : r <= last => request'[r] = request[r]
    BY <1>0, <1>2 DEF Begin, TypeOK
  <2> QED BY <1>0, <2>1, <2>2 DEF CallInv
<1>3. ASSUME NEW p \in Processes, pc[p] # "idle"
      PROVE  /\ run[p] \in Runs /\ run[p] <= last /\ run[p] # None /\ run[p] # Torn
             /\ pc[p] \notin {"begun", "waiting"} => answer[run[p]] # None
  BY <1>0, <1>3, RunTyping DEF RunnerInv, PlaceInv, Place
<1>4. ASSUME NEW p \in Processes, Record(p) PROVE CallInv'
  <2>1. run[p] \in Runs /\ run[p] <= last /\ answer[run[p]] # None
    BY <1>3, <1>4 DEF Record, Goto
  <2>2. /\ \A id \in Ids : reports'[id] \in {reports[id], run[p]}
        /\ UNCHANGED <<last, request, child, offspring, leaky, answer, returned, temp, evidence>>
    BY <1>0, <1>4 DEF Record, TypeOK, commandVars
  <2> QED BY <1>0, <2>1, <2>2 DEF CallInv
<1>5. ASSUME NEW p \in Processes, Spawn(p) PROVE CallInv'
  <2>1. answer[run[p]] = None /\ run[p] \in Runs /\ run[p] <= last
    BY <1>3, <1>5 DEF Spawn, Goto, RunnerInv, PlaceInv, Place
  <2>2. /\ \A r \in Runs : r # run[p] => child'[r] = child[r]
        /\ UNCHANGED <<last, request, offspring, leaky, answer, returned, temp, evidence, reports>>
    BY <1>0, <1>5 DEF Spawn, TypeOK, fileVars
  <2> QED BY <1>0, <2>1, <2>2 DEF CallInv, Statuses
<1>6. ASSUME NEW p \in Processes, NotFound(p) PROVE CallInv'
  <2>1. run[p] \in Runs /\ run[p] <= last /\ child[run[p]] = "none"
    BY <1>3, <1>6 DEF NotFound, Goto, RunnerInv, PlaceInv, Place
  <2>2. /\ \A r \in Runs : answer'[r] = IF r = run[p] THEN "NOT_RUN" ELSE answer[r]
        /\ UNCHANGED <<last, request, child, offspring, leaky, returned, temp, evidence, reports>>
    BY <1>0, <1>6 DEF NotFound, Answer, TypeOK, commandVars, fileVars
  <2> QED BY <1>0, <2>1, <2>2 DEF CallInv, Statuses
<1>7. ASSUME NEW p \in Processes, Communicate(p) \/ Timeout(p)
      PROVE  /\ run[p] \in Runs /\ run[p] <= last /\ Unfiled(run[p]) /\ answer[run[p]] = None
             /\ \A r \in Runs : r # run[p] => answer'[r] = answer[r] /\ child'[r] = child[r]
             /\ leaky' \subseteq leaky \cup {run[p]}
             /\ UNCHANGED <<last, request, offspring, returned, temp, evidence, reports>>
  <2>1. pc[p] = "waiting"
    BY <1>7 DEF Communicate, Timeout, Goto
  <2>2. /\ run[p] \in Runs /\ run[p] <= last /\ Unfiled(run[p]) /\ answer[run[p]] = None
    BY <1>3, <2>1 DEF RunnerInv, PlaceInv, Place
  <2>3. \A r \in Runs : r # run[p] => answer'[r] = answer[r] /\ child'[r] = child[r]
    <3>1. CASE Communicate(p)
      BY <1>0, <3>1 DEF Communicate, Answer, TypeOK, commandVars
    <3>2. CASE Timeout(p)
      BY <1>0, <3>2 DEF Timeout, Answer, TypeOK
    <3> QED BY <1>7, <3>1, <3>2
  <2>4. Capture(run[p])
    BY <1>7 DEF Communicate, Timeout
  <2>5. UNCHANGED <<last, request, offspring, returned, temp, evidence, reports>>
    BY <1>7 DEF Communicate, Timeout, commandVars, fileVars
  <2> QED BY <2>2, <2>3, <2>4, <2>5 DEF Capture
<1>8. ASSUME NEW p \in Processes, Communicate(p) \/ Timeout(p), child'[run[p]] # "running",
             \/ answer'[run[p]] = "NOT_RUN"
             \/ answer'[run[p]] = "PASSED" /\ child'[run[p]] = "zero" /\ run[p] \notin offspring
             \/ answer'[run[p]] = "FAILED" /\ child'[run[p]] = "nonzero" /\ run[p] \notin offspring
      PROVE  CallInv'
  <2>1. ASSUME NEW r \in Runs, r # run[p]
        PROVE  answer'[r] = answer[r] /\ child'[r] = child[r] /\ (r \in leaky' => r \in leaky)
    BY <1>7, <1>8, <2>1
  <2>2. /\ run[p] \in Runs /\ run[p] <= last /\ Unfiled(run[p]) /\ answer[run[p]] = None
        /\ UNCHANGED <<last, request, offspring, returned, temp, evidence, reports>>
    BY <1>7, <1>8
  <2>3. answer'[run[p]] # None
    BY <1>8 DEF Statuses
  <2> QED BY <1>0, <1>8, <2>1, <2>2, <2>3 DEF CallInv
<1>9. ASSUME NEW p \in Processes, Communicate(p) PROVE CallInv'
  <2>1. child[run[p]] \in {"zero", "nonzero"} /\ run[p] \notin offspring /\ UNCHANGED child
    BY <1>9 DEF Communicate, OutputClosed, Exited, commandVars
  <2>2. answer'[run[p]] = IF child[run[p]] = "zero" THEN "PASSED" ELSE "FAILED"
    BY <1>0, <1>7, <1>9 DEF Communicate, Answer, TypeOK
  <2> QED BY <1>8, <1>9, <2>1, <2>2
<1>10. ASSUME NEW p \in Processes, Timeout(p) PROVE CallInv'
  <2>1. answer'[run[p]] = "NOT_RUN" /\ child'[run[p]] # "running"
    BY <1>0, <1>7, <1>10 DEF Timeout, Answer, TypeOK
  <2> QED BY <1>8, <1>10, <2>1
<1>11. ASSUME NEW p \in Processes, OpenEvidence(p) PROVE CallInv'
  <2>1. /\ \A id \in Ids : temp'[id] \in {temp[id], Torn}
        /\ UNCHANGED <<last, request, child, offspring, leaky, answer, returned, evidence, reports>>
    BY <1>0, <1>11 DEF OpenEvidence, TypeOK, Files, commandVars
  <2> QED BY <1>0, <2>1 DEF CallInv
<1>12. ASSUME NEW p \in Processes, SyncEvidence(p) PROVE CallInv'
  <2>1. run[p] \in Runs /\ run[p] <= last /\ ~Tainted(run[p]) /\ answer[run[p]] # None
    BY <1>3, <1>12 DEF SyncEvidence, Goto, RunnerInv, PlaceInv, Place
  <2>2. /\ \A id \in Ids : temp'[id] \in {temp[id], run[p]}
        /\ UNCHANGED <<last, request, child, offspring, leaky, answer, returned, evidence, reports>>
    BY <1>0, <1>12 DEF SyncEvidence, TypeOK, Files, commandVars
  <2> QED BY <1>0, <2>1, <2>2 DEF CallInv
<1>13. ASSUME NEW p \in Processes, PublishEvidence(p) PROVE CallInv'
  <2>1. /\ \A id \in Ids : temp'[id] \in {temp[id], None} /\ evidence'[id] \in {evidence[id], temp[id]}
        /\ UNCHANGED <<last, request, child, offspring, leaky, answer, returned, reports>>
    BY <1>0, <1>13 DEF PublishEvidence, TypeOK, Files, commandVars
  <2> QED BY <1>0, <2>1 DEF CallInv
<1>14. ASSUME NEW p \in Processes, Return(p) PROVE CallInv'
  <2>1. run[p] \in Runs /\ run[p] <= last /\ ~SecretReference(run[p]) /\ answer[run[p]] # None
    BY <1>3, <1>14 DEF Return, Built
  <2>2. /\ returned' = returned \cup {run[p]}
        /\ UNCHANGED <<last, request, child, offspring, leaky, answer, temp, evidence, reports>>
    BY <1>14 DEF Return, commandVars, fileVars
  <2> QED BY <1>0, <2>1, <2>2 DEF CallInv
<1>15. ASSUME NEW r \in Runs, Command(r) PROVE CallInv'
  <2>1. UNCHANGED <<last, request, leaky, answer, returned, temp, evidence, reports>>
    BY <1>15 DEF Command, Exit, Fork, End, fileVars
  <2>2. ASSUME NEW q \in Runs, child[q] \in {"zero", "nonzero"}, q \notin offspring
        PROVE  child'[q] = child[q] /\ q \notin offspring'
    BY <1>0, <1>15, <2>2 DEF Command, Exit, Fork, End, TypeOK
  <2>3. \A q \in Runs : /\ child[q] = "none" => child'[q] = "none"
                        /\ child'[q] = "running" => child[q] = "running"
    BY <1>0, <1>15 DEF Command, Exit, Fork, End, TypeOK
  <2>4. \A q \in Runs : /\ answer[q] = "PASSED" => child'[q] = "zero" /\ q \notin offspring'
                        /\ answer[q] = "FAILED" => child'[q] = "nonzero" /\ q \notin offspring'
    BY <1>0, <2>2 DEF CallInv
  <2> QED BY <1>0, <2>1, <2>3, <2>4 DEF CallInv
<1>16. CASE UNCHANGED vars
  BY <1>0, <1>16 DEF CallInv, vars, commandVars, fileVars
<1> QED BY <1>1, <1>2, <1>4, <1>5, <1>6, <1>9, <1>10, <1>11, <1>12, <1>13, <1>14, <1>15, <1>16, CallsStop
        DEF Next, Step, Caller

-----------------------------------------------------------------------------
(* Places *)

(* The lock is held, so nobody else is under way. *)
LEMMA Alone ==
  ASSUME RunnerInv, NEW p \in Processes, NEW q \in Processes, pc[p] # "idle", q # p
  PROVE  pc[q] = "idle"
  BY DEF RunnerInv, PlaceInv, Place

(* One process moves; its place is all there is to see to. *)
LEMMA PlaceOfOne ==
  ASSUME RunnerInv, NEW p \in Processes, pc[p] # "idle" \/ \A q \in Processes : pc[q] = "idle",
         NEW to, pc' = [pc EXCEPT ![p] = to], to # "idle" => Place(p)'
  PROVE  PlaceInv'
<1>1. \A q \in Processes : q # p => pc'[q] = "idle"
  BY Alone DEF RunnerInv, TypeOK
<1>2. pc'[p] = to
  BY DEF RunnerInv, TypeOK
<1> QED BY <1>1, <1>2 DEF PlaceInv

LEMMA PlaceStep ==
  ASSUME RunnerInv, [Next]_vars
  PROVE  PlaceInv'
<1> USE ValidationAssumption DEF Unfiled, Tainted, SecretReference
<1>0. /\ last \in Nat /\ TypeOK /\ CallInv
      /\ \A r \in Runs : r \in Nat /\ r # None /\ r # Torn
  BY DEF RunnerInv, TypeOK, Runs
<1>1. ASSUME NEW p \in Processes, pc[p] # "idle"
      PROVE  /\ Place(p) /\ run[p] \in Runs /\ run[p] <= last
             /\ request[run[p]].id \in Ids
  BY <1>0, <1>1, RunTyping DEF RunnerInv, PlaceInv, Place
<1>2. ASSUME NEW p \in Processes, Stops(p) PROVE PlaceInv'
  BY <1>2, PlaceOfOne DEF Stops
<1>3. ASSUME NEW p \in Processes, Acquire(p) PROVE PlaceInv'
  <2>1. \A q \in Processes : pc'[q] = "idle"
    BY <1>3 DEF Acquire, Lock!Take, RunnerInv, PlaceInv, Place
  <2> QED BY <2>1 DEF PlaceInv
<1>4. ASSUME NEW p \in Processes, Release(p) PROVE PlaceInv'
  <2>1. \A q \in Processes : pc'[q] = "idle"
    BY <1>4 DEF Release, RunnerInv, PlaceInv, Place
  <2> QED BY <2>1 DEF PlaceInv
<1>5. ASSUME NEW p \in Processes, Die(p) PROVE PlaceInv'
  <2>1. \A q \in Processes : pc'[q] = "idle"
    BY <1>0, <1>5 DEF Die, RunnerInv, PlaceInv, Place, TypeOK
  <2> QED BY <2>1 DEF PlaceInv
<1>6. ASSUME NEW p \in Processes, NEW id \in Ids, NEW command \in Commands, Begin(p, id, command)
      PROVE  PlaceInv'
  <2>1. \A q \in Processes : pc[q] = "idle"
    BY <1>1, <1>6 DEF Begin, Goto, Place
  <2>2. /\ last' = last + 1 /\ last + 1 \in Runs /\ run'[p] = last + 1 /\ pc'[p] = "begun"
        /\ request'[last + 1] = [process |-> p, id |-> id, command |-> command]
        /\ holder = p
        /\ UNCHANGED <<holder, child, answer, temp, evidence, reports>>
    BY <1>0, <1>6 DEF Begin, Goto, TypeOK, Runs, commandVars, fileVars
  <2>3. request'[run'[p]] \in RequestSet /\ request'[run'[p]].process = p /\ request'[run'[p]].id = id
    BY <2>2 DEF RequestSet
  <2>4. /\ answer[last + 1] = None /\ child[last + 1] = "none" /\ Unfiled(last + 1)
        /\ \A i \in Ids : reports[i] # last + 1
    BY <1>0, <2>2 DEF CallInv
  <2>5. Place(p)'
    BY <1>0, <2>2, <2>3, <2>4 DEF Place
  <2> QED BY <1>6, <2>1, <2>5, PlaceOfOne DEF Begin, Goto
<1>7. ASSUME NEW p \in Processes, Record(p) PROVE PlaceInv'
  BY <1>7, PlaceOfOne DEF Record, Goto
<1>8. ASSUME NEW p \in Processes, Spawn(p) PROVE PlaceInv'
  <2>1. pc'[p] = "waiting" /\ pc[p] = "begun"
    BY <1>0, <1>8 DEF Spawn, Goto, TypeOK
  <2>2. Place(p)'
    BY <1>1, <1>8, <2>1 DEF Spawn, Place, fileVars
  <2> QED BY <1>8, <2>1, <2>2, PlaceOfOne DEF Spawn, Goto
<1>9. ASSUME NEW p \in Processes, NotFound(p) \/ Communicate(p) \/ Timeout(p) PROVE PlaceInv'
  <2>1. pc[p] # "idle" /\ pc'[p] = "classified" /\ pc' = [pc EXCEPT ![p] = "classified"]
    BY <1>0, <1>9 DEF NotFound, Communicate, Timeout, Goto, TypeOK
  <2>2. UNCHANGED <<holder, run, last, request, reports>>
    BY <1>9 DEF NotFound, Communicate, Timeout, fileVars
  <2>3. answer'[run[p]] # None
    BY <1>0, <1>1, <1>9, <2>1 DEF NotFound, Communicate, Timeout, Answer, Statuses, TypeOK
  <2>4. Place(p)'
    BY <1>1, <2>1, <2>2, <2>3 DEF Place
  <2> QED BY <2>1, <2>4, PlaceOfOne
<1>10. ASSUME NEW p \in Processes, OpenEvidence(p) PROVE PlaceInv'
  <2>1. pc[p] = "classified" /\ pc'[p] = "writing" /\ pc' = [pc EXCEPT ![p] = "writing"]
    BY <1>0, <1>10 DEF OpenEvidence, Goto, TypeOK
  <2>2. ~Tainted(run[p]) /\ UNCHANGED <<holder, run, last, request, answer, leaky, reports>>
    BY <1>10 DEF OpenEvidence
  <2>3. Place(p)'
    BY <1>1, <2>1, <2>2 DEF Place
  <2> QED BY <2>1, <2>3, PlaceOfOne
<1>11. ASSUME NEW p \in Processes, SyncEvidence(p) PROVE PlaceInv'
  <2>1. pc[p] = "writing" /\ pc'[p] = "synced" /\ pc' = [pc EXCEPT ![p] = "synced"]
    BY <1>0, <1>11 DEF SyncEvidence, Goto, TypeOK
  <2>2. UNCHANGED <<holder, run, last, request, answer, leaky, reports>>
    BY <1>11 DEF SyncEvidence
  <2>3. temp'[request[run[p]].id] = run[p]
    BY <1>0, <1>1, <1>11, <2>1 DEF SyncEvidence, TypeOK, Files
  <2>4. Place(p)'
    BY <1>1, <2>1, <2>2, <2>3 DEF Place
  <2> QED BY <2>1, <2>4, PlaceOfOne
<1>12. ASSUME NEW p \in Processes, PublishEvidence(p) PROVE PlaceInv'
  <2>1. pc[p] = "synced" /\ pc'[p] = "evidenced" /\ pc' = [pc EXCEPT ![p] = "evidenced"]
    BY <1>0, <1>12 DEF PublishEvidence, Goto, TypeOK
  <2>2. UNCHANGED <<holder, run, last, request, answer, reports>>
    BY <1>12 DEF PublishEvidence
  <2>3. temp[request[run[p]].id] = run[p]
    BY <1>1, <2>1 DEF Place
  <2>4. evidence'[request[run[p]].id] = run[p]
    BY <1>0, <1>1, <1>12, <2>1, <2>3 DEF PublishEvidence, TypeOK, Files
  <2>5. Place(p)'
    BY <1>1, <2>1, <2>2, <2>4 DEF Place
  <2> QED BY <2>1, <2>5, PlaceOfOne
<1>13. ASSUME NEW p \in Processes, Return(p) PROVE PlaceInv'
  <2>1. /\ pc[p] \in {"classified", "evidenced"} /\ pc'[p] = "returned" /\ pc' = [pc EXCEPT ![p] = "returned"]
        /\ p \in WithEvidence => pc[p] = "evidenced"
    BY <1>0, <1>13 DEF Return, Built, TypeOK
  <2>2. UNCHANGED <<holder, run, last, request, answer, evidence, reports>>
    BY <1>13 DEF Return, fileVars
  <2>3. Place(p)'
    BY <1>1, <2>1, <2>2 DEF Place
  <2> QED BY <2>1, <2>3, PlaceOfOne
<1>14. ASSUME NEW r \in Runs, Command(r) PROVE PlaceInv'
  <2>1. UNCHANGED <<holder, pc, run, last, request, leaky, answer, returned, temp, evidence, reports>>
    BY <1>14 DEF Command, Exit, Fork, End, fileVars
  <2>2. \A q \in Runs : child[q] = "none" => child'[q] = "none"
    BY <1>0, <1>14 DEF Command, Exit, Fork, End, TypeOK
  <2> QED BY <1>1, <2>1, <2>2 DEF RunnerInv, PlaceInv, Place
<1>15. CASE UNCHANGED vars
  BY <1>15 DEF RunnerInv, PlaceInv, Place, vars, commandVars, fileVars
<1> QED BY <1>2, <1>3, <1>4, <1>5, <1>6, <1>7, <1>8, <1>9, <1>10, <1>11, <1>12, <1>13, <1>14,
           <1>15, CallsStop
        DEF Next, Step, Caller

-----------------------------------------------------------------------------
(* Records *)

LEMMA RecordStep ==
  ASSUME RunnerInv, [Next]_vars
  PROVE  RecordedEvidence'
<1> USE ValidationAssumption
<1>0. /\ last \in Nat /\ TypeOK /\ CallInv /\ RecordedEvidence
      /\ \A r \in Runs : r \in Nat /\ r # None /\ r # Torn
  BY DEF RunnerInv, TypeOK, Runs
<1>1. ASSUME NEW p \in Processes, pc[p] # "idle"
      PROVE  /\ Place(p) /\ run[p] \in Runs /\ request[run[p]].id \in Ids
  BY <1>0, <1>1, RunTyping DEF RunnerInv, PlaceInv
<1>2. ASSUME UNCHANGED <<last, request, evidence, reports>> PROVE RecordedEvidence'
  BY <1>0, <1>2 DEF RecordedEvidence
<1>3. ASSUME NEW p \in Processes, NEW id \in Ids, NEW command \in Commands, Begin(p, id, command)
      PROVE  RecordedEvidence'
  <2>1. UNCHANGED <<evidence, reports>> /\ last' = last + 1
    BY <1>3 DEF Begin, fileVars
  <2>2. \A r \in Runs : r <= last => request'[r] = request[r]
    BY <1>0, <1>3 DEF Begin, TypeOK
  <2>3. ASSUME NEW i \in Ids, reports[i] # None PROVE reports[i] \in Runs /\ reports[i] <= last
    BY <1>0, <2>3 DEF TypeOK, CallInv
  <2>4. last <= MaxRuns /\ \A i \in Ids : \A r \in reports[i]..last : reports[i] # None => r \in Runs
    BY <1>0, <2>3 DEF TypeOK, Runs
  <2> QED BY <1>0, <2>1, <2>2, <2>3, <2>4 DEF RecordedEvidence
<1>4. ASSUME NEW p \in Processes, Record(p) PROVE RecordedEvidence'
  <2>1. pc[p] = "returned"
    BY <1>4 DEF Record, Goto
  <2>2. Place(p) /\ request[run[p]].id \in Ids
    BY <1>1, <2>1
  <2>3. p \in WithEvidence => evidence[request[run[p]].id] = run[p]
    BY <2>1, <2>2 DEF Place
  <2>4. \A id \in Ids : reports'[id] = IF id = request[run[p]].id THEN run[p] ELSE reports[id]
    BY <1>0, <1>4 DEF Record, TypeOK
  <2>5. UNCHANGED <<last, request, evidence>>
    BY <1>4 DEF Record
  <2>6. run[p] \in run[p]..last
    BY <1>0, <2>2 DEF Place
  <2> QED BY <1>0, <2>2, <2>3, <2>4, <2>5, <2>6 DEF RecordedEvidence, Place
<1>5. ASSUME NEW p \in Processes, PublishEvidence(p) PROVE RecordedEvidence'
  <2>1. Place(p) /\ request[run[p]].id \in Ids
    BY <1>1, <1>5 DEF PublishEvidence, Goto
  <2>2. \A id \in Ids : id # request[run[p]].id => evidence'[id] = evidence[id]
    BY <1>0, <1>5 DEF PublishEvidence, TypeOK, Files
  <2>3. UNCHANGED <<last, request, reports>>
    BY <1>5 DEF PublishEvidence
  <2>4. evidence'[request[run[p]].id] = last /\ run[p] = last
    BY <1>0, <1>5, <2>1 DEF PublishEvidence, Goto, Place, TypeOK, Files
  <2>5. ASSUME NEW i \in Ids, reports[i] # None PROVE last \in reports[i]..last
    BY <1>0, <2>5 DEF TypeOK, CallInv, Runs
  <2> QED BY <1>0, <2>1, <2>2, <2>3, <2>4, <2>5 DEF RecordedEvidence
<1>6. ASSUME NEW p \in Processes, Stops(p) \/ Acquire(p) \/ Release(p) \/ Die(p) \/ Spawn(p)
                                  \/ NotFound(p) \/ Communicate(p) \/ Timeout(p)
                                  \/ OpenEvidence(p) \/ SyncEvidence(p) \/ Return(p)
      PROVE  RecordedEvidence'
  BY <1>2, <1>6 DEF Stops, Acquire, Release, Die, Spawn, NotFound, Communicate, Timeout,
                    OpenEvidence, SyncEvidence, Return, fileVars
<1>7. ASSUME NEW r \in Runs, Command(r) PROVE RecordedEvidence'
  BY <1>2, <1>7 DEF Command, Exit, Fork, End, fileVars
<1>8. CASE UNCHANGED vars
  BY <1>2, <1>8 DEF vars, fileVars
<1> QED BY <1>3, <1>4, <1>5, <1>6, <1>7, <1>8, CallsStop DEF Next, Step, Caller

-----------------------------------------------------------------------------
(* What the runs check on small instances, for every instance. *)

LEMMA RunnerInvariant == Spec => []RunnerInv
<1>1. Init => RunnerInv
  <2> SUFFICES ASSUME Init PROVE RunnerInv
    OBVIOUS
  <2> USE ValidationAssumption
  <2>1. TypeOK
    BY DEF Init, TypeOK, Stages, Files
  <2>2. CallInv
    BY DEF Init, CallInv, Unfiled, Runs, Statuses
  <2>3. PlaceInv /\ RecordedEvidence
    BY DEF Init, PlaceInv, RecordedEvidence
  <2> QED BY <2>1, <2>2, <2>3 DEF RunnerInv
<1>2. RunnerInv /\ [Next]_vars => RunnerInv'
  BY TypeStep, CallStep, PlaceStep, RecordStep DEF RunnerInv
<1> QED BY <1>1, <1>2, PTL DEF Spec

(* Type correctness: every answer is one of the three statuses. *)
THEOREM Typing == Spec => []TypeOK
  BY RunnerInvariant, PTL DEF RunnerInv

(* subprocess_runner.py lines 9-11: a PASSED command exited with zero, a   *)
(* FAILED one otherwise.                                                   *)
THEOREM AnswersAreHonest == Spec => []HonestAnswers
<1>1. RunnerInv => HonestAnswers
  BY DEF RunnerInv, TypeOK, CallInv, HonestAnswers
<1> QED BY <1>1, RunnerInvariant, PTL

(* Nothing that holds the pipes is behind a PASSED or a FAILED. *)
THEOREM AnsweredCommandsAreQuiet == Spec => []AnsweredIsQuiet
<1>1. RunnerInv => AnsweredIsQuiet
  BY DEF RunnerInv, TypeOK, CallInv, AnsweredIsQuiet
<1> QED BY <1>1, RunnerInvariant, PTL

(* subprocess_runner.py lines 139-143: of a command whose own process runs  *)
(* nothing is told, even when its runner is dead.                          *)
THEOREM RunningCommandsAreUnreported == Spec => []RunningIsUnreported
<1>1. RunnerInv => RunningIsUnreported
  BY DEF RunnerInv, TypeOK, CallInv, RunningIsUnreported, Unfiled
<1> QED BY <1>1, RunnerInvariant, PTL

(* PLAN Section 37: a recorded result has whole evidence of its result_id, *)
(* of its own execution or a later one.                                    *)
THEOREM RecordsHaveTheirEvidence == Spec => []RecordedEvidence
  BY RunnerInvariant, PTL DEF RunnerInv

(* subprocess_runner.py lines 36-48: no credential is filed or returned.   *)
THEOREM SecretsStay == Spec => []NothingSecretLeaves
<1>1. RunnerInv => NothingSecretLeaves
  BY DEF RunnerInv, TypeOK, CallInv, NothingSecretLeaves, Unfiled
<1> QED BY <1>1, RunnerInvariant, PTL

-----------------------------------------------------------------------------
(* Reruns *)

(* local_store.py lines 139-150, subprocess_runner.py lines 210-220: once a *)
(* result is recorded, its record and its status stay, and its evidence     *)
(* gives way only to whole evidence of a later call with its result_id.     *)
RecordStays(id) ==
  /\ UNCHANGED <<reports[id], answer[reports[id]]>>
  /\ evidence'[id] # evidence[id]
       => evidence'[id] \in (reports[id] + 1)..last /\ request[evidence'[id]].id = id

RecordsStay == [][\A id \in Ids : reports[id] # None => RecordStays(id)]_vars

LEMMA RecordStaysStep ==
  ASSUME RunnerInv, [Next]_vars, NEW id \in Ids, reports[id] # None
  PROVE  RecordStays(id)
<1> USE ValidationAssumption
<1>0. /\ TypeOK /\ last \in Nat
      /\ reports[id] \in Runs /\ reports[id] \in Nat /\ reports[id] <= last
  BY DEF RunnerInv, TypeOK, CallInv, Runs
<1>1. ASSUME NEW p \in Processes, pc[p] # "idle"
      PROVE  /\ Place(p) /\ run[p] # reports[id]
             /\ request[run[p]].id \in Ids
  BY <1>1, RunTyping DEF RunnerInv, PlaceInv, Place
<1>2. ASSUME UNCHANGED <<reports, answer, evidence>> PROVE RecordStays(id)
  BY <1>2 DEF RecordStays
<1>3. ASSUME NEW p \in Processes, Record(p) PROVE RecordStays(id)
  <2>1. reports'[id] = reports[id] /\ UNCHANGED <<answer, evidence>>
    BY <1>0, <1>3 DEF Record, TypeOK
  <2> QED BY <2>1 DEF RecordStays
<1>4. ASSUME NEW p \in Processes, NotFound(p) \/ Communicate(p) \/ Timeout(p)
      PROVE  RecordStays(id)
  <2>1. pc[p] # "idle"
    BY <1>4 DEF NotFound, Communicate, Timeout, Goto
  <2>2. UNCHANGED <<reports, evidence>>
    BY <1>4 DEF NotFound, Communicate, Timeout, fileVars
  <2>3. \E status : answer' = [answer EXCEPT ![run[p]] = status]
    BY <1>4 DEF NotFound, Communicate, Timeout, Answer
  <2>4. answer'[reports[id]] = answer[reports[id]]
    BY <1>0, <1>1, <2>1, <2>3 DEF TypeOK
  <2> QED BY <2>2, <2>4 DEF RecordStays
<1>5. ASSUME NEW p \in Processes, PublishEvidence(p) PROVE RecordStays(id)
  <2>1. pc[p] = "synced"
    BY <1>5 DEF PublishEvidence, Goto
  <2>2. Place(p) /\ run[p] # reports[id] /\ temp[request[run[p]].id] = run[p]
    BY <1>1, <2>1 DEF Place
  <2>3. evidence'[id] = IF id = request[run[p]].id THEN run[p] ELSE evidence[id]
    BY <1>0, <1>5, <2>2 DEF PublishEvidence, TypeOK, Files
  <2>4. run[p] \in (reports[id] + 1)..last
    BY <1>0, <2>2 DEF Place
  <2>5. UNCHANGED <<reports, answer>>
    BY <1>5 DEF PublishEvidence
  <2> QED BY <2>3, <2>4, <2>5 DEF RecordStays
<1>6. ASSUME NEW p \in Processes, Stops(p) \/ Acquire(p) \/ Release(p) \/ Die(p) \/ Spawn(p)
                                  \/ OpenEvidence(p) \/ SyncEvidence(p) \/ Return(p)
      PROVE  RecordStays(id)
  BY <1>2, <1>6 DEF Stops, Acquire, Release, Die, Spawn, OpenEvidence, SyncEvidence, Return,
                    fileVars
<1>7. ASSUME NEW p \in Processes, NEW i \in Ids, NEW command \in Commands, Begin(p, i, command)
      PROVE  RecordStays(id)
  BY <1>2, <1>7 DEF Begin, fileVars
<1>8. ASSUME NEW r \in Runs, Command(r) PROVE RecordStays(id)
  BY <1>2, <1>8 DEF Command, Exit, Fork, End, fileVars
<1>9. CASE UNCHANGED vars
  BY <1>2, <1>9 DEF vars, fileVars
<1> QED BY <1>3, <1>4, <1>5, <1>6, <1>7, <1>8, <1>9, CallsStop DEF Next, Step, Caller

(* Whoever times out, dies or runs the id again, a record and its status    *)
(* never change; what can be lost is its evidence, to a later execution.    *)
THEOREM RecordsAreKept == Spec => RecordsStay
<1> DEFINE Kept == \A id \in Ids : reports[id] # None => RecordStays(id)
<1>1. RunnerInv /\ [Next]_vars => [Kept]_vars
  BY RecordStaysStep
<1>2. RecordsStay <=> [][Kept]_vars
  BY DEF RecordsStay
<1> QED BY <1>1, <1>2, RunnerInvariant, PTL DEF Spec

(* subprocess_runner.py line 219: a call with a recorded result_id that     *)
(* gets to os.replace always takes the recorded result's evidence away, and *)
(* the record stays; append_report can only refuse the new result after.    *)
(* PLAN Section 67 asks that a new report not overwrite evidence silently.  *)
EvidenceReplaced(p) ==
  LET id == request[run[p]].id IN
  reports[id] # None => /\ reports'[id] = reports[id]
                        /\ evidence'[id] = run[p] /\ run[p] > reports[id]

RerunsReplace == [][\A p \in Processes : PublishEvidence(p) => EvidenceReplaced(p)]_vars

LEMMA RerunReplaces ==
  ASSUME RunnerInv, NEW p \in Processes, PublishEvidence(p)
  PROVE  EvidenceReplaced(p)
<1> USE ValidationAssumption
<1>1. pc[p] = "synced"
  BY DEF PublishEvidence, Goto
<1>2. /\ request[run[p]].id \in Ids /\ run[p] = last
      /\ temp[request[run[p]].id] = run[p] /\ reports[request[run[p]].id] # run[p]
  BY <1>1, RunTyping DEF RunnerInv, PlaceInv, Place
<1>3. evidence'[request[run[p]].id] = run[p] /\ UNCHANGED reports
  BY <1>2 DEF PublishEvidence, RunnerInv, TypeOK, Files
<1>4. reports[request[run[p]].id] # None => run[p] > reports[request[run[p]].id]
  BY <1>2 DEF RunnerInv, TypeOK, CallInv, Runs
<1> QED BY <1>3, <1>4 DEF EvidenceReplaced

(* For every instance: nothing between run and os.replace saves the         *)
(* evidence of a recorded result from a rerun of its result_id.             *)
THEOREM RerunsReplaceEvidence == Spec => RerunsReplace
<1> DEFINE Replaced == \A p \in Processes : PublishEvidence(p) => EvidenceReplaced(p)
<1>1. RunnerInv /\ [Next]_vars => [Replaced]_vars
  BY RerunReplaces
<1>2. RerunsReplace <=> [][Replaced]_vars
  BY DEF RerunsReplace
<1> QED BY <1>1, <1>2, RunnerInvariant, PTL DEF Spec

-----------------------------------------------------------------------------
(* Exits that are not reported *)

(* subprocess_runner.py lines 9-11 and 139: an exit code is thrown away     *)
(* only while a descendant of the command holds the pipes.                 *)
OnlyPipesHideExits ==
  [][\A r \in Runs : Exited(r) /\ answer[r] = None /\ answer'[r] = "NOT_RUN"
                       => r \in offspring]_vars

LEMMA HidingStep ==
  ASSUME Punctual, RunnerInv, [Next]_vars,
         NEW r \in Runs, Exited(r), answer[r] = None, answer'[r] = "NOT_RUN"
  PROVE  r \in offspring
<1> USE ValidationAssumption DEF Goto, fileVars
<1>0. TypeOK /\ answer'[r] # answer[r]
  BY DEF RunnerInv, Statuses
<1>1. answer' # answer
  BY <1>0
<1>2. ASSUME NEW p \in Processes, Timeout(p) PROVE r \in offspring
  <2>1. r = run[p]
    BY <1>0, <1>2 DEF Timeout, Answer, TypeOK
  <2> QED BY <1>2, <2>1 DEF Timeout, OutputClosed
<1>3. ASSUME NEW p \in Processes, NotFound(p) PROVE FALSE
  <2>1. r = run[p] /\ pc[p] = "begun"
    BY <1>0, <1>3 DEF NotFound, Answer, TypeOK
  <2>2. child[r] = "none"
    BY <2>1 DEF RunnerInv, PlaceInv, Place
  <2> QED BY <2>2 DEF Exited
<1>4. ASSUME NEW p \in Processes, Communicate(p) PROVE FALSE
  <2>1. answer'[r] \in {answer[r], "PASSED", "FAILED"}
    BY <1>0, <1>4 DEF Communicate, Answer, TypeOK
  <2> QED BY <1>0, <2>1
<1>5. ASSUME NEW p \in Processes, Stops(p) \/ Acquire(p) \/ Release(p) \/ Die(p) \/ Record(p)
                                  \/ Spawn(p) \/ OpenEvidence(p) \/ SyncEvidence(p)
                                  \/ PublishEvidence(p) \/ Return(p)
      PROVE  FALSE
  BY <1>1, <1>5 DEF Stops, Acquire, Release, Die, Record, Spawn, OpenEvidence,
                    SyncEvidence, PublishEvidence, Return
<1>6. ASSUME NEW p \in Processes, NEW id \in Ids, NEW command \in Commands, Begin(p, id, command)
      PROVE  FALSE
  BY <1>1, <1>6 DEF Begin
<1>7. ASSUME NEW q \in Runs, Command(q) PROVE FALSE
  BY <1>1, <1>7 DEF Command, Exit, Fork, End
<1>8. CASE UNCHANGED vars
  BY <1>1, <1>8 DEF vars
<1> QED BY <1>2, <1>3, <1>4, <1>5, <1>6, <1>7, <1>8, CallsStop DEF Next, Step, Caller

(* subprocess_runner.py line 139: the one way in which a command that       *)
(* exited is answered NOT_RUN, if the runner is never late.                *)
THEOREM PipesHideExits ==
  ASSUME Punctual
  PROVE  Spec => OnlyPipesHideExits
<1> DEFINE Hidden == \A r \in Runs : Exited(r) /\ answer[r] = None /\ answer'[r] = "NOT_RUN"
                       => r \in offspring
<1>1. RunnerInv /\ [Next]_vars => [Hidden]_vars
  BY HidingStep
<1>2. OnlyPipesHideExits <=> [][Hidden]_vars
  BY DEF OnlyPipesHideExits
<1> QED BY <1>1, <1>2, RunnerInvariant, PTL DEF Spec

=============================================================================
