----------------------------- MODULE AtomicStore -----------------------------
(***************************************************************************)
(* What ports/persistence.py promises of the current pointer and of the    *)
(* append-only records: a call takes effect at once and at most once, or   *)
(* not at all; a record that exists is never overwritten.  A call whose    *)
(* caller saw an error or died may or may not have taken effect.           *)
(***************************************************************************)
CONSTANTS Processes, Records, Current, Values, None

VARIABLES
  store,            \* the value of each path
  request,          \* the call each process is in, or None
  reply             \* what its last call answered

vars == <<store, request, reply>>

Paths == Records \cup {Current}

Init ==
  /\ store = [path \in Paths |-> None]
  /\ request = [p \in Processes |-> None]
  /\ reply = [p \in Processes |-> "none"]

Invoke(p) ==
  /\ request[p] = None
  /\ \E path \in Paths, value \in Values :
       request' = [request EXCEPT ![p] = [path |-> path, value |-> value]]
  /\ reply' = [reply EXCEPT ![p] = "none"]
  /\ UNCHANGED store

Apply(p) ==
  /\ request[p] # None /\ reply[p] = "none"
  /\ request[p].path = Current \/ store[request[p].path] = None
  /\ store' = [store EXCEPT ![request[p].path] = request[p].value]
  /\ reply' = [reply EXCEPT ![p] = "ok"]
  /\ UNCHANGED request

Refuse(p) ==
  /\ request[p] # None /\ reply[p] = "none"
  /\ request[p].path # Current /\ store[request[p].path] # None
  /\ reply' = [reply EXCEPT ![p] = "refused"]
  /\ UNCHANGED <<store, request>>

Fail(p) ==
  /\ reply' = [reply EXCEPT ![p] = "failed"]
  /\ request' \in {request, [request EXCEPT ![p] = None]}
  /\ UNCHANGED store

Return(p) ==
  /\ request[p] # None /\ reply[p] # "none"
  /\ request' = [request EXCEPT ![p] = None]
  /\ UNCHANGED <<store, reply>>

Next == \E p \in Processes : Invoke(p) \/ Apply(p) \/ Refuse(p) \/ Fail(p) \/ Return(p)
Spec == Init /\ [][Next]_vars
=============================================================================
