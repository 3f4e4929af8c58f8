----------------------------- MODULE RecordStore -----------------------------
(***************************************************************************)
(* adapters/persistence/local_store.py: the current pointer, replaced      *)
(* atomically, and the append-only records (attempt.json and the reports), *)
(* created atomically.  Each file system operation is an action; several   *)
(* processes write at once, since the store takes no lock of its own, any  *)
(* operation may fail, and a process may die between any two.  A path      *)
(* stands for what the path helpers build from valid identifiers; two      *)
(* distinct keys never share one.                                          *)
(***************************************************************************)
EXTENDS Sequences, Integers

CONSTANTS
  Processes,
  Records,          \* paths written once: attempt.json, <category>/<id>.json
  Current,          \* the path of current.json
  Values,           \* the models that may be written
  Secrets,          \* those _reject_secrets finds a secret in
  Torn,             \* the content of a file whose writing is not finished
  None,
  MaxCalls          \* bound: calls each process makes

Paths   == Records \cup {Current}
CallSet == [path : Paths, value : Values]

ASSUME StoreAssumption ==
  /\ Current \notin Records
  /\ Secrets \subseteq Values
  /\ None \notin Values \cup CallSet
  /\ Torn \notin Values \cup {None}
  /\ MaxCalls \in Nat

VARIABLES
  files,            \* content of each path, None when it does not exist
  pc,               \* where each process's call stands
  call,             \* its path and value, None between calls
  temp,             \* content of its temporary file, None when it has none
  litter,           \* contents of the temporary files left behind
  result,           \* outcome of its current or last call
  calls,            \* number of calls made
  acked             \* for each record, the values whose creation returned

vars == <<files, pc, call, temp, litter, result, calls, acked>>

Results == {"none", "ok", "refused", "failed"}

TypeOK ==
  /\ files \in [Paths -> Values \cup {None, Torn}]
  /\ pc \in [Processes -> {"idle", "checked", "writing", "synced", "cleanup"}]
  /\ call \in [Processes -> CallSet \cup {None}]
  /\ temp \in [Processes -> Values \cup {None, Torn}]
  /\ litter \subseteq Values \cup {Torn}
  /\ result \in [Processes -> Results]
  /\ calls \in [Processes -> Nat]
  /\ acked \in [Records -> Seq(Values)]

Init ==
  /\ files = [path \in Paths |-> None]
  /\ pc = [p \in Processes |-> "idle"]
  /\ call = [p \in Processes |-> None]
  /\ temp = [p \in Processes |-> None]
  /\ litter = {}
  /\ result = [p \in Processes |-> "none"]
  /\ calls = [p \in Processes |-> 0]
  /\ acked = [r \in Records |-> <<>>]

Goto(p, from, to) == pc[p] = from /\ pc' = [pc EXCEPT ![p] = to]

-----------------------------------------------------------------------------
(* Mutant: secrets are not looked for. *)
CallUnchecked(p, path, value) ==
  /\ calls[p] < MaxCalls
  /\ Goto(p, "idle", "checked")
  /\ call' = [call EXCEPT ![p] = [path |-> path, value |-> value]]
  /\ result' = [result EXCEPT ![p] = "none"]
  /\ calls' = [calls EXCEPT ![p] = @ + 1]
  /\ UNCHANGED <<files, temp, litter, acked>>

(* _reject_secrets raises, and the call has no effect. *)
Rejected(value) == value \in Secrets

(* save_current, save_attempt_record and append_report look for secrets    *)
(* before they touch the file system.                                      *)
Call(p, path, value) ==
  /\ ~Rejected(value)
  /\ calls[p] < MaxCalls
  /\ Goto(p, "idle", "checked")
  /\ call' = [call EXCEPT ![p] = [path |-> path, value |-> value]]
  /\ result' = [result EXCEPT ![p] = "none"]
  /\ calls' = [calls EXCEPT ![p] = @ + 1]
  /\ UNCHANGED <<files, temp, litter, acked>>

(* Mutant: the file is published before it is flushed. *)
OpenTempUnflushed(p) ==
  /\ Goto(p, "checked", "synced")
  /\ temp' = [temp EXCEPT ![p] = Torn]
  /\ UNCHANGED <<files, call, litter, result, calls, acked>>

(* _write_temp_file: a name of its own (uuid4), written, then fsynced. *)
OpenTemp(p) ==
  /\ Goto(p, "checked", "writing")
  /\ temp' = [temp EXCEPT ![p] = Torn]
  /\ UNCHANGED <<files, call, litter, result, calls, acked>>

SyncTemp(p) ==
  /\ Goto(p, "writing", "synced")
  /\ temp' = [temp EXCEPT ![p] = call[p].value]
  /\ UNCHANGED <<files, call, litter, result, calls, acked>>

(* The temporary file stays: the write is outside the try block. *)
WriteFails(p) ==
  /\ Goto(p, "writing", "idle")
  /\ result' = [result EXCEPT ![p] = "failed"]
  /\ call' = [call EXCEPT ![p] = None]
  /\ \E content \in {temp[p], call[p].value} : litter' = litter \cup {content}
  /\ temp' = [temp EXCEPT ![p] = None]
  /\ UNCHANGED <<files, calls, acked>>

(* _atomic_replace_json: os.replace takes the temporary file away. *)
Replace(p) ==
  /\ Goto(p, "synced", "cleanup")
  /\ call[p].path = Current
  /\ files' = [files EXCEPT ![Current] = temp[p]]
  /\ temp' = [temp EXCEPT ![p] = None]
  /\ result' = [result EXCEPT ![p] = "ok"]
  /\ UNCHANGED <<call, litter, calls, acked>>

(* Mutant: os.replace in the place of os.link. *)
LinkOverwriting(p) ==
  /\ Goto(p, "synced", "cleanup")
  /\ call[p].path \in Records
  /\ files' = [files EXCEPT ![call[p].path] = temp[p]]
  /\ result' = [result EXCEPT ![p] = "ok"]
  /\ UNCHANGED <<call, temp, litter, calls, acked>>

(* _atomic_create_json: os.link fails if the path exists. *)
Link(p) ==
  /\ Goto(p, "synced", "cleanup")
  /\ call[p].path \in Records
  /\ files[call[p].path] = None
  /\ files' = [files EXCEPT ![call[p].path] = temp[p]]
  /\ result' = [result EXCEPT ![p] = "ok"]
  /\ UNCHANGED <<call, temp, litter, calls, acked>>

(* Mutant: every OSError is reported as an existing record. *)
RefuseAnyError(p) ==
  /\ Goto(p, "synced", "cleanup")
  /\ call[p].path \in Records
  /\ result' = [result EXCEPT ![p] = "refused"]
  /\ UNCHANGED <<files, call, temp, litter, calls, acked>>

(* Mutant: an existing record makes the call try again. *)
RefuseRetrying(p) ==
  /\ Goto(p, "synced", "checked")
  /\ call[p].path \in Records
  /\ files[call[p].path] # None
  /\ temp' = [temp EXCEPT ![p] = None]
  /\ UNCHANGED <<files, call, litter, result, calls, acked>>

Refuse(p) ==
  /\ Goto(p, "synced", "cleanup")
  /\ call[p].path \in Records
  /\ files[call[p].path] # None
  /\ result' = [result EXCEPT ![p] = "refused"]
  /\ UNCHANGED <<files, call, temp, litter, calls, acked>>

(* Mutant: a failed publication removes what stands at the path. *)
PublishFailsRemoving(p) ==
  /\ Goto(p, "synced", "cleanup")
  /\ files' = [files EXCEPT ![call[p].path] = None]
  /\ result' = [result EXCEPT ![p] = "failed"]
  /\ UNCHANGED <<call, temp, litter, calls, acked>>

PublishFails(p) ==
  /\ Goto(p, "synced", "cleanup")
  /\ result' = [result EXCEPT ![p] = "failed"]
  /\ UNCHANGED <<files, call, temp, litter, calls, acked>>

(* The finally block removes the temporary file, and the call returns. *)
Return(p) ==
  /\ Goto(p, "cleanup", "idle")
  /\ temp' = [temp EXCEPT ![p] = None]
  /\ call' = [call EXCEPT ![p] = None]
  /\ acked' = [r \in Records |->
                 IF result[p] = "ok" /\ call[p].path = r
                 THEN Append(acked[r], call[p].value) ELSE acked[r]]
  /\ UNCHANGED <<files, litter, result, calls>>

(* Mutant: a temporary file is taken for granted. *)
InterruptedWithTemp(p) ==
  /\ pc[p] # "idle"
  /\ pc' = [pc EXCEPT ![p] = "idle"]
  /\ result' = [result EXCEPT ![p] = "failed"]
  /\ call' = [call EXCEPT ![p] = None]
  /\ litter' = litter \cup {temp[p]}
  /\ temp' = [temp EXCEPT ![p] = None]
  /\ UNCHANGED <<files, calls, acked>>

(* unlink raises, or the process dies: whatever was published stays, and   *)
(* so does the temporary file.                                             *)
Interrupted(p) ==
  /\ pc[p] # "idle"
  /\ pc' = [pc EXCEPT ![p] = "idle"]
  /\ result' = [result EXCEPT ![p] = "failed"]
  /\ call' = [call EXCEPT ![p] = None]
  /\ litter' = litter \cup ({temp[p]} \ {None})
  /\ temp' = [temp EXCEPT ![p] = None]
  /\ UNCHANGED <<files, calls, acked>>

Step(p) ==
  \/ OpenTemp(p) \/ SyncTemp(p) \/ WriteFails(p) \/ Replace(p) \/ Link(p)
  \/ Refuse(p) \/ PublishFails(p) \/ Return(p)

Next ==
  \E p \in Processes :
    \/ \E path \in Paths, value \in Values : Call(p, path, value)
    \/ Step(p)
    \/ Interrupted(p)

Spec == Init /\ [][Next]_vars /\ \A p \in Processes : WF_vars(Step(p))

-----------------------------------------------------------------------------
(* What a reader sees: it opens the path, and the content of the file it   *)
(* opened never changes any more.  list_report_ids lists the *.json files, *)
(* never the temporary ones.                                               *)
ReportIds == {r \in Records : files[r] # None}

(* Properties *)

(* local_store.py lines 13-15: "a reader never observes a partially        *)
(* written file", whatever fails or dies, whoever else writes.             *)
NoTornRecord == \A path \in Paths : files[path] # Torn

(* local_store.py lines 42-44: rejected data never touches disk, not even  *)
(* in a temporary file that a crash leaves behind.                         *)
SecretsStayOut ==
  Secrets \cap ({files[path] : path \in Paths} \cup {temp[p] : p \in Processes} \cup litter) = {}

(* ports/persistence.py lines 34-36: no step of any process changes or     *)
(* removes a record that exists.                                           *)
RecordsImmutable ==
  [][\A r \in ReportIds : files'[r] = files[r]]_vars

(* Of all the calls that create one record at most one returns, and the    *)
(* record keeps the value of that one.                                     *)
OneCreator ==
  \A r \in Records : /\ Len(acked[r]) <= 1
                     /\ acked[r] # <<>> => files[r] = Head(acked[r])

(* The calls are atomic (linearizable): see AtomicStore. *)
Abstract == INSTANCE AtomicStore WITH store <- files, request <- call, reply <- result
ImplementsAtomicStore == Abstract!Spec

(* Every call ends: no writer waits for another one. *)
CallsEnd == \A p \in Processes : pc[p] # "idle" ~> pc[p] = "idle"

=============================================================================
