------------------------------ MODULE PerfRun ------------------------------
(***************************************************************************)
(* Performance runs of one organisation: runs of the same scenario exclude *)
(* each other, every load takes a slot of the organisation's quota, a      *)
(* high-risk load waits for an approval, and a detached worker process     *)
(* owns everything from there on: the load, the verdict, the slot and the  *)
(* promotion of the next queued run of the scenario.                       *)
(*                                                                         *)
(* result_summary and snapshot are plain JSONB columns: a dictionary that  *)
(* is mutated in place and assigned to its own attribute compares equal    *)
(* to what was loaded, and no UPDATE is emitted for it.  That is why       *)
(* "hash" depends on "noted" below, and why promotion keeps "queued".      *)
(***************************************************************************)
EXTENDS Integers, FiniteSets

CONSTANTS
  NumRuns,     \* runs, in the order of created_at
  Scenario,    \* the performance case of each run
  HighRisk,    \* whether the scenario's side_effect_level is L2 or more
  Quota,       \* perf_concurrency_quota of the organisation
  Losses,      \* the runs whose processes may die
  Sweeping     \* those that somebody reclaims by reclaim_stale_active_runs

ASSUME NumRunsAssumption == NumRuns \in Nat \ {0}
ASSUME HighRiskAssumption == HighRisk \in [1..NumRuns -> BOOLEAN]
ASSUME QuotaAssumption == Quota \in Nat
ASSUME BoundsAssumption == Losses \subseteq 1..NumRuns /\ Sweeping \subseteq 1..NumRuns

VARIABLES
  status, stopSignal, beat,
  queued,      \* snapshot["perf_queued"]
  noted,       \* result_summary is a dictionary, no longer null
  hash,        \* result_summary["perf"]["approval_hash"] is stored
  result,      \* the case result of the run
  approval,    \* status of the run's perf_high_risk request
  decision,    \* what was decided on it, "failed" if without an effect
  late,        \* a reader found the request past its TTL and has yet to write
  inUse,       \* perf_concurrency_in_use
  waiting,     \* dispatch tasks of the run that have not begun
  admission,   \* the dispatch task between its first and second transaction
  worker       \* the detached worker of the run: [pc, outcome]

row == <<status, stopSignal, beat, queued, noted, hash, result>>
ask == <<approval, decision, late>>
vars == <<row, ask, inUse, waiting, admission, worker>>

Runs == 1..NumRuns
Terminal == {"SUCCEEDED", "FAILED", "CANCELLED", "TIMEOUT"}
Holding == {"WAITING_APPROVAL", "RUNNING", "STOPPING"}
Statuses == {"absent", "PENDING", "VALIDATING"} \cup Holding \cup Terminal
Outcomes == {"SUCCEEDED", "FAILED", "CANCELLED"}

(* A worker that "quit" found nothing to do, one that "died" was killed;   *)
(* neither gave its slot back.                                             *)
Working == {"spawn", "await", "enter", "load", "final", "release"}
WorkerPlaces == {"none", "promote", "done", "quit", "died"} \cup Working

Siblings(r) == {q \in Runs \ {r} : Scenario[q] = Scenario[r]}

(* A definition called ...Mutant is a slip of the definition after it; see *)
(* PROJECT.json for the property it must break.                            *)
ActiveSiblingsMutant(r) == {q \in Siblings(r) : status[q] \in Holding}   \* forgets VALIDATING

(* find_active_perf_run_for_scenario: any run of the scenario that has not *)
(* ended, the queued ones included                                         *)
ActiveSiblings(r) == {q \in Siblings(r) : status[q] \notin Terminal \cup {"absent"}}

NoWorker == [pc |-> "none", outcome |-> "SUCCEEDED"]

Init ==
  /\ status = [r \in Runs |-> "absent"]
  /\ stopSignal = [r \in Runs |-> FALSE]
  /\ beat = [r \in Runs |-> "null"]
  /\ queued = [r \in Runs |-> FALSE]
  /\ noted = [r \in Runs |-> FALSE]
  /\ hash = [r \in Runs |-> FALSE]
  /\ result = [r \in Runs |-> "none"]
  /\ approval = [r \in Runs |-> "none"]
  /\ decision = [r \in Runs |-> "none"]
  /\ late = [r \in Runs |-> FALSE]
  /\ inUse = 0
  /\ waiting = [r \in Runs |-> 0]
  /\ admission = [r \in Runs |-> "none"]
  /\ worker = [r \in Runs |-> NoWorker]

SetStatus(r, s) == status' = [status EXCEPT ![r] = s]
WorkerAt(r, place) == worker' = [worker EXCEPT ![r].pc = place]

(* Nothing reads the outcome of the load any more.                         *)
WorkerForgets(r, place) == worker' = [worker EXCEPT ![r] = [NoWorker EXCEPT !.pc = place]]

-----------------------------------------------------------------------------
(* Start, dispatch and admission *)

(* Accepted, and marked as queued if the scenario was busy when the        *)
(* request looked, without a lock and before its insert                    *)
WasBusy(r) == \E q \in Siblings(r) : status[q] # "absent"
Start(r) ==
  /\ status[r] = "absent"
  /\ \A q \in Runs : q < r => status[q] # "absent"
  /\ SetStatus(r, "PENDING")
  /\ \E busy \in BOOLEAN : (busy => WasBusy(r)) /\ queued' = [queued EXCEPT ![r] = busy]
  /\ waiting' = [waiting EXCEPT ![r] = @ + 1]
  /\ UNCHANGED <<stopSignal, beat, noted, hash, ask, result, inUse, admission, worker>>

Dispatch(r) ==
  /\ waiting[r] > 0
  /\ waiting' = [waiting EXCEPT ![r] = @ - 1]
  /\ IF status[r] = "PENDING"
       THEN SetStatus(r, "VALIDATING") /\ admission' = [admission EXCEPT ![r] = "check"]
       ELSE UNCHANGED <<status, admission>>
  /\ UNCHANGED <<stopSignal, beat, queued, noted, hash, ask, result, inUse, worker>>

(* The second transaction locks the run, validates it, and looks for       *)
(* siblings, whose rows it does not lock.                                  *)
LookForSiblings(r) ==
  /\ admission[r] = "check"
  /\ admission' = [admission EXCEPT ![r] = IF ActiveSiblings(r) = {} THEN "admit" ELSE "requeue"]
  /\ UNCHANGED <<row, ask, inUse, waiting, worker>>

Invalid(r) ==
  /\ admission[r] = "check"
  /\ SetStatus(r, "FAILED")
  /\ noted' = [noted EXCEPT ![r] = TRUE]
  /\ admission' = [admission EXCEPT ![r] = "none"]
  /\ UNCHANGED <<stopSignal, beat, queued, hash, ask, result, inUse, waiting, worker>>

Requeue(r) ==
  /\ admission[r] = "requeue"
  /\ SetStatus(r, "PENDING")
  /\ queued' = [queued EXCEPT ![r] = TRUE]
  /\ noted' = [noted EXCEPT ![r] = TRUE]
  /\ admission' = [admission EXCEPT ![r] = "none"]
  /\ UNCHANGED <<stopSignal, beat, hash, ask, result, inUse, waiting, worker>>

(* reserve_perf_concurrency refuses; or a high-risk run finds no approver  *)
(* and the slot it had reserved is released                                *)
Turned(r) ==
  /\ admission[r] = "admit"
  /\ inUse >= Quota \/ HighRisk[r]
  /\ SetStatus(r, "FAILED")
  /\ noted' = [noted EXCEPT ![r] = TRUE]
  /\ admission' = [admission EXCEPT ![r] = "none"]
  /\ UNCHANGED <<stopSignal, beat, queued, hash, ask, result, inUse, waiting, worker>>

(* create_perf_high_risk_approval.  The hash is stored with the run only   *)
(* when its summary holds nothing yet.                                     *)
AskApproval(r) ==
  /\ approval' = [approval EXCEPT ![r] = "PENDING"]
  /\ hash' = [hash EXCEPT ![r] = ~noted[r]]
  /\ noted' = [noted EXCEPT ![r] = TRUE]

(* The slot is reserved, and a worker is spawned behind the commit: for a  *)
(* run that is RUNNING, or that waits for its approval.                    *)
Admit(r) ==
  /\ admission[r] = "admit"
  /\ inUse < Quota
  /\ inUse' = inUse + 1
  /\ IF HighRisk[r]
       THEN /\ SetStatus(r, "WAITING_APPROVAL")
            /\ AskApproval(r)
            /\ UNCHANGED beat
       ELSE /\ SetStatus(r, "RUNNING")
            /\ beat' = [beat EXCEPT ![r] = "fresh"]
            /\ UNCHANGED <<approval, hash, noted>>
  /\ admission' = [admission EXCEPT ![r] = "none"]
  /\ WorkerAt(r, "spawn")
  /\ UNCHANGED <<stopSignal, queued, decision, late, result, waiting>>

-----------------------------------------------------------------------------
(* Commands on a run: cancel, and the decision on its approval             *)

Cancel(r) ==
  /\ status[r] \in {"PENDING", "WAITING_APPROVAL", "RUNNING"}
  /\ SetStatus(r, IF status[r] = "RUNNING" THEN "STOPPING" ELSE "CANCELLED")
  /\ stopSignal' = [stopSignal EXCEPT ![r] = TRUE]
  /\ UNCHANGED <<beat, queued, noted, hash, ask, result, inUse, waiting, admission, worker>>

ApproveMutant(r) ==                          \* granted whatever the resume answers
  /\ approval[r] = "PENDING"
  /\ approval' = [approval EXCEPT ![r] = "EXECUTED"]
  /\ decision' = [decision EXCEPT ![r] = "granted"]
  /\ IF status[r] = "WAITING_APPROVAL" /\ hash[r]
       THEN SetStatus(r, "RUNNING") ELSE UNCHANGED status
  /\ UNCHANGED <<stopSignal, beat, queued, noted, hash, late, result, inUse, waiting, admission, worker>>

(* Under the lock of the request.  resume_perf_after_approval: the run     *)
(* continues if it still waits and the hash of what was approved is known. *)
(* Its heartbeat is not set.  A request of this type cannot be             *)
(* resubmitted: the policy gate denies it.                                 *)
Approve(r) ==
  /\ approval[r] = "PENDING"
  /\ approval' = [approval EXCEPT ![r] = "EXECUTED"]
  /\ IF status[r] = "WAITING_APPROVAL" /\ hash[r]
       THEN SetStatus(r, "RUNNING") /\ decision' = [decision EXCEPT ![r] = "granted"]
       ELSE UNCHANGED status /\ decision' = [decision EXCEPT ![r] = "failed"]
  /\ UNCHANGED <<stopSignal, beat, queued, noted, hash, late, result, inUse, waiting, admission, worker>>

(* cancel_perf_from_approval *)
Reject(r) ==
  /\ approval[r] = "PENDING"
  /\ approval' = [approval EXCEPT ![r] = "EXECUTED"]
  /\ IF status[r] = "WAITING_APPROVAL"
       THEN SetStatus(r, "CANCELLED") /\ decision' = [decision EXCEPT ![r] = "denied"]
       ELSE UNCHANGED status /\ decision' = [decision EXCEPT ![r] = "failed"]
  /\ UNCHANGED <<stopSignal, beat, queued, noted, hash, late, result, inUse, waiting, admission, worker>>

(* A list or detail request reads the pending approval without the lock,   *)
(* and its TTL is over.                                                    *)
FindLate(r) ==
  /\ approval[r] = "PENDING"
  /\ ~late[r]
  /\ late' = [late EXCEPT ![r] = TRUE]
  /\ UNCHANGED <<row, approval, decision, inUse, waiting, admission, worker>>

(* _lazy_expire_if_needed writes, whatever was decided meanwhile.          *)
Expire(r) ==
  /\ late[r]
  /\ late' = [late EXCEPT ![r] = FALSE]
  /\ approval' = [approval EXCEPT ![r] = "EXPIRED"]
  /\ IF status[r] = "WAITING_APPROVAL" THEN SetStatus(r, "CANCELLED") ELSE UNCHANGED status
  /\ UNCHANGED <<stopSignal, beat, queued, noted, hash, decision, result, inUse, waiting, admission, worker>>

-----------------------------------------------------------------------------
(* run_perf_worker.  All of its reads but the last are without a lock.     *)

WorkerStart(r) ==
  /\ worker[r].pc = "spawn"
  /\ WorkerAt(r, IF status[r] = "WAITING_APPROVAL" THEN "await" ELSE "enter")
  /\ UNCHANGED <<row, ask, inUse, waiting, admission>>

WorkerAwait(r) ==
  /\ worker[r].pc = "await"
  /\ status[r] # "WAITING_APPROVAL"
  /\ WorkerAt(r, "enter")
  /\ UNCHANGED <<row, ask, inUse, waiting, admission>>

WorkerEnterMutant(r) ==                      \* no longer waiting is good enough
  /\ worker[r].pc = "enter"
  /\ \/ status[r] # "WAITING_APPROVAL" /\ WorkerAt(r, "load")
     \/ WorkerAt(r, "quit")
  /\ UNCHANGED <<row, ask, inUse, waiting, admission>>

(* Not RUNNING, or a case without a request step: the process ends here    *)
WorkerEnter(r) ==
  /\ worker[r].pc = "enter"
  /\ \/ status[r] = "RUNNING" /\ WorkerAt(r, "load")
     \/ WorkerAt(r, "quit")
  /\ UNCHANGED <<row, ask, inUse, waiting, admission>>

(* What ends the load: the stop signal or STOPPING, a run that ended       *)
(* elsewhere, the kill switch, a breach of the abort limits, or the load   *)
(* generator itself, whose exit code nobody reads.                         *)
LoadEnd(r, outcome) ==
  /\ worker[r].pc = "load"
  /\ \/ outcome = "CANCELLED"
     \/ outcome \in {"SUCCEEDED", "FAILED"} /\ ~(status[r] = "STOPPING" \/ stopSignal[r])
  /\ worker' = [worker EXCEPT ![r] = [pc |-> "final", outcome |-> outcome]]
  /\ UNCHANGED <<row, ask, inUse, waiting, admission>>

Heartbeat(r) ==
  /\ worker[r].pc = "load"
  /\ status[r] = "RUNNING"
  /\ beat[r] # "fresh"
  /\ beat' = [beat EXCEPT ![r] = "fresh"]
  /\ UNCHANGED <<status, stopSignal, queued, noted, hash, ask, result, inUse, waiting, admission, worker>>

(* append_case_result: a load that is called off counts as failed.         *)
StoreResult(r) ==
  result' = [result EXCEPT ![r] = IF worker[r].outcome = "SUCCEEDED" THEN "passed" ELSE "failed"]

WorkerFinalizeMutant(r) ==                   \* also a run that is being stopped gets its verdict
  /\ worker[r].pc = "final"
  /\ StoreResult(r)
  /\ IF status[r] \in {"RUNNING", "STOPPING"}
       THEN SetStatus(r, worker[r].outcome) /\ noted' = [noted EXCEPT ![r] = TRUE]
       ELSE UNCHANGED <<status, noted>>
  /\ WorkerForgets(r, "release")
  /\ UNCHANGED <<stopSignal, beat, queued, hash, ask, inUse, waiting, admission>>

(* _finalize, under the row lock: the case result is stored whatever the    *)
(* run is by now.  The report and an audit event are left out.             *)
WorkerFinalize(r) ==
  /\ worker[r].pc = "final"
  /\ StoreResult(r)
  /\ CASE status[r] = "RUNNING"  -> SetStatus(r, worker[r].outcome) /\ noted' = [noted EXCEPT ![r] = TRUE]
       [] status[r] = "STOPPING" -> SetStatus(r, "CANCELLED") /\ UNCHANGED noted
       [] OTHER                  -> UNCHANGED <<status, noted>>
  /\ WorkerForgets(r, "release")
  /\ UNCHANGED <<stopSignal, beat, queued, hash, ask, inUse, waiting, admission>>

WorkerReleaseMutant(r) ==                    \* released again with every retry
  /\ worker[r].pc = "release"
  /\ inUse' = IF inUse > 0 THEN inUse - 1 ELSE 0
  /\ \E place \in {"release", "promote"} : WorkerAt(r, place)
  /\ UNCHANGED <<row, ask, waiting, admission>>

(* release_perf_concurrency, in a transaction of its own *)
WorkerRelease(r) ==
  /\ worker[r].pc = "release"
  /\ inUse' = IF inUse > 0 THEN inUse - 1 ELSE 0
  /\ WorkerAt(r, "promote")
  /\ UNCHANGED <<row, ask, waiting, admission>>

QueuedSiblings(r) ==
  {q \in Siblings(r) \cup {r} : status[q] = "PENDING" /\ queued[q]}

(* _promote_queued_perf_run: the oldest queued run of the scenario is      *)
(* dispatched once more.  clear_perf_queued_flag pops the flag from the    *)
(* loaded snapshot, which stays as it was in the database; a null summary  *)
(* becomes a dictionary.                                                   *)
WorkerPromote(r) ==
  /\ worker[r].pc = "promote"
  /\ IF QueuedSiblings(r) = {} THEN UNCHANGED <<waiting, noted>>
     ELSE \E q \in QueuedSiblings(r) :
            /\ \A p \in QueuedSiblings(r) : q <= p
            /\ waiting' = [waiting EXCEPT ![q] = @ + 1]
            /\ noted' = [noted EXCEPT ![q] = TRUE]
  /\ WorkerAt(r, "done")
  /\ UNCHANGED <<status, stopSignal, beat, queued, hash, ask, result, inUse, admission>>

-----------------------------------------------------------------------------
(* Time, the sweeper and the processes *)

Age(r) ==
  /\ r \in Sweeping
  /\ status[r] \in {"RUNNING", "STOPPING"}
  /\ beat[r] = "fresh"
  /\ beat' = [beat EXCEPT ![r] = "stale"]
  /\ UNCHANGED <<status, stopSignal, queued, noted, hash, ask, result, inUse, waiting, admission, worker>>

(* reclaim_stale_active_runs, on one run; its runs do not interact.        *)
Sweep(r) ==
  /\ r \in Sweeping
  /\ \/ status[r] = "STOPPING" /\ SetStatus(r, "CANCELLED")
     \/ status[r] = "RUNNING" /\ beat[r] # "fresh" /\ SetStatus(r, "TIMEOUT")
  /\ UNCHANGED <<stopSignal, beat, queued, noted, hash, ask, result, inUse, waiting, admission, worker>>

(* A dispatch task goes down with its process.                             *)
LoseTask(r) ==
  /\ r \in Losses
  /\ \/ waiting[r] > 0 /\ waiting' = [waiting EXCEPT ![r] = @ - 1] /\ UNCHANGED admission
     \/ admission[r] # "none" /\ admission' = [admission EXCEPT ![r] = "none"] /\ UNCHANGED waiting
  /\ UNCHANGED <<row, ask, inUse, worker>>

LoseWorker(r) ==
  /\ r \in Losses
  /\ worker[r].pc \in Working \cup {"promote"}
  /\ WorkerForgets(r, IF worker[r].pc = "promote" THEN "done" ELSE "died")
  /\ UNCHANGED <<row, ask, inUse, waiting, admission>>

-----------------------------------------------------------------------------
Dispatching(r) ==
  \/ Dispatch(r) \/ LookForSiblings(r) \/ Invalid(r) \/ Requeue(r)
  \/ Turned(r) \/ Admit(r)

Loading(r) ==
  \/ WorkerStart(r) \/ WorkerAwait(r) \/ WorkerEnter(r)
  \/ \E outcome \in Outcomes : LoadEnd(r, outcome)
  \/ WorkerFinalize(r) \/ WorkerRelease(r) \/ WorkerPromote(r)

Deciding(r) == Approve(r) \/ Reject(r) \/ FindLate(r) \/ Expire(r)

Next ==
  \E r \in Runs :
    \/ Start(r) \/ Cancel(r) \/ Deciding(r)
    \/ Dispatching(r) \/ Loading(r) \/ Heartbeat(r)
    \/ Age(r) \/ Sweep(r) \/ LoseTask(r) \/ LoseWorker(r)

Spec == Init /\ [][Next]_vars

(* Tasks and workers that live keep going: the worker polls every few      *)
(* seconds and the load generator runs for run_time_seconds.               *)
Fairness == \A r \in Runs : WF_vars(Dispatching(r)) /\ WF_vars(Loading(r))
FairSpec == Spec /\ Fairness

-----------------------------------------------------------------------------
(* Properties *)

(* Every column and every process variable stays in its range.             *)
TypeOK ==
  /\ status \in [Runs -> Statuses]
  /\ stopSignal \in [Runs -> BOOLEAN]
  /\ beat \in [Runs -> {"null", "fresh", "stale"}]
  /\ queued \in [Runs -> BOOLEAN]
  /\ noted \in [Runs -> BOOLEAN]
  /\ hash \in [Runs -> BOOLEAN]
  /\ result \in [Runs -> {"none", "passed", "failed"}]
  /\ approval \in [Runs -> {"none", "PENDING", "EXECUTED", "EXPIRED"}]
  /\ decision \in [Runs -> {"none", "granted", "denied", "failed"}]
  /\ late \in [Runs -> BOOLEAN]
  /\ inUse \in Nat
  /\ waiting \in [Runs -> Nat]
  /\ admission \in [Runs -> {"none", "check", "admit", "requeue"}]
  /\ worker \in [Runs -> [pc : WorkerPlaces, outcome : Outcomes]]

(* At most one run of a scenario waits for its approval, is RUNNING or is  *)
(* being stopped, although no transaction locks a sibling's row; and while *)
(* one is, no other is about to be admitted.  Its worker is alone with the *)
(* target, but for those whose run the sweeper has ended over their heads. *)
Loads(r) == worker[r].pc = "load"
Swept(r) == r \in Sweeping /\ status[r] \in {"TIMEOUT", "CANCELLED"}
Mutex ==
  /\ \A r \in Runs : status[r] \in Holding \/ admission[r] = "admit" =>
       \A q \in Siblings(r) : status[q] \notin Holding /\ admission[q] # "admit"
  /\ \A r \in Runs : Loads(r) /\ ~Swept(r) =>
       \A q \in Siblings(r) : Loads(q) => Swept(q)

(* The slots in use are exactly those of the workers that have not given   *)
(* theirs back, so the quota bounds the loads of the organisation, and a   *)
(* slot is never given back twice.                                         *)
SlotHolders == {r \in Runs : worker[r].pc \in Working \cup {"quit", "died"}}
QuotaExact == inUse = Cardinality(SlotHolders) /\ inUse <= Quota

(* A high-risk load runs because somebody granted it, however the decision,*)
(* a late expiry, a cancel and the polls of the worker interleave.         *)
LoadApproved ==
  \A r \in Runs : HighRisk[r] /\ worker[r].pc = "load" => decision[r] = "granted"

(* A decision and its run agree: a run that was denied has ended without a *)
(* load, and one that was granted waits no more and has a worker to carry  *)
(* it on, or had one.                                                      *)
DecisionKept ==
  \A r \in Runs :
    /\ decision[r] = "denied" => status[r] = "CANCELLED" /\ worker[r].pc # "load"
    /\ decision[r] = "granted" => status[r] # "WAITING_APPROVAL" /\ worker[r].pc # "none"

ContractState(r) ==
  CASE status[r] \in {"PENDING", "VALIDATING", "WAITING_APPROVAL", "RUNNING"} -> "open"
    [] status[r] = "STOPPING"  -> "stopping"
    [] status[r] = "SUCCEEDED" -> "succeeded"
    [] status[r] = "FAILED"    -> "failed"
    [] status[r] = "CANCELLED" -> "cancelled"
    [] status[r] = "TIMEOUT"   -> "timeout"
    [] OTHER                   -> "absent"

Contract ==
  INSTANCE RunContract
    WITH Cases <- {"scenario"},
         state <- [r \in Runs |-> ContractState(r)],
         result <- [r \in Runs |-> [c \in {"scenario"} |-> result[r]]]

(* A performance run keeps the contract of every run, although the process *)
(* that ends it neither started nor admitted it, and stores a result       *)
(* whatever has become of the run: one end, which lasts; a stop excludes   *)
(* every verdict; success only with a passed result, which stays.          *)
KeepsContract == Contract!Spec

(* Terminal states absorb: no late worker, decision, cancel or dispatch    *)
(* moves a run that has ended.                                             *)
TerminalAbsorbing ==
  [][\A r \in Runs : status[r] \in Terminal => status'[r] = status[r]]_vars

(* What the documents and comments say and the code does not do.           *)

(* executor.py: of one scenario there is never a parallel load.            *)
NeverParallelLoad == \A r \in Runs : Loads(r) => \A q \in Siblings(r) : ~Loads(q)

(* executor.py: a terminating run promotes exactly one queued sibling,     *)
(* which promotes the next when it terminates: a queued run is not left    *)
(* behind once every other run of its scenario is over or queued too.      *)
QueueDrains ==
  \A r \in Runs : status[r] = "PENDING" /\ queued[r] ~>
    status[r] # "PENDING" \/ \E q \in Siblings(r) : status[q] \in Holding

(* prd.md 5.1.3: an approval has an execution result only as EXECUTED, so  *)
(* a decision that was carried out is not replaced by an expiry.           *)
DecisionRecorded ==
  \A r \in Runs : decision[r] # "none" => approval[r] = "EXECUTED"

(* m3.md: the slot is taken in VALIDATING and released at the end of the   *)
(* run, so with every run over and every worker gone none is in use.       *)
QuotaReturned ==
  (\A r \in Runs : status[r] \in Terminal \cup {"absent"} /\ worker[r].pc \in {"none", "done", "quit"})
    => inUse = 0
=============================================================================
