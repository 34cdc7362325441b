------------------------------ MODULE TestRun ------------------------------
(***************************************************************************)
(* The life of a TestRun with execution_source = "script": a caller starts *)
(* it under an idempotency key, a background task of the API process       *)
(* validates it and drives its cases one by one, callers cancel it under   *)
(* an optimistic version, a sweeper reclaims runs whose heartbeat is old,  *)
(* and the same task finally triages the failures and asks the quality     *)
(* gate for an evaluation.                                                 *)
(*                                                                         *)
(* One action is one database transaction (or one step outside of any      *)
(* transaction).  A transaction that takes the row lock is atomic here;    *)
(* what the code reads before it takes the lock is a step of its own.      *)
(***************************************************************************)
EXTENDS Integers, FiniteSets

CONSTANTS
  Runs,          \* identities the test_runs rows can take
  Keys,          \* Idempotency-Key values of the start command
  Bodies,        \* request bodies (their hashes)
  Starters,      \* callers of POST /test-runs
  Cancellers,    \* callers of POST /test-runs/{id}/cancel
  NumCases,      \* cases in the snapshot of a run
  Kind,          \* case_type of each case
  MinPassRate,   \* thresholds["min_pass_rate"] of the gate policy
  None           \* the absent run, key or body

ASSUME NumCasesAssumption == NumCases \in Nat \ {0}
ASSUME KindAssumption == Kind \in [1..NumCases -> {"api", "web", "other"}]
ASSUME MinPassRateAssumption == MinPassRate \in 0..100
ASSUME NoneAssumption == None \notin Runs \cup Keys \cup Bodies

VARIABLES
  status, version, stopSignal, beat,   \* columns of test_runs
  cluster,     \* result_summary["clustering"]["generation_status"]
  gate,        \* the GateEvaluation attached by gate_evaluation_id
  result,      \* case_results of attempt 1, per run and case
  record,      \* command_idempotency_records of the start command
  start,       \* the start requests in flight and their replies
  view,        \* what each canceller read of a run before it cancels
  receipt,     \* the run whose cancel a canceller holds a receipt for
  task,        \* the background task of each run
  worker       \* the browser worker subprocess of the task's current case

row == <<status, version, stopSignal, beat>>
vars == <<status, version, stopSignal, beat, cluster, gate, result, record,
          start, view, receipt, task, worker>>

Cases == 1..NumCases
Terminal == {"SUCCEEDED", "FAILED", "CANCELLED", "TIMEOUT"}
Active == {"RUNNING", "STOPPING"}
Statuses == {"PENDING", "VALIDATING"} \cup Active \cup Terminal
Outcomes == {"passed", "failed", "incomplete"}

(* Where the background task of a run stands.  "queued": handed to         *)
(* BackgroundTasks; "raised": ended by an exception of a request that      *)
(* nobody catches; "dead": lost with the process.                          *)
Places == {"none", "queued", "validate", "recheck", "begin", "check", "http",
           "unsupported", "spawn", "await", "final", "triage", "cluster",
           "gate", "done", "raised", "dead"}
Alive == Places \ {"none", "done", "raised", "dead"}

-----------------------------------------------------------------------------
(* Helpers over one row.  A definition called ...Mutant is a slip of the    *)
(* definition after it; PROJECT.json says which property it must break.    *)

SetStatusMutant(r, s, heartbeat) ==          \* no new version for the cancellers
  /\ status' = [status EXCEPT ![r] = s]
  /\ beat' = IF heartbeat THEN [beat EXCEPT ![r] = "fresh"] ELSE beat
  /\ UNCHANGED <<version, stopSignal>>

(* update_test_run_status, under the row lock *)
SetStatus(r, s, heartbeat) ==
  /\ status' = [status EXCEPT ![r] = s]
  /\ version' = [version EXCEPT ![r] = @ + 1]
  /\ beat' = IF heartbeat THEN [beat EXCEPT ![r] = "fresh"] ELSE beat
  /\ UNCHANGED stopSignal

CompleteStoppingMutant(r) == UNCHANGED row   \* the stop is never confirmed

(* complete_stopping_run: only a STOPPING run is moved *)
CompleteStopping(r) ==
  IF status[r] = "STOPPING" THEN SetStatus(r, "CANCELLED", FALSE)
                            ELSE UNCHANGED row

Stopped(r) == status[r] = "STOPPING" \/ stopSignal[r]

Goto(r, place) == task' = [task EXCEPT ![r].pc = place]

(* The task is told to stop, or finds its run no longer RUNNING: it        *)
(* confirms the stop if there is one and returns, with neither triage nor  *)
(* a gate evaluation.                                                      *)
Halt(r) ==
  /\ Stopped(r) \/ status[r] # "RUNNING"
  /\ CompleteStopping(r)
  /\ Goto(r, "done")

NextCaseMutant(r, passed) ==                 \* counts beyond the last case
  task' = [task EXCEPT ![r] =
             [pc     |-> IF @.case = NumCases THEN "final" ELSE "check",
              case   |-> @.case + 1,
              passed |-> @.passed /\ passed]]
ForgetfulNextCaseMutant(r, passed) ==        \* the last case decides alone
  task' = [task EXCEPT ![r] =
             [pc     |-> IF @.case = NumCases THEN "final" ELSE "check",
              case   |-> IF @.case = NumCases THEN @.case ELSE @.case + 1,
              passed |-> passed]]

(* The end of one case: remember whether it passed and go on.              *)
NextCase(r, passed) ==
  task' = [task EXCEPT ![r] =
             [pc     |-> IF @.case = NumCases THEN "final" ELSE "check",
              case   |-> IF @.case = NumCases THEN @.case ELSE @.case + 1,
              passed |-> @.passed /\ passed]]

Record(r, outcome) == result' = [result EXCEPT ![r][task[r].case] = outcome]

Rows(r) == {c \in Cases : result[r][c] # "none"}
RowsWith(r, outcome) == {c \in Cases : result[r][c] = outcome}

-----------------------------------------------------------------------------
NewTask == [pc |-> "none", case |-> 1, passed |-> TRUE]
NoRequest == [pc |-> "idle", key |-> None, body |-> None, run |-> None]
NoView == [run |-> None, version |-> 0, status |-> "absent"]

Init ==
  /\ status = [r \in Runs |-> "absent"]
  /\ version = [r \in Runs |-> 0]
  /\ stopSignal = [r \in Runs |-> FALSE]
  /\ beat = [r \in Runs |-> "null"]
  /\ cluster = [r \in Runs |-> "none"]
  /\ gate = [r \in Runs |-> "none"]
  /\ result = [r \in Runs |-> [c \in Cases |-> "none"]]
  /\ record = [k \in Keys |-> [run |-> None, body |-> None]]
  /\ start = [s \in Starters |-> NoRequest]
  /\ view = [c \in Cancellers |-> NoView]
  /\ receipt = [c \in Cancellers |-> None]
  /\ task = [r \in Runs |-> NewTask]
  /\ worker = [r \in Runs |-> "none"]

-----------------------------------------------------------------------------
(* POST /test-runs *)

(* The idempotency record is read without a lock: a replay is answered     *)
(* from it, another body under the same key is a conflict, and an unknown  *)
(* key goes on to the insert.                                              *)
StartLookup(s, k, b) ==
  /\ start[s].pc = "idle"
  /\ start' = [start EXCEPT ![s] =
       [pc   |-> IF record[k].run = None THEN "insert"
                 ELSE IF record[k].body = b THEN "replied" ELSE "conflict",
        key  |-> k,
        body |-> b,
        run  |-> IF record[k].body = b THEN record[k].run ELSE None]]
  /\ UNCHANGED <<row, cluster, gate, result, record, view, receipt, task, worker>>

StartInsertMutant(s, r) ==                   \* without the unique constraint
  /\ start[s].pc = "insert"
  /\ status[r] = "absent"
  /\ status' = [status EXCEPT ![r] = "PENDING"]
  /\ version' = [version EXCEPT ![r] = 1]
  /\ record' = [record EXCEPT ![start[s].key] = [run |-> r, body |-> start[s].body]]
  /\ start' = [start EXCEPT ![s].pc = "replied", ![s].run = r]
  /\ Goto(r, "queued")
  /\ UNCHANGED <<stopSignal, beat, cluster, gate, result, view, receipt, worker>>

(* The run, its receipt and the idempotency record in one transaction; the *)
(* task is queued behind its commit.                                       *)
StartInsert(s, r) ==
  /\ start[s].pc = "insert"
  /\ record[start[s].key].run = None
  /\ status[r] = "absent"
  /\ status' = [status EXCEPT ![r] = "PENDING"]
  /\ version' = [version EXCEPT ![r] = 1]
  /\ record' = [record EXCEPT ![start[s].key] = [run |-> r, body |-> start[s].body]]
  /\ start' = [start EXCEPT ![s].pc = "replied", ![s].run = r]
  /\ Goto(r, "queued")
  /\ UNCHANGED <<stopSignal, beat, cluster, gate, result, view, receipt, worker>>

(* uq_test_runs_org_idempotency_key: the slower of two inserts under one   *)
(* key is rolled back and answered with an error.                          *)
StartDuplicate(s) ==
  /\ start[s].pc = "insert"
  /\ record[start[s].key].run # None
  /\ start' = [start EXCEPT ![s].pc = "error"]
  /\ UNCHANGED <<row, cluster, gate, result, record, view, receipt, task, worker>>

-----------------------------------------------------------------------------
(* GET /test-runs/{id}, then POST /test-runs/{id}/cancel *)

Look(c, r) ==
  /\ receipt[c] = None
  /\ status[r] # "absent"
  /\ view' = [view EXCEPT ![c] = [run |-> r, version |-> version[r], status |-> status[r]]]
  /\ UNCHANGED <<row, cluster, gate, result, record, start, receipt, task, worker>>

CancelMutant(c, r) ==                        \* whatever the status is by now
  /\ view[c].run = r
  /\ receipt[c] = None
  /\ version[r] = view[c].version
  /\ status' = [status EXCEPT ![r] = IF @ = "RUNNING" THEN "STOPPING" ELSE "CANCELLED"]
  /\ version' = [version EXCEPT ![r] = @ + 1]
  /\ stopSignal' = [stopSignal EXCEPT ![r] = TRUE]
  /\ receipt' = [receipt EXCEPT ![c] = r]
  /\ UNCHANGED <<beat, cluster, gate, result, record, start, view, task, worker>>

(* A run is cancelled at once while nothing executes it, and asked to stop *)
(* while it is RUNNING.  Every refusal (a stale version, a run that is     *)
(* VALIDATING, STOPPING or terminal) leaves the state alone: no step.      *)
Cancel(c, r) ==
  /\ view[c].run = r
  /\ receipt[c] = None
  /\ version[r] = view[c].version
  /\ status[r] \in {"PENDING", "RUNNING"}
  /\ status' = [status EXCEPT ![r] = IF @ = "RUNNING" THEN "STOPPING" ELSE "CANCELLED"]
  /\ version' = [version EXCEPT ![r] = @ + 1]
  /\ stopSignal' = [stopSignal EXCEPT ![r] = TRUE]
  /\ receipt' = [receipt EXCEPT ![c] = r]
  /\ UNCHANGED <<beat, cluster, gate, result, record, start, view, task, worker>>

-----------------------------------------------------------------------------
(* run_test_run_background.  The second transaction also tests the stop    *)
(* signal of a VALIDATING run: no such run has one, for cancel sets it     *)
(* together with STOPPING or CANCELLED.                                    *)

Dispatch(r) ==
  /\ task[r].pc = "queued"
  /\ IF status[r] = "PENDING"
       THEN SetStatus(r, "VALIDATING", FALSE) /\ Goto(r, "validate")
       ELSE UNCHANGED row /\ Goto(r, "done")
  /\ UNCHANGED <<cluster, gate, result, record, start, view, receipt, worker>>

RefuseMutant(r) == UNCHANGED row /\ Goto(r, "done")   \* the run stays as it is

(* The environment is no longer ACTIVE, a case is not valid, a parameter   *)
(* does not resolve: the run FAILS and the task returns.                   *)
Refuse(r) ==
  /\ SetStatus(r, "FAILED", FALSE)
  /\ Goto(r, "done")

Validate(r) ==
  /\ task[r].pc = "validate"
  /\ IF status[r] # "VALIDATING" THEN UNCHANGED row /\ Goto(r, "done")
     ELSE \/ Refuse(r)
          \/ SetStatus(r, "RUNNING", TRUE) /\ Goto(r, "recheck")
  /\ UNCHANGED <<cluster, gate, result, record, start, view, receipt, worker>>

(* Validated once more with the cases as they are after the commit.  (No   *)
(* environment is ever deleted, so the return without one is not taken.)   *)
Recheck(r) ==
  /\ task[r].pc = "recheck"
  /\ IF status[r] # "RUNNING" THEN UNCHANGED row /\ Goto(r, "done")
     ELSE \/ Refuse(r)
          \/ UNCHANGED row /\ Goto(r, "begin")
  /\ UNCHANGED <<cluster, gate, result, record, start, view, receipt, worker>>

(* _execute_script_run: FAILED without a TARGET_ENV *)
Begin(r) ==
  /\ task[r].pc = "begin"
  /\ IF status[r] # "RUNNING" THEN UNCHANGED row /\ Goto(r, "done")
     ELSE \/ Refuse(r)
          \/ UNCHANGED row /\ Goto(r, "check")
  /\ UNCHANGED <<cluster, gate, result, record, start, view, receipt, worker>>

(* The stop check before each case *)
CheckStop(r) ==
  /\ task[r].pc = "check"
  /\ \/ Halt(r)
     \/ /\ ~Stopped(r) /\ status[r] = "RUNNING"
        /\ Goto(r, CASE Kind[task[r].case] = "api" -> "http"
                     [] Kind[task[r].case] = "web" -> "spawn"
                     [] OTHER -> "unsupported")
        /\ UNCHANGED row
  /\ UNCHANGED <<cluster, gate, result, record, start, view, receipt, worker>>

(* The requests of an api case have been made; its result is stored if the *)
(* run is still RUNNING.  Its variables resolve: Recheck resolved the same *)
(* steps with the same parameters.                                         *)
RecordApi(r) ==
  /\ task[r].pc = "http"
  /\ \/ Halt(r) /\ UNCHANGED result
     \/ /\ ~Stopped(r) /\ status[r] = "RUNNING"
        /\ \E outcome \in Outcomes :
             Record(r, outcome) /\ NextCase(r, outcome = "passed")
        /\ SetStatus(r, "RUNNING", TRUE)
  /\ UNCHANGED <<cluster, gate, record, start, view, receipt, worker>>

(* A request of an api case fails or times out.  Neither run_case_http nor *)
(* the task catches what client.request raises: the task is gone while its *)
(* process goes on, and the run stays as it is.                            *)
RequestRaises(r) ==
  /\ task[r].pc = "http"
  /\ Goto(r, "raised")
  /\ UNCHANGED <<row, cluster, gate, result, record, start, view, receipt, worker>>

(* A case type without an executor is recorded as incomplete.  On a run    *)
(* that is no longer RUNNING nothing is stored, and the task goes on.      *)
RecordUnsupported(r) ==
  /\ task[r].pc = "unsupported"
  /\ IF status[r] = "RUNNING"
       THEN Record(r, "incomplete") /\ NextCase(r, FALSE) /\ SetStatus(r, "RUNNING", TRUE)
       ELSE NextCase(r, TRUE) /\ UNCHANGED <<row, result>>
  /\ UNCHANGED <<cluster, gate, record, start, view, receipt, worker>>

(* _execute_web_case: a worker subprocess drives the browser *)
SpawnWorker(r) ==
  /\ task[r].pc = "spawn"
  /\ worker' = [worker EXCEPT ![r] = "started"]
  /\ Goto(r, "await")
  /\ UNCHANGED <<row, cluster, gate, result, record, start, view, receipt>>

(* The worker's only look at the stop signal, without the lock *)
WorkerCheck(r) ==
  /\ worker[r] = "started"
  /\ worker' = [worker EXCEPT ![r] = IF Stopped(r) THEN "exit0" ELSE "browsing"]
  /\ UNCHANGED <<row, cluster, gate, result, record, start, view, receipt, task>>

(* The worker stores the result whatever became of the run meanwhile, and  *)
(* beats only on a RUNNING one.                                            *)
WorkerRecord(r) ==
  /\ worker[r] = "browsing"
  /\ \E outcome \in {"passed", "failed"} : Record(r, outcome)
  /\ IF status[r] = "RUNNING" THEN SetStatus(r, "RUNNING", TRUE) ELSE UNCHANGED row
  /\ worker' = [worker EXCEPT ![r] = "exit0"]
  /\ UNCHANGED <<cluster, gate, record, start, view, receipt, task>>

(* The browser, or the worker around it, fails: no result is stored.       *)
WorkerFail(r) ==
  /\ worker[r] \in {"started", "browsing"}
  /\ worker' = [worker EXCEPT ![r] = "exit1"]
  /\ UNCHANGED <<row, cluster, gate, result, record, start, view, receipt, task>>

AwaitWorkerMutant(r) ==                      \* goes on beside a live worker
  /\ task[r].pc = "await"
  /\ \/ Halt(r)
     \/ /\ ~Stopped(r) /\ status[r] = "RUNNING"
        /\ NextCase(r, result[r][task[r].case] = "passed")
        /\ SetStatus(r, "RUNNING", TRUE)
  /\ UNCHANGED <<cluster, gate, result, record, start, view, receipt, worker>>

(* The task reads the exit code and the stored outcome of the case.        *)
AwaitWorker(r) ==
  /\ task[r].pc = "await"
  /\ worker[r] \in {"exit0", "exit1"}
  /\ worker' = [worker EXCEPT ![r] = "none"]
  /\ \/ Halt(r)
     \/ /\ ~Stopped(r) /\ status[r] = "RUNNING"
        /\ NextCase(r, worker[r] = "exit0" /\ result[r][task[r].case] = "passed")
        /\ SetStatus(r, "RUNNING", TRUE)
  /\ UNCHANGED <<cluster, gate, result, record, start, view, receipt>>

FinishMutant(r) ==                           \* a verdict on any run
  /\ task[r].pc = "final"
  /\ SetStatus(r, IF task[r].passed THEN "SUCCEEDED" ELSE "FAILED", FALSE)
  /\ cluster' = [cluster EXCEPT ![r] = "pending"]
  /\ Goto(r, "triage")
  /\ UNCHANGED <<gate, result, record, start, view, receipt, worker>>
SilentFinishMutant(r) ==                     \* no verdict when a case failed
  /\ task[r].pc = "final"
  /\ IF status[r] = "RUNNING" /\ task[r].passed
       THEN SetStatus(r, "SUCCEEDED", FALSE) /\ cluster' = [cluster EXCEPT ![r] = "pending"]
       ELSE CompleteStopping(r) /\ UNCHANGED cluster
  /\ Goto(r, "triage")
  /\ UNCHANGED <<gate, result, record, start, view, receipt, worker>>

(* The verdict: what the task remembers of its cases *)
Finish(r) ==
  /\ task[r].pc = "final"
  /\ IF status[r] = "RUNNING"
       THEN /\ SetStatus(r, IF task[r].passed THEN "SUCCEEDED" ELSE "FAILED", FALSE)
            /\ cluster' = [cluster EXCEPT ![r] = "pending"]
       ELSE CompleteStopping(r) /\ UNCHANGED cluster
  /\ Goto(r, "triage")
  /\ UNCHANGED <<gate, result, record, start, view, receipt, worker>>

-----------------------------------------------------------------------------
(* schedule_failure_triage, then schedule_gate_evaluation, by the same     *)
(* task.  Both read the run as it is by then.                              *)

PrepareTriage(r) ==
  /\ task[r].pc = "triage"
  /\ IF status[r] \notin Terminal THEN UNCHANGED cluster /\ Goto(r, "gate")
     ELSE IF RowsWith(r, "failed") = {}
       THEN cluster' = [cluster EXCEPT ![r] = "ready"] /\ Goto(r, "gate")
       ELSE cluster' = [cluster EXCEPT ![r] = "pending"] /\ Goto(r, "cluster")
  /\ UNCHANGED <<row, gate, result, record, start, view, receipt, worker>>

Triage(r) ==
  /\ task[r].pc = "cluster"
  /\ \E generated \in {"ready", "degraded"} :
       cluster' = [cluster EXCEPT ![r] = generated]
  /\ Goto(r, "gate")
  /\ UNCHANGED <<row, gate, result, record, start, view, receipt, worker>>

(* compute_pass_rate over the stored rows, against the threshold *)
PassRateMet(r) ==
  LET total == Cardinality(Rows(r))
  IN  IF total = 0 THEN MinPassRate = 0
      ELSE Cardinality(RowsWith(r, "passed")) * 100 >= MinPassRate * total

EvaluateGateMutant(r) ==                     \* whatever the run's status
  /\ task[r].pc = "gate"
  /\ RowsWith(r, "incomplete") = {}
  /\ gate' = [gate EXCEPT ![r] = IF PassRateMet(r) THEN "pass" ELSE "fail"]
  /\ version' = [version EXCEPT ![r] = @ + 1]
  /\ Goto(r, "done")
  /\ UNCHANGED <<status, stopSignal, beat, cluster, result, record, start, view, receipt, worker>>

(* _evaluate_run with cas_attach_gate_evaluation: a project without a      *)
(* policy, a run that is not SUCCEEDED or FAILED and a report with an      *)
(* incomplete case get no evaluation.                                      *)
EvaluateGate(r) ==
  /\ task[r].pc = "gate"
  /\ \/ UNCHANGED <<row, gate>>                      \* no policy in the project
     \/ /\ status[r] \in {"SUCCEEDED", "FAILED"}
        /\ RowsWith(r, "incomplete") = {}
        /\ gate[r] = "none"
        /\ gate' = [gate EXCEPT ![r] = IF PassRateMet(r) THEN "pass" ELSE "fail"]
        /\ version' = [version EXCEPT ![r] = @ + 1]
        /\ UNCHANGED <<status, stopSignal, beat>>
  /\ Goto(r, "done")
  /\ UNCHANGED <<cluster, result, record, start, view, receipt, worker>>

-----------------------------------------------------------------------------
(* Time, the sweeper and the process *)

(* The heartbeat of an active run grows older than the timeout: nothing    *)
(* beats while a case is being driven.                                     *)
Age(r) ==
  /\ status[r] \in Active
  /\ beat[r] = "fresh"
  /\ beat' = [beat EXCEPT ![r] = "stale"]
  /\ UNCHANGED <<status, version, stopSignal, cluster, gate, result, record,
                 start, view, receipt, task, worker>>

(* reclaim_stale_active_runs, called by the tests and by nothing in the    *)
(* application: first every STOPPING run is CANCELLED, then every RUNNING  *)
(* run without a recent heartbeat is timed out.                            *)
Swept(r) ==
  CASE status[r] = "STOPPING" /\ (stopSignal[r] \/ beat[r] # "fresh") -> "CANCELLED"
    [] status[r] = "RUNNING" /\ beat[r] # "fresh" -> IF stopSignal[r] THEN "STOPPING" ELSE "TIMEOUT"
    [] OTHER -> status[r]

Sweep ==
  /\ \E r \in Runs : Swept(r) # status[r]
  /\ status' = [r \in Runs |-> Swept(r)]
  /\ version' = [r \in Runs |-> IF Swept(r) # status[r] THEN version[r] + 1 ELSE version[r]]
  /\ UNCHANGED <<stopSignal, beat, cluster, gate, result, record, start, view,
                 receipt, task, worker>>

(* The API process dies: its background tasks and the requests it was      *)
(* serving are gone.  A worker subprocess may or may not survive it.       *)
Crash ==
  /\ \E r \in Runs : task[r].pc \in Alive
  /\ task' = [r \in Runs |-> IF task[r].pc \in Alive THEN [task[r] EXCEPT !.pc = "dead"] ELSE task[r]]
  /\ start' = [s \in Starters |-> IF start[s].pc = "insert" THEN [start[s] EXCEPT !.pc = "error"] ELSE start[s]]
  /\ \E killed \in SUBSET Runs :
       worker' = [r \in Runs |-> IF r \in killed THEN "none" ELSE worker[r]]
  /\ UNCHANGED <<row, cluster, gate, result, record, view, receipt>>

-----------------------------------------------------------------------------
Starting(s) ==
  \/ \E k \in Keys, b \in Bodies : StartLookup(s, k, b)
  \/ \E r \in Runs : StartInsert(s, r)
  \/ StartDuplicate(s)

Cancelling(c) == \E r \in Runs : Look(c, r) \/ Cancel(c, r)

Executing(r) ==
  \/ Dispatch(r) \/ Validate(r) \/ Recheck(r) \/ Begin(r)
  \/ CheckStop(r) \/ RecordApi(r) \/ RequestRaises(r) \/ RecordUnsupported(r)
  \/ SpawnWorker(r) \/ AwaitWorker(r) \/ Finish(r)
  \/ PrepareTriage(r) \/ Triage(r) \/ EvaluateGate(r)

Browsing(r) == WorkerCheck(r) \/ WorkerRecord(r) \/ WorkerFail(r)

Next ==
  \/ \E s \in Starters : Starting(s)
  \/ \E c \in Cancellers : Cancelling(c)
  \/ \E r \in Runs : Executing(r) \/ Browsing(r) \/ Age(r)
  \/ Sweep
  \/ Crash

Spec == Init /\ [][Next]_vars

(* The event loop keeps running a task it has not lost, every HTTP request *)
(* of a case is answered or raises, after a timeout at the latest, and the *)
(* browser library bounds each action of a worker.  Nothing schedules the  *)
(* sweeper, and nobody has to call.                                        *)
Fairness == \A r \in Runs : WF_vars(Executing(r)) /\ WF_vars(Browsing(r))
FairSpec == Spec /\ Fairness
-----------------------------------------------------------------------------
(* Properties *)

RowType ==
  /\ status \in [Runs -> Statuses \cup {"absent"}]
  /\ version \in [Runs -> Nat]
  /\ stopSignal \in [Runs -> BOOLEAN]
  /\ beat \in [Runs -> {"null", "fresh", "stale"}]
EvidenceType ==
  /\ cluster \in [Runs -> {"none", "pending", "ready", "degraded"}]
  /\ gate \in [Runs -> {"none", "pass", "fail"}]
  /\ result \in [Runs -> [Cases -> Outcomes \cup {"none"}]]
CommandType ==
  /\ record \in [Keys -> [run : Runs \cup {None}, body : Bodies \cup {None}]]
  /\ start \in [Starters -> [pc   : {"idle", "insert", "replied", "conflict", "error"},
                             key  : Keys \cup {None},
                             body : Bodies \cup {None},
                             run  : Runs \cup {None}]]
  /\ view \in [Cancellers -> [run : Runs \cup {None}, version : Nat,
                              status : Statuses \cup {"absent"}]]
  /\ receipt \in [Cancellers -> Runs \cup {None}]
ProcessType ==
  /\ task \in [Runs -> [pc : Places, case : Cases, passed : BOOLEAN]]
  /\ worker \in [Runs -> {"none", "started", "browsing", "exit0", "exit1"}]

(* Every column and every process variable stays in its range.             *)
TypeOK == RowType /\ EvidenceType /\ CommandType /\ ProcessType

(* No false green: a run that ends SUCCEEDED has a stored result for each  *)
(* of its cases and every one of them passed, although the verdict is      *)
(* drawn from a flag the task carries across many transactions and the     *)
(* results of web cases are stored by another process.                     *)
NoFalseGreen ==
  \A r \in Runs : status[r] = "SUCCEEDED" => \A c \in Cases : result[r][c] = "passed"

(* Why there is no false green.  What the task remembers is what is stored *)
(* as long as its run is RUNNING; a worker belongs to a task that awaits   *)
(* it or has died; and a verdict leaves neither a worker nor a task that   *)
(* could still store a result.                                             *)
Driving == {"check", "http", "unsupported", "spawn", "await", "final"}
Before == {"none", "queued", "validate", "recheck", "begin"}
After == {"triage", "cluster", "gate", "done", "raised", "dead"}
MemoryTrue(r) ==
  status[r] = "RUNNING" /\ task[r].pc \in Driving /\ task[r].passed =>
    \A c \in Cases : c < task[r].case \/ task[r].pc = "final" => result[r][c] = "passed"
WorkerPlaced(r) == worker[r] # "none" => task[r].pc \in {"await", "dead"}
VerdictLast(r) ==
  status[r] \in {"SUCCEEDED", "FAILED"} => worker[r] = "none" /\ task[r].pc \in After
FreshTask(r) ==
  /\ status[r] = "absent" => task[r].pc = "none"
  /\ task[r].pc \in Before => task[r].case = 1
Bookkeeping ==
  \A r \in Runs : MemoryTrue(r) /\ WorkerPlaced(r) /\ VerdictLast(r) /\ FreshTask(r)

(* A cancel that was accepted wins: whatever task, worker or sweeper does  *)
(* afterwards, the run is on its way to CANCELLED or there, never a verdict*)
(* and never TIMEOUT; and only one caller gets the receipt.                *)
CancelWins ==
  \A c \in Cancellers : receipt[c] # None =>
    /\ status[receipt[c]] \in {"STOPPING", "CANCELLED"}
    /\ stopSignal[receipt[c]]
    /\ \A d \in Cancellers : receipt[d] = receipt[c] => d = c

(* A start is done once per Idempotency-Key: every accepted reply names    *)
(* the run the key's record names and was given to the same body, two keys *)
(* never share a run, and no run exists that no record accounts for.       *)
StartOnce ==
  /\ \A s \in Starters : start[s].pc = "replied" =>
       record[start[s].key] = [run |-> start[s].run, body |-> start[s].body]
  /\ \A j, k \in Keys : record[j].run # None /\ record[j].run = record[k].run => j = k
  /\ \A r \in Runs : status[r] # "absent" => \E k \in Keys : record[k].run = r

(* An evaluation hangs on a concluded run only, and a run that SUCCEEDED   *)
(* is never failed by the gate of the same results.                        *)
GateOnVerdict ==
  \A r \in Runs : gate[r] # "none" =>
    /\ status[r] \in {"SUCCEEDED", "FAILED"}
    /\ status[r] = "SUCCEEDED" => gate[r] = "pass"

(* Terminal states absorb: no late transaction of the task, of a worker,   *)
(* of a caller or of the sweeper moves a run that has ended.               *)
TerminalAbsorbing ==
  [][\A r \in Runs : status[r] \in Terminal => status'[r] = status[r]]_vars

(* The results under a verdict are final: nothing is stored once the run   *)
(* is SUCCEEDED or FAILED, so what triage and gate read stays true.  (A    *)
(* worker may still store under CANCELLED or TIMEOUT.)                     *)
EvidenceFrozen ==
  [][\A r \in Runs : status[r] \in {"SUCCEEDED", "FAILED"} => result'[r] = result[r]]_vars

(* Optimistic locking does what it is for: an accepted cancel acts on the  *)
(* very state its caller had read, with no other change in between.        *)
CancelActsOnWhatItRead ==
  [][\A c \in Cancellers : receipt'[c] # receipt[c] =>
       status[receipt'[c]] = view[c].status]_vars

(* The run as its contract shows it: everything before the end is "open"   *)
(* until a stop is asked for.                                              *)
ContractState(r) ==
  CASE status[r] = "absent"    -> "absent"
    [] status[r] = "STOPPING"  -> "stopping"
    [] status[r] = "SUCCEEDED" -> "succeeded"
    [] status[r] = "FAILED"    -> "failed"
    [] status[r] = "CANCELLED" -> "cancelled"
    [] status[r] = "TIMEOUT"   -> "timeout"
    [] OTHER                   -> "open"

Contract == INSTANCE RunContract
  WITH state <- [r \in Runs |-> ContractState(r)]

(* The dispatcher, executor, worker, cancel command and sweeper together   *)
(* keep the contract of a run.                                             *)
KeepsContract == Contract!Spec

(* A task that returned, rather than being lost with its process or to an  *)
(* exception, leaves nothing half done: its run has ended, or a stop was   *)
(* asked for and is still to be confirmed.                                 *)
NothingAbandoned ==
  \A r \in Runs : task[r].pc = "done" => status[r] \in Terminal \cup {"STOPPING"}

(* Every accepted run ends or is being stopped, with two exceptions and no *)
(* other: the process died, or a request of an api case raised.            *)
Lost(r) == task[r].pc \in {"dead", "raised"}
EventuallyDecided ==
  \A r \in Runs : status[r] # "absent" ~>
    status[r] \in Terminal \cup {"STOPPING"} \/ Lost(r)

(* A stop asked for while the task drives the cases is confirmed by it,    *)
(* with the same two exceptions: a worker, an unsupported case or the last *)
(* transaction between the stop and the next look does not swallow it.     *)
StopConfirmed ==
  \A r \in Runs :
    status[r] = "STOPPING" /\ task[r].pc \in {"check", "http", "unsupported", "spawn", "await", "final"}
      ~> status[r] = "CANCELLED" \/ Lost(r)

(* What the documents say and the code does not do; TLC refutes all three. *)

(* prd.md:585: no run is RUNNING for ever, here not even while its process *)
(* lives.  A request that raises leaves one so, and nothing calls the      *)
(* sweeper.                                                                *)
NoPermanentRunning ==
  \A r \in Runs : status[r] = "RUNNING" ~> status[r] # "RUNNING" \/ task[r].pc = "dead"

(* prd.md AC-040: an accepted cancel reaches CANCELLED, as long as the     *)
(* task that executes the run is not lost.                                 *)
CancelTakesEffect ==
  \A c \in Cancellers, r \in Runs :
    receipt[c] = r ~> status[r] = "CANCELLED" \/ Lost(r)

(* prd.md AC-061: a partial report never passes the gate by default.       *)
PartialReportNeverPasses ==
  \A r \in Runs : gate[r] = "pass" => Rows(r) = Cases
=============================================================================
