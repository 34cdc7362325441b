-------------------------------- MODULE Gate --------------------------------
(***************************************************************************)
(* The quality gate of one run: the tasks that evaluate it once it has     *)
(* ended, the check run they write to GitHub on the way, and the readers   *)
(* of the verdict (API-146).  Nothing is locked until the evaluation is    *)
(* attached: the run, the policy and the results are three reads, GitHub   *)
(* is called up to three times, and only then is the run's row locked.     *)
(***************************************************************************)
EXTENDS Naturals, FiniteSets

CONSTANTS
  Evaluators,  \* tasks that end with schedule_gate_evaluation
  Readers,     \* requests for the gate of the run
  Policies,    \* [mode, rate, limit] of the project, as edited over time
  Reports,     \* what is stored of a run, [partial, perf, metrics, rows]
  MaxEdits,    \* how often the policy is created or edited
  MaxTurns,    \* how often the run's verdict or results are written
  None

Metrics == {"p95_ms", "error_rate"}
Modes == {"blocking", "report_only"}
Results == {"pass", "fail"}
Conclusions == {"success", "failure", "neutral"}
Reasons == {"agent_source", "cancelled_or_timeout", "not_terminal", "policy_unmet",
            "partial_report", "perf_report_missing"}

(* A report says whether it is one of a load (its summary does), holds the *)
(* metrics, or None, and counts the results.                               *)
Report ==
  [partial : BOOLEAN, perf : BOOLEAN, metrics : [Metrics -> Nat \cup {None}],
   rows : [passed : Nat, total : Nat, gaps : BOOLEAN]]
GateEvaluation ==
  [result : Results, policy : Policies, report : Report, sync : {"none", "completed", "failed"}]

ASSUME GateAssumption ==
  /\ Policies \subseteq [mode : Modes, rate : Nat, limit : [Metrics -> Nat]]
  /\ Reports \subseteq Report
  /\ None \notin Evaluators /\ None \notin Policies /\ None \notin GateEvaluation
  /\ None \notin Conclusions /\ None \notin Nat
  /\ Evaluators \cap (Reasons \cup {"state"}) = {}
  /\ MaxEdits \in Nat /\ MaxTurns \in Nat

VARIABLES
  source,      \* execution_source, and "perf" for a run with a performance case
  github,      \* there is a connector to write to
  runStatus,   \* of the run
  report,      \* result_summary and the case results of the run
  policy,      \* the newest policy of the project
  gate,        \* gate_evaluation_id: the evaluator whose evaluation is attached
  evaluation,  \* per evaluator, the evaluation it has committed
  checks,      \* the check runs GitHub has
  alert,       \* evaluators with a check_run.sync_failed event
  task,        \* the evaluators
  reader,      \* the readers
  edits, turns

facts == <<source, github, runStatus, report, policy, edits, turns>>
gateVars == <<facts, gate, evaluation, checks, alert, task, reader>>

Sources == {"script", "external_ci", "perf", "agent"}

(* The gate tells no more of a status than its set: TERMINAL_STATUSES      *)
(* (SUCCEEDED, FAILED), SKIP_STATUSES (CANCELLED, TIMEOUT) and the rest.   *)
Statuses == {"terminal", "skipped", "open"}

NoReport ==
  [partial |-> FALSE, perf |-> FALSE, metrics |-> [m \in Metrics |-> None],
   rows |-> [passed |-> 0, total |-> 0, gaps |-> FALSE]]
Measured(s) == {m \in Metrics : s.metrics[m] # None}

(* What an evaluator or a reader has read so far: the run with its summary, *)
(* then the policy, then the case results.                                  *)
View ==
  [gate : Evaluators \cup {None}, status : Statuses, report : Report, policy : Policies \cup {None}]
NoView == [gate |-> None, status |-> "open", report |-> NoReport, policy |-> None]
NewTask == [pc |-> "idle", view |-> NoView, attempt |-> 1, sync |-> "none"]
NewReader == [pc |-> "idle", view |-> NoView, answer |-> None]

RunRead == [NoView EXCEPT !.gate = gate, !.status = runStatus, !.report = [report EXCEPT !.rows = NoReport.rows]]
RowsRead(view) == [view EXCEPT !.report.rows = report.rows]

GateInit ==
  /\ source \in Sources /\ github \in BOOLEAN
  /\ runStatus = "open" /\ report = NoReport
  /\ policy \in Policies \cup {None}
  /\ gate = None /\ evaluation = [e \in Evaluators |-> None]
  /\ checks = {} /\ alert = {}
  /\ task = [e \in Evaluators |-> NewTask]
  /\ reader = [r \in Readers |-> NewReader]
  /\ edits = 0 /\ turns = 0

-----------------------------------------------------------------------------
(* The rules *)

(* is_partial_report *)
Partial(s) == s.partial \/ s.rows.gaps

(* The summary is one of a load, and nothing was measured.                 *)
PerfMissing(s) == s.perf /\ Measured(s) = {}

(* compute_pass_rate and its threshold.  The code compares floats; the two *)
(* differ by rounding only, and not at all for the rates 0, 50 and 100.    *)
RateMet(rows, rate) ==
  IF rows.total = 0 THEN rate = 0 ELSE rows.passed * 100 >= rate * rows.total

(* build_threshold_details: a metric that was not measured is not judged.  *)
ResultMutant(p, s) ==                        \* the load is not judged
  IF RateMet(s.rows, p.rate) THEN "pass" ELSE "fail"
Result(p, s) ==
  IF RateMet(s.rows, p.rate) /\ \A m \in Measured(s) : s.metrics[m] <= p.limit[m]
    THEN "pass" ELSE "fail"

Conclusion(p, result) ==
  IF result = "pass" THEN "success" ELSE IF p.mode = "blocking" THEN "failure" ELSE "neutral"

-----------------------------------------------------------------------------
(* The run and the policy *)

(* The run ends, with what is stored of it by then; an external run may    *)
(* still be reopened, or its evidence grow worse (see ExternalCi).  What   *)
(* ends a performance run before its worker does leaves no result and no   *)
(* mark of a load.                                                         *)
Turn ==
  /\ turns < MaxTurns /\ turns' = turns + 1
  /\ runStatus = "open" \/ source = "external_ci"
  /\ runStatus' \in {st \in Statuses : st = "open" => source = "external_ci"}
  /\ \E s \in Reports :
       /\ s.perf => source = "perf"
       /\ source = "perf" => s.perf \/ s.rows.total = 0
       /\ report' = s
  /\ UNCHANGED <<source, github, policy, edits, gate, evaluation, checks, alert, task, reader>>

(* create_policy_for_caller and patch_policy_for_caller *)
EditPolicy ==
  /\ edits < MaxEdits /\ edits' = edits + 1
  /\ policy' \in Policies
  /\ UNCHANGED <<source, github, runStatus, report, turns, gate, evaluation, checks, alert, task, reader>>

-----------------------------------------------------------------------------
(* _evaluate_run *)

GoOn(e, place) == task' = [task EXCEPT ![e].pc = place]
End(e, place) == task' = [task EXCEPT ![e] = [NewTask EXCEPT !.pc = place]]

(* One task evaluates a run when it has ended; every executor of an        *)
(* external run does, whatever has become of the run.  For a performance   *)
(* run it is the worker's, behind the summary that it stores.              *)
Schedule(e) ==
  /\ task[e].pc = "idle"
  /\ source = "external_ci" \/ (runStatus # "open" /\ \A f \in Evaluators : task[f].pc = "idle")
  /\ source = "perf" /\ runStatus = "terminal" => report.perf
  /\ GoOn(e, "run")
  /\ UNCHANGED <<facts, gate, evaluation, checks, alert, reader>>

ReadRun(e) ==
  /\ task[e].pc = "run"
  /\ IF gate # None \/ source = "agent" \/ runStatus # "terminal"
       THEN End(e, "done")
       ELSE task' = [task EXCEPT ![e].pc = "policy", ![e].view = RunRead]
  /\ UNCHANGED <<facts, gate, evaluation, checks, alert, reader>>

ReadPolicy(e) ==
  /\ task[e].pc = "policy"
  /\ IF policy = None
       THEN End(e, "done")
       ELSE task' = [task EXCEPT ![e].pc = "rows", ![e].view.policy = policy]
  /\ UNCHANGED <<facts, gate, evaluation, checks, alert, reader>>

ReadRowsMutant(e) ==                         \* a run without metrics is judged
  /\ task[e].pc = "rows"
  /\ LET view == RowsRead(task[e].view)
     IN  IF Partial(view.report)
           THEN End(e, "done")
           ELSE task' = [task EXCEPT ![e].pc = "sync", ![e].view = view]
  /\ UNCHANGED <<facts, gate, evaluation, checks, alert, reader>>
ReadRows(e) ==
  /\ task[e].pc = "rows"
  /\ LET view == RowsRead(task[e].view)
     IN  IF Partial(view.report) \/ PerfMissing(view.report)
           THEN End(e, "done")
           ELSE task' = [task EXCEPT ![e].pc = "sync", ![e].view = view]
  /\ UNCHANGED <<facts, gate, evaluation, checks, alert, reader>>

(* sync_check_run_stub: without a connector the phases are only noted.     *)
MaxSyncAttempts == 3

Judged(e) == Result(task[e].view.policy, task[e].view.report)

CheckRun(e, phase) ==
  [by |-> e,
   conclusion |-> IF phase = "completed" THEN Conclusion(task[e].view.policy, Judged(e)) ELSE None]

Synced(e) ==
  /\ task[e].pc = "sync"
  /\ task' = [task EXCEPT ![e].pc = "attach", ![e].sync = "completed"]
  /\ checks' = IF github THEN checks \cup {CheckRun(e, "completed")} ELSE checks
  /\ UNCHANGED <<facts, gate, evaluation, alert, reader>>

(* One of the three requests fails, or its answer is lost: GitHub has no   *)
(* check run, one that is open, or one that is completed all the same.     *)
SyncFails(e) ==
  /\ task[e].pc = "sync" /\ github
  /\ \/ UNCHANGED checks
     \/ \E phase \in {"queued", "completed"} : checks' = checks \cup {CheckRun(e, phase)}

SyncRetry(e) ==
  /\ SyncFails(e) /\ task[e].attempt < MaxSyncAttempts
  /\ task' = [task EXCEPT ![e].attempt = @ + 1]
  /\ UNCHANGED <<facts, gate, evaluation, alert, reader>>

SyncGivesUpMutant(e) ==                      \* without an audit event
  /\ SyncFails(e) /\ task[e].attempt = MaxSyncAttempts
  /\ task' = [task EXCEPT ![e].pc = "attach", ![e].sync = "none"]
  /\ UNCHANGED <<facts, gate, evaluation, alert, reader>>
SyncGivesUp(e) ==
  /\ SyncFails(e) /\ task[e].attempt = MaxSyncAttempts
  /\ task' = [task EXCEPT ![e].pc = "attach", ![e].sync = "failed"]
  /\ UNCHANGED <<facts, gate, evaluation, alert, reader>>

Evaluation(e) ==
  LET view == task[e].view
  IN  [result |-> Judged(e), policy |-> view.policy, report |-> view.report, sync |-> task[e].sync]

(* insert_gate_evaluation and cas_attach_gate_evaluation: the run is read  *)
(* again under its lock; who comes second deletes what it has inserted, but *)
(* commits the audit event.                                                *)
AttachMutant(e) ==                           \* not read again
  /\ task[e].pc = "attach"
  /\ gate' = e /\ evaluation' = [evaluation EXCEPT ![e] = Evaluation(e)]
  /\ alert' = IF task[e].sync = "failed" THEN alert \cup {e} ELSE alert
  /\ End(e, "done")
  /\ UNCHANGED <<facts, checks, reader>>
DeletingAttachMutant(e) ==                   \* deleted in any case
  /\ task[e].pc = "attach"
  /\ gate' = IF gate = None THEN e ELSE gate
  /\ alert' = IF task[e].sync = "failed" THEN alert \cup {e} ELSE alert
  /\ End(e, "done")
  /\ UNCHANGED <<facts, evaluation, checks, reader>>
Attach(e) ==
  /\ task[e].pc = "attach"
  /\ IF gate = None
       THEN gate' = e /\ evaluation' = [evaluation EXCEPT ![e] = Evaluation(e)]
       ELSE UNCHANGED <<gate, evaluation>>
  /\ alert' = IF task[e].sync = "failed" THEN alert \cup {e} ELSE alert
  /\ End(e, "done")
  /\ UNCHANGED <<facts, checks, reader>>

Evaluating(e) ==
  \/ ReadRun(e) \/ ReadPolicy(e) \/ ReadRows(e)
  \/ Synced(e) \/ SyncRetry(e) \/ SyncGivesUp(e) \/ Attach(e)

EvaluatorDies(e) ==
  /\ task[e].pc \notin {"idle", "done", "dead"}
  /\ End(e, "dead")
  /\ UNCHANGED <<facts, gate, evaluation, checks, alert, reader>>

-----------------------------------------------------------------------------
(* get_run_gate_evaluation_projection and unevaluated_reason_for_run *)

Answer(r, answer) == reader' = [reader EXCEPT ![r].pc = "done", ![r].answer = answer]

AskRun(r) ==
  /\ reader[r].pc = "idle"
  /\ reader' = [reader EXCEPT ![r].pc = "find", ![r].view = RunRead]
  /\ UNCHANGED <<facts, gate, evaluation, checks, alert, task>>

(* An evaluation is shown; a run whose evaluation cannot be found is an    *)
(* error; otherwise the reason is worked out.                              *)
FindEvaluation(r) ==
  /\ reader[r].pc = "find"
  /\ LET view == reader[r].view
         found == {e \in Evaluators : evaluation[e] # None}
     IN  \/ \E e \in found : Answer(r, e)
         \/ found = {} /\ view.gate # None /\ Answer(r, "state")
         \/ /\ found = {} /\ view.gate = None
            /\ \/ source = "agent" /\ Answer(r, "agent_source")
               \/ source # "agent" /\ view.status = "skipped" /\ Answer(r, "cancelled_or_timeout")
               \/ source # "agent" /\ view.status = "open" /\ Answer(r, "not_terminal")
               \/ /\ source # "agent" /\ view.status = "terminal"
                  /\ reader' = [reader EXCEPT ![r].pc = "policy"]
  /\ UNCHANGED <<facts, gate, evaluation, checks, alert, task>>

AskPolicy(r) ==
  /\ reader[r].pc = "policy"
  /\ IF policy = None
       THEN Answer(r, "policy_unmet")
       ELSE reader' = [reader EXCEPT ![r].pc = "rows", ![r].view.policy = policy]
  /\ UNCHANGED <<facts, gate, evaluation, checks, alert, task>>

AskRows(r) ==
  /\ reader[r].pc = "rows"
  /\ LET view == RowsRead(reader[r].view)
         reason == IF Partial(view.report) THEN "partial_report"
                   ELSE IF PerfMissing(view.report) THEN "perf_report_missing" ELSE "not_terminal"
     IN  reader' = [reader EXCEPT ![r] = [pc |-> "done", view |-> view, answer |-> reason]]
  /\ UNCHANGED <<facts, gate, evaluation, checks, alert, task>>

Reading(r) == AskRun(r) \/ FindEvaluation(r) \/ AskPolicy(r) \/ AskRows(r)

GateNext ==
  \/ Turn \/ EditPolicy
  \/ \E e \in Evaluators : Schedule(e) \/ Evaluating(e) \/ EvaluatorDies(e)
  \/ \E r \in Readers : Reading(r)

GateSpec == GateInit /\ [][GateNext]_gateVars

-----------------------------------------------------------------------------
(* Properties *)

CheckState == [by : Evaluators, conclusion : Conclusions \cup {None}]
TaskState ==
  [pc : {"idle", "run", "policy", "rows", "sync", "attach", "done", "dead"}, view : View,
   attempt : 1..MaxSyncAttempts, sync : {"none", "completed", "failed"}]
ReaderState ==
  [pc : {"idle", "find", "policy", "rows", "done"}, view : View,
   answer : Evaluators \cup Reasons \cup {"state", None}]

GateTypeOK ==
  /\ source \in Sources /\ github \in BOOLEAN
  /\ runStatus \in Statuses /\ report \in Report /\ policy \in Policies \cup {None}
  /\ gate \in Evaluators \cup {None} /\ evaluation \in [Evaluators -> GateEvaluation \cup {None}]
  /\ checks \subseteq CheckState
  /\ alert \subseteq Evaluators
  /\ task \in [Evaluators -> TaskState] /\ reader \in [Readers -> ReaderState]
  /\ edits \in 0..MaxEdits /\ turns \in 0..MaxTurns

(* However many tasks evaluate the run at the same time, one evaluation of *)
(* it is stored, and it is the one that is attached.                       *)
OneEvaluation == \A e \in Evaluators : evaluation[e] # None <=> gate = e

(* A pass is earned: the run was no agent's, nothing of its report is      *)
(* missing, enough cases passed, and a load was measured and within every  *)
(* limit (prd.md AC-057, AC-061: never by default), by the policy that the *)
(* evaluation keeps, whatever the policy has become since.                 *)
PassEarned ==
  \A e \in Evaluators : evaluation[e] # None /\ evaluation[e].result = "pass" =>
    LET s == evaluation[e].report  p == evaluation[e].policy
    IN  /\ source # "agent" /\ p \in Policies
        /\ ~s.partial /\ ~s.rows.gaps
        /\ s.rows.total > 0 => 100 * (s.rows.total - s.rows.passed) <= (100 - p.rate) * s.rows.total
        /\ s.rows.total = 0 => p.rate = 0
        /\ ~\E m \in Measured(s) : s.metrics[m] > p.limit[m]
        /\ source = "perf" => Measured(s) # {}

(* No answer to GitHub is lost in silence (AC-059): an evaluation has a    *)
(* completed check run there, or an alert; and no check run that it made,  *)
(* by a retry after a lost answer too, tells another conclusion.           *)
NeverSilent ==
  gate # None =>
    LET e == gate  done == {c \in checks : c.by = e /\ c.conclusion # None}
    IN  /\ evaluation[e].sync = "failed" => e \in alert
        /\ evaluation[e].sync # "failed" /\ github => done # {}
        /\ \A c \in done : c.conclusion = Conclusion(evaluation[e].policy, evaluation[e].result)

(* A reader of the gate is never stuck between the run and the evaluation, *)
(* is shown the one that counts, and is told a reason for what cannot be   *)
(* evaluated by what it has read, and for nothing else.                    *)
Evaluable(view) ==
  /\ source # "agent" /\ view.status = "terminal" /\ view.policy # None
  /\ ~Partial(view.report) /\ ~PerfMissing(view.report)
ReaderTold ==
  \A r \in Readers : reader[r].pc = "done" =>
    LET view == reader[r].view  answer == reader[r].answer
    IN  /\ answer # "state"
        /\ answer \in Evaluators => gate = answer
        /\ answer \in Reasons \ {"not_terminal"} => ~Evaluable(view)
        /\ answer = "not_terminal" => view.status = "open" \/ Evaluable(view)

(* Disproved: who is told that the run has not ended was told so while it  *)
(* had not (docs/10_ai_context/context/m2.md: the reason of a run in       *)
(* progress).                                                              *)
NotTerminalMeansOpen ==
  \A r \in Readers : reader[r].answer = "not_terminal" => reader[r].view.status = "open"

(* Disproved: all completed check runs of the run tell the same.  Who      *)
(* loses the race for the run has told GitHub its own verdict before.      *)
OneConclusion == \A c, d \in checks : None \notin {c.conclusion, d.conclusion} => c.conclusion = d.conclusion

(* Disproved: an alert of a failed synchronisation is about an evaluation  *)
(* that exists.  The loser's alert is committed, its evaluation is not.    *)
AlertsAreReal == \A e \in alert : evaluation[e] # None

(* Disproved: a pass is a pass of what is stored of the run by now.  The   *)
(* evidence of an external run may have grown worse since.                 *)
PassStands == gate # None /\ evaluation[gate].result = "pass" => Result(evaluation[gate].policy, report) = "pass"
=============================================================================
