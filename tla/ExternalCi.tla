----------------------------- MODULE ExternalCi -----------------------------
(***************************************************************************)
(* One run with execution_source = "external_ci".  Its executor asks       *)
(* Jenkins for a build and polls it a few times; webhook deliveries tell   *)
(* of builds and, when one is over, hand the run to a new executor; callers*)
(* cancel it, and a cancelled run has its build collected all the same.    *)
(*                                                                         *)
(* Executors lock the row in every transaction and look it up again; a     *)
(* delivery reads it without the lock and writes the status and the whole  *)
(* result_summary from what it read, after any transaction it met.         *)
(***************************************************************************)
EXTENDS Integers

CONSTANTS
  NumDeliveries,  \* webhook deliveries (each is processed once)
  Earlier,        \* how the job's build before ours ended; "none": there is none
  Losses,         \* whether the API process may die
  Sweeping        \* whether somebody calls reclaim_stale_active_runs

(* How a build ends: "broken" is a FAILURE whose report passes.            *)
Ends == {"green", "red", "broken"}

ASSUME NumDeliveriesAssumption == NumDeliveries \in Nat
ASSUME EarlierAssumption == Earlier \in Ends \cup {"none"}
ASSUME SwitchAssumption == Losses \in BOOLEAN /\ Sweeping \in BOOLEAN

VARIABLES
  status, stopSignal,
  ci,          \* result_summary["ci"]
  rows,        \* the run's case result: its outcome, and is_partial
  own,         \* Jenkins: the build asked for
  posts,       \* Jenkins: requests for a build
  task,        \* executors: 0 is the first, d the one resumed by delivery d
  delivery,    \* webhook deliveries, and what they read
  collector    \* cancel_external_ci_with_collect

vars == <<status, stopSignal, ci, rows, own, posts, task, delivery, collector>>

Deliveries == 1..NumDeliveries
Tasks == 0..NumDeliveries
Terminal == {"SUCCEEDED", "FAILED", "CANCELLED", "TIMEOUT"}
Statuses == {"PENDING", "VALIDATING", "WAITING_EXTERNAL", "RUNNING", "STOPPING"} \cup Terminal
Builds == {"own", "earlier"}

(* trigger is trigger_state, and "none" as long as there is no job_id;     *)
(* unknown is execution_result = "unknown"; build is the build_number.     *)
Summaries == [trigger : {"none", "pending", "triggered"},
              unknown : BOOLEAN,
              build   : Builds \cup {"none"},
              collect : {"none", "collecting", "done", "failed"}]
NoSummary == [trigger |-> "none", unknown |-> FALSE, build |-> "none", collect |-> "none"]

Places == {"none", "queued", "validate", "enter", "post", "answer", "look",
           "resolve", "poll", "final", "done", "dead"}
Alive == Places \ {"none", "done", "dead"}
Replies == {"accepted", "refused", "unknown"}

-----------------------------------------------------------------------------
(* Jenkins, as _resolve_build_number, _build_finished and _fetch_artifact   *)
(* see it                                                                  *)

EndOf(b) == IF b = "own" THEN own ELSE Earlier
Finished(b) == EndOf(b) \in Ends
ReportPasses(b) == EndOf(b) \in {"green", "broken"}

(* The number already known, else the one behind the queue item, else the  *)
(* last build of the job, whosever it is                                   *)
Resolved ==
  IF ci.build # "none" THEN ci.build
  ELSE IF own \in {"building"} \cup Ends THEN "own"
  ELSE IF Earlier # "none" THEN "earlier" ELSE "none"

JenkinsStart == own = "queued" /\ own' = "building"
JenkinsEnd == own = "building" /\ own' \in Ends
Jenkins ==
  /\ JenkinsStart \/ JenkinsEnd
  /\ UNCHANGED <<status, stopSignal, ci, rows, posts, task, delivery, collector>>

-----------------------------------------------------------------------------
(* A definition called ...Mutant is a slip of the definition after it; see *)
(* PROJECT.json for the property it must break.                            *)

Goto(t, place) == task' = [task EXCEPT ![t].pc = place]

(* complete_stopping_run *)
CompleteStopping ==
  status' = IF status = "STOPPING" THEN "CANCELLED" ELSE status

WorseMutant(a, b) == b                       \* the last report decides
Worse(a, b) == IF a = "failed" \/ b = "failed" THEN "failed" ELSE "passed"

CollectPartlyMutant(b, end) ==               \* the part that was read decides
  /\ ReportPasses(b)
  /\ rows' = [outcome |-> Worse(rows.outcome, "passed"), partial |-> TRUE]
  /\ ci' = [ci EXCEPT !.collect = "done"]
  /\ status' = IF end = "CANCELLED" THEN end ELSE "SUCCEEDED"

(* _finalize_terminal                                                       *)
Conclude(end, passed) ==
  status' = IF end = "CANCELLED" \/ passed THEN end ELSE "FAILED"

(* The parsing took too long: what was read of the report is kept, marked  *)
(* as partial.                                                             *)
CollectPartly(b, end) ==
  /\ \E read \in {"passed", "failed"} :
       /\ read = "failed" => ~ReportPasses(b)
       /\ rows' = [outcome |-> Worse(rows.outcome, read), partial |-> TRUE]
  /\ ci' = [ci EXCEPT !.collect = "done"]
  /\ Conclude(end, FALSE)

CollectWhole(b, end) ==
  LET report == IF ReportPasses(b) THEN "passed" ELSE "failed"
  IN  /\ rows' = [outcome |-> Worse(rows.outcome, report), partial |-> FALSE]
      /\ ci' = [ci EXCEPT !.collect = "done"]
      /\ Conclude(end, report = "passed")

(* No path of a report, no artifact, no row in it, or it cannot be parsed.  *)
CollectNothing(end) ==
  /\ ci' = [ci EXCEPT !.collect = "failed"]
  /\ Conclude(end, FALSE)
  /\ UNCHANGED rows

(* The build is unknown, or no result can be stored for the report: the     *)
(* executor ends, the run stays as it is.                                   *)
CollectUnaccounted ==
  /\ ci.build = "none" \/ rows.outcome = "none"
  /\ ci' = [ci EXCEPT !.collect = "collecting"]
  /\ UNCHANGED <<status, rows>>

(* collect_reports_for_run: "end" is the status of a run whose report      *)
(* passes.  A cancelled run stays CANCELLED whatever is collected.         *)
Collect(end) ==
  IF ci.collect = "done" THEN UNCHANGED <<status, ci, rows>>
  ELSE
    \/ CollectUnaccounted
    \/ ci.build # "none" /\ CollectNothing(end)
    \/ /\ ci.build # "none" /\ Finished(ci.build)
       /\ CollectPartly(ci.build, end) \/ CollectWhole(ci.build, end)

-----------------------------------------------------------------------------
(* A delivery that holds nothing it has read                               *)
Delivered(place) ==
  [pc |-> place, kind |-> "STARTED", build |-> "own", status |-> "PENDING", ci |-> NoSummary]

Init ==
  /\ status = "PENDING"
  /\ stopSignal = FALSE
  /\ ci = NoSummary
  /\ rows = [outcome |-> "none", partial |-> FALSE]
  /\ own = "none"
  /\ posts = 0
  /\ task = [t \in Tasks |-> [pc |-> IF t = 0 THEN "queued" ELSE "none",
                              reply |-> "accepted", found |-> "none"]]
  /\ delivery = [d \in Deliveries |-> Delivered("idle")]
  /\ collector = "none"

(* run_test_run_background up to execute_external_ci_run *)
Dispatch ==
  /\ task[0].pc = "queued"
  /\ IF status = "PENDING" THEN status' = "VALIDATING" /\ Goto(0, "validate")
                           ELSE UNCHANGED status /\ Goto(0, "done")
  /\ UNCHANGED <<stopSignal, ci, rows, own, posts, delivery, collector>>

(* validate_external_ci_run: no Jenkins environment, an unbound case, a report *)
(* it cannot read, no token, no such job, or Jenkins does not answer.         *)
RefuseJob == status' = "FAILED" /\ ci' = NoSummary /\ Goto(0, "done")

Validate ==
  /\ task[0].pc = "validate"
  /\ \/ RefuseJob
     \/ UNCHANGED <<status, ci>> /\ Goto(0, "enter")
  /\ UNCHANGED <<stopSignal, rows, own, posts, delivery, collector>>

(* resume_external_ci_run, with a contract for the job or without          *)
Resume(t) ==
  /\ t # 0 /\ task[t].pc = "queued"
  /\ Goto(t, "enter") \/ Goto(t, "done")
  /\ UNCHANGED <<status, stopSignal, ci, rows, own, posts, delivery, collector>>

-----------------------------------------------------------------------------
(* execute_external_ci_run, one transaction or request after the other     *)

Unconfigured(t) ==
  /\ task[t].pc = "enter"
  /\ IF status = "VALIDATING" THEN status' = "FAILED" /\ ci' = NoSummary
                              ELSE UNCHANGED <<status, ci>>
  /\ Goto(t, "done")
  /\ UNCHANGED <<stopSignal, rows, own, posts, delivery, collector>>

EnterMutant(t) ==                            \* the intent is not looked at
  /\ task[t].pc = "enter"
  /\ IF status \notin {"VALIDATING", "WAITING_EXTERNAL", "RUNNING"} \/ stopSignal
       THEN UNCHANGED <<status, ci>> /\ Goto(t, "done")
       ELSE /\ ci' = [ci EXCEPT !.trigger = "pending"]
            /\ status' = "WAITING_EXTERNAL"
            /\ Goto(t, "post")
  /\ UNCHANGED <<stopSignal, rows, own, posts, delivery, collector>>

(* The intent to trigger is stored before Jenkins is asked, and an intent  *)
(* that is stored already is not carried out again.                        *)
Enter(t) ==
  /\ task[t].pc = "enter"
  /\ IF status \notin {"VALIDATING", "WAITING_EXTERNAL", "RUNNING"}
       THEN UNCHANGED <<status, ci>> /\ Goto(t, "done")
     ELSE IF stopSignal THEN CompleteStopping /\ UNCHANGED ci /\ Goto(t, "done")
     ELSE IF ci.trigger # "none" \/ ci.unknown
       THEN UNCHANGED <<status, ci>> /\ Goto(t, "look")
       ELSE /\ ci' = [ci EXCEPT !.trigger = "pending"]
            /\ status' = "WAITING_EXTERNAL"
            /\ Goto(t, "post")
  /\ UNCHANGED <<stopSignal, rows, own, posts, delivery, collector>>

(* _trigger_jenkins, outside of any transaction.  A request that is        *)
(* refused (or accepted without a Location) and one whose answer is lost   *)
(* may have started a build or not.                                        *)
Post(t) ==
  /\ task[t].pc = "post"
  /\ posts' = posts + 1
  /\ \E reply \in Replies :
       /\ task' = [task EXCEPT ![t] = [pc |-> "answer", reply |-> reply, found |-> "none"]]
       /\ \/ own' = IF own = "none" THEN "queued" ELSE own
          \/ reply # "accepted" /\ UNCHANGED own
  /\ UNCHANGED <<status, stopSignal, ci, rows, delivery, collector>>

(* The answer is stored whatever the run has become meanwhile, unless it   *)
(* was asked to stop.                                                      *)
Answer(t) ==
  /\ task[t].pc = "answer"
  /\ IF stopSignal THEN CompleteStopping /\ UNCHANGED ci /\ Goto(t, "done")
     ELSE CASE task[t].reply = "unknown" ->
                 /\ status' = "WAITING_EXTERNAL"
                 /\ ci' = [ci EXCEPT !.trigger = "pending", !.unknown = TRUE]
                 /\ Goto(t, "done")
            [] task[t].reply = "refused" ->
                 status' = "FAILED" /\ ci' = NoSummary /\ Goto(t, "done")
            [] task[t].reply = "accepted" ->
                 /\ status' = "WAITING_EXTERNAL"
                 /\ ci' = [ci EXCEPT !.trigger = "triggered"]
                 /\ Goto(t, "look")
  /\ UNCHANGED <<stopSignal, rows, own, posts, delivery, collector>>

LookAgain(t) ==
  /\ task[t].pc = "look"
  /\ IF status \in Terminal THEN UNCHANGED status /\ Goto(t, "done")
     ELSE IF stopSignal THEN CompleteStopping /\ Goto(t, "done")
     ELSE /\ UNCHANGED status
          /\ Goto(t, IF (ci.unknown /\ status = "WAITING_EXTERNAL") \/ ci.collect = "done"
                       THEN "done" ELSE "resolve")
  /\ UNCHANGED <<stopSignal, ci, rows, own, posts, delivery, collector>>

(* Jenkins may not answer, or know of no build yet.                        *)
Resolve(t) ==
  /\ task[t].pc = "resolve"
  /\ \/ UNCHANGED <<status, ci>>
     \/ /\ Resolved # "none" /\ status = "WAITING_EXTERNAL"
        /\ status' = "RUNNING"
        /\ ci' = [ci EXCEPT !.build = Resolved]
  /\ Goto(t, "poll")
  /\ UNCHANGED <<stopSignal, rows, own, posts, delivery, collector>>

(* Five polls at most, and the executor gives up: found = "none".          *)
Poll(t) ==
  /\ task[t].pc = "poll"
  /\ IF status \in Terminal THEN Goto(t, "done")
     ELSE \E found \in {b \in Builds : b = ci.build /\ Finished(b)} \cup {"none"} :
            task' = [task EXCEPT ![t].pc = "final", ![t].found = found]
  /\ UNCHANGED <<status, stopSignal, ci, rows, own, posts, delivery, collector>>

(* The report of the build is collected, the verdict drawn from it, and a  *)
(* FAILURE of the build overrules a report that passes.                    *)
Final(t) ==
  /\ task[t].pc = "final"
  /\ IF status \in Terminal \/ task[t].found = "none" THEN UNCHANGED <<status, ci, rows>>
     ELSE Collect(IF EndOf(task[t].found) = "broken" THEN "FAILED" ELSE "SUCCEEDED")
  /\ Goto(t, "done")
  /\ UNCHANGED <<stopSignal, own, posts, delivery, collector>>

-----------------------------------------------------------------------------
(* apply_ci_observation *)

(* What Jenkins may report of a build, and when                            *)
Reportable(kind, b) ==
  IF kind = "STARTED" THEN EndOf(b) \in {"building"} \cup Ends ELSE Finished(b)

(* find_external_ci_run_for_observation: no lock; a run of the job that    *)
(* has not ended and knows no other build.  Deliveries are numbered in the *)
(* order in which they read.                                               *)
Observe(d) ==
  /\ delivery[d].pc = "idle"
  /\ \A e \in 1..d - 1 : delivery[e].pc # "idle"
  /\ status \notin Terminal
  /\ ci.trigger # "none"
  /\ \E kind \in {"STARTED", "COMPLETED"}, b \in Builds :
       /\ Reportable(kind, b)
       /\ ci.build \in {"none", b}
       /\ delivery' = [delivery EXCEPT ![d] =
            [pc |-> "seen", kind |-> kind, build |-> b, status |-> status, ci |-> ci]]
  /\ UNCHANGED <<status, stopSignal, ci, rows, own, posts, task, collector>>

(* The write, and the commit.  A COMPLETED build resumes the run.          *)
Record(d) ==
  /\ delivery[d].pc = "seen"
  /\ delivery' = [delivery EXCEPT ![d] = Delivered("done")]
  /\ ci' = [delivery[d].ci EXCEPT !.build = delivery[d].build]
  /\ status' = IF delivery[d].kind = "STARTED" /\ delivery[d].status = "WAITING_EXTERNAL"
                 THEN "RUNNING" ELSE status
  /\ IF delivery[d].kind = "COMPLETED" THEN Goto(d, "queued") ELSE UNCHANGED task
  /\ UNCHANGED <<stopSignal, rows, own, posts, collector>>

-----------------------------------------------------------------------------
(* cancel_test_run, and best_effort_collect_on_cancel behind it            *)

Cancel ==
  /\ status \in {"PENDING", "WAITING_EXTERNAL", "RUNNING"}
  /\ status' = IF status = "RUNNING" THEN "STOPPING" ELSE "CANCELLED"
  /\ stopSignal' = TRUE
  /\ collector' = IF status = "WAITING_EXTERNAL" /\ ci.trigger = "triggered"
                    THEN "queued" ELSE collector
  /\ UNCHANGED <<ci, rows, own, posts, task, delivery>>

CollectorLook ==
  /\ collector = "queued"
  /\ collector' = IF ci.trigger = "triggered" THEN "collect" ELSE "done"
  /\ UNCHANGED <<status, stopSignal, ci, rows, own, posts, task, delivery>>

CollectorCollect ==
  /\ collector = "collect"
  /\ collector' = "done"
  /\ IF status \in Terminal \ {"CANCELLED"} THEN UNCHANGED <<status, ci, rows>>
                                            ELSE Collect("CANCELLED")
  /\ UNCHANGED <<stopSignal, own, posts, task, delivery>>

-----------------------------------------------------------------------------
(* reclaim_stale_active_runs: nothing beats while an external build runs.  *)
Sweep ==
  /\ Sweeping
  /\ status \in {"RUNNING", "STOPPING"}
  /\ status' = IF status = "STOPPING" THEN "CANCELLED"
               ELSE IF stopSignal THEN "STOPPING" ELSE "TIMEOUT"
  /\ UNCHANGED <<stopSignal, ci, rows, own, posts, task, delivery, collector>>

Crash ==
  /\ Losses
  /\ task' = [t \in Tasks |-> IF task[t].pc \in Alive THEN [task[t] EXCEPT !.pc = "dead"] ELSE task[t]]
  /\ delivery' = [d \in Deliveries |->
                    IF delivery[d].pc = "seen" THEN Delivered("lost") ELSE delivery[d]]
  /\ collector' = IF collector \in {"queued", "collect"} THEN "lost" ELSE collector
  /\ UNCHANGED <<status, stopSignal, ci, rows, own, posts>>

Executing(t) ==
  \/ Resume(t) \/ Unconfigured(t) \/ Enter(t) \/ Post(t) \/ Answer(t)
  \/ LookAgain(t) \/ Resolve(t) \/ Poll(t) \/ Final(t)

Next ==
  \/ Jenkins \/ Dispatch \/ Validate
  \/ \E t \in Tasks : Executing(t)
  \/ \E d \in Deliveries : Observe(d) \/ Record(d)
  \/ Cancel \/ CollectorLook \/ CollectorCollect
  \/ Sweep \/ Crash

Spec == Init /\ [][Next]_vars

-----------------------------------------------------------------------------
(* Properties *)

(* Every column, every process and Jenkins stay in their ranges.           *)
TypeOK ==
  /\ status \in Statuses
  /\ stopSignal \in BOOLEAN
  /\ ci \in Summaries
  /\ rows \in [outcome : {"none", "passed", "failed"}, partial : BOOLEAN]
  /\ own \in {"none", "queued", "building"} \cup Ends
  /\ posts \in Nat
  /\ task \in [Tasks -> [pc : Places, reply : Replies, found : Builds \cup {"none"}]]
  /\ delivery \in [Deliveries -> [pc     : {"idle", "seen", "done", "lost"},
                                  kind   : {"STARTED", "COMPLETED"},
                                  build  : Builds,
                                  status : Statuses,
                                  ci     : Summaries]]
  /\ collector \in {"none", "queued", "collect", "done", "lost"}

(* Jenkins is asked at most once for a build of the run, whatever times    *)
(* out, dies, is delivered late or resumes it, and although deliveries     *)
(* write old summaries back.                                               *)
PostedOnce == posts <= 1

(* A run that SUCCEEDED has a whole report of a finished build behind it   *)
(* that passes.  (The result under it may still be of a worse report that  *)
(* was collected before.)                                                  *)
SuccessBacked ==
  status = "SUCCEEDED" =>
    /\ rows.outcome # "none" /\ ~rows.partial
    /\ \E b \in Builds : Finished(b) /\ ReportPasses(b)

(* What was collected is never lost, and a failed result never turns into  *)
(* a passed one, however many executors collect reports for the run.       *)
EvidenceWorsens ==
  [][/\ rows.outcome # "none" => rows'.outcome # "none"
     /\ rows.outcome = "failed" => rows'.outcome = "failed"]_vars

(* How far the end of a run is one: it is moved only by who had looked at  *)
(* it before it ended, a delivery that read it as waiting and records that *)
(* its build has started, or, unless the run was cancelled, an executor    *)
(* with the answer of Jenkins.                                             *)
LateStart(d) ==
  /\ delivery[d].pc = "seen" /\ delivery'[d].pc = "done"
  /\ delivery[d].kind = "STARTED" /\ delivery[d].status = "WAITING_EXTERNAL"
LateAnswer(t) ==
  status # "CANCELLED" /\ task[t].pc = "answer" /\ task'[t].pc # "answer"
LateWrite == (\E d \in Deliveries : LateStart(d)) \/ (\E t \in Tasks : LateAnswer(t))
OnlyLateWritersMove == [][status' # status /\ status \in Terminal => LateWrite]_vars

(* What the documents say and the code does not do.                        *)

(* prd.md 5.1.2: a terminal state absorbs.                                 *)
TerminalAbsorbing == [][status' # status => status \notin Terminal]_vars

(* problem_model.md 2.2: a stop that was asked for is confirmed, or times  *)
(* out; the completion of the build does not overtake it.                  *)
StopHasPriority ==
  [][status = "STOPPING" => status' \in {"STOPPING", "CANCELLED", "TIMEOUT"}]_vars

(* prd.md AC: a cancelled run has the build record that exists by then     *)
(* collected (or the attempt to fetch it is on record).                    *)
CancelCollects ==
  [][collector = "collect" /\ collector' = "done" /\ Finished("own") =>
       ci'.collect \in {"done", "failed"}]_vars
=============================================================================
