------------------------------ MODULE Release ------------------------------
(***************************************************************************)
(* Release tasks: a draft advanced in the background, the item prepared in *)
(* the release system once a release_push request is approved, retries of  *)
(* a preparation that failed, cancellation, and the observations the       *)
(* release connector's webhook takes in, each of which counts as READY.    *)
(*                                                                         *)
(* Every handler locks the row of the task, so it is one step; background  *)
(* jobs live in the memory of the API process.  The preparation that an    *)
(* approval carries out is an operator here and a step of Approval.        *)
(***************************************************************************)
EXTENDS Naturals

CONSTANTS
  Targets,     \* the objects a request may be about; here, release tasks
  MaxEvents,   \* observations delivered about one task
  MaxRetries   \* retries of one task

ASSUME ReleaseAssumption == MaxEvents \in Nat /\ MaxRetries \in Nat

VARIABLES
  task,   \* the rows of release_tasks and release_item_refs
  jobs,   \* BackgroundTasks of the API process
  ext     \* the release system, and what was observed about each task

releaseVars == <<task, jobs, ext>>

TaskStatuses == {"absent", "DRAFT", "PENDING_CONFIRM", "SUBMITTED", "READY",
                 "FAILED_RETRYABLE", "CANCELLED"}

(* item: the release_item_ref, from the connector's answer or made up by the *)
(* stub; late: entries of divergence.late_ready in the row; missed:          *)
(* observations the task got once it was CANCELLED; retries: accepted ones.  *)
Tasks == [status : TaskStatuses, item : {"none", "created", "stub"}, late : Nat, missed : Nat,
          retries : 0..MaxRetries]
NoTask == [status |-> "absent", item |-> "none", late |-> 0, missed |-> 0, retries |-> 0]

(* exists: the release system has an item for the task; told: observations   *)
(* delivered about the task.                                                 *)
Items == [exists : BOOLEAN, told : 0..MaxEvents]
NoItem == [exists |-> FALSE, told |-> 0]

Jobs == {"advance", "prepare"} \X Targets

(* What becomes of a preparation: the answer is "created", the connection is *)
(* refused, or the answer is lost once the item exists.  While no connector  *)
(* has a loopback address nobody is asked, and the "stub" makes an item up.  *)
Answers == {"created", "refused", "lost", "stub"}

ReleaseTypeOK ==
  /\ task \in [Targets -> Tasks]
  /\ jobs \subseteq Jobs
  /\ ext \in [Targets -> Items]

ReleaseInit ==
  /\ task = [t \in Targets |-> NoTask]
  /\ jobs = {}
  /\ ext = [t \in Targets |-> NoItem]

-----------------------------------------------------------------------------
(* The item asked for under one prepare_key is created once.                *)
Asked(e, answer) == IF answer \in {"created", "lost"} THEN [e EXCEPT !.exists = TRUE] ELSE e

To(r, status) == [r EXCEPT !.status = status]

(* A definition called ...Mutant is a slip of the definition after it.      *)
PrepareItemMutant(r, answer) ==              \* noted before it is asked for
  IF r.item # "none" THEN r ELSE [r EXCEPT !.item = "created"]

(* _prepare_item: nothing to do when the item is there; a failure of the    *)
(* connector, whatever its cause, is FAILED_RETRYABLE.                      *)
PrepareItem(r, answer) ==
  IF r.item # "none" THEN r
  ELSE IF answer \in {"created", "stub"} THEN [r EXCEPT !.item = answer]
  ELSE IF r.status = "SUBMITTED" THEN To(r, "FAILED_RETRYABLE") ELSE r

(* Whether an item is asked for at all                                      *)
Calls(r) == r.item = "none"

(* prepare_after_approval, for a task waiting for confirmation              *)
PrepareAfterApproval(r, answer) ==
  PrepareItem(IF r.item # "none" THEN r ELSE To(r, "SUBMITTED"), answer)

(* cancel_release_task_from_approval                                        *)
CancelFromApproval(r) == IF r.status = "PENDING_CONFIRM" THEN To(r, "CANCELLED") ELSE r

-----------------------------------------------------------------------------
CreateTask(t) ==
  /\ task[t].status = "absent"
  /\ task' = [task EXCEPT ![t] = To(@, "DRAFT")]
  /\ jobs' = jobs \cup {<<"advance", t>>}
  /\ UNCHANGED ext

(* The client repeats its request under the same Idempotency-Key: it gets   *)
(* the stored response, and the router queues the job again.                *)
ReplayCreate(t) ==
  /\ task[t].status # "absent"
  /\ jobs' = jobs \cup {<<"advance", t>>}
  /\ UNCHANGED <<task, ext>>

Advance(t) ==
  /\ <<"advance", t>> \in jobs
  /\ jobs' = jobs \ {<<"advance", t>>}
  /\ task' = [task EXCEPT ![t] = IF @.status = "DRAFT" THEN To(@, "PENDING_CONFIRM") ELSE @]
  /\ UNCHANGED ext

Retried(r) == [To(r, "SUBMITTED") EXCEPT !.retries = r.retries + 1]

RetryTask(t) ==
  /\ task[t].status = "FAILED_RETRYABLE"
  /\ task[t].retries < MaxRetries
  /\ task' = [task EXCEPT ![t] = Retried(@)]
  /\ jobs' = jobs \cup {<<"prepare", t>>}
  /\ UNCHANGED ext

ReplayRetry(t) ==
  /\ task[t].retries > 0
  /\ jobs' = jobs \cup {<<"prepare", t>>}
  /\ UNCHANGED <<task, ext>>

(* prepare_after_retry                                                      *)
PrepareAfterRetry(t, answer) ==
  /\ <<"prepare", t>> \in jobs
  /\ jobs' = jobs \ {<<"prepare", t>>}
  /\ IF task[t].status = "SUBMITTED"
       THEN /\ task' = [task EXCEPT ![t] = PrepareItem(@, answer)]
            /\ ext' = IF Calls(task[t]) THEN [ext EXCEPT ![t] = Asked(@, answer)] ELSE ext
       ELSE UNCHANGED <<task, ext>>

(* The process dies inside prepare_after_retry: the item may exist, the     *)
(* transaction is rolled back and every job is gone.                        *)
PrepareDies(t) ==
  /\ <<"prepare", t>> \in jobs
  /\ task[t].status = "SUBMITTED" /\ Calls(task[t])
  /\ ext' = [ext EXCEPT ![t] = Asked(@, "lost")]
  /\ jobs' = {}
  /\ UNCHANGED task

CancelTaskMutant(t) ==                       \* whatever the state
  /\ task[t].status \notin {"absent", "CANCELLED"}
  /\ task' = [task EXCEPT ![t] = To(@, "CANCELLED")]
  /\ UNCHANGED <<jobs, ext>>

CancelTask(t) ==
  /\ task[t].status \in {"PENDING_CONFIRM", "FAILED_RETRYABLE"}
  /\ task' = [task EXCEPT ![t] = To(@, "CANCELLED")]
  /\ UNCHANGED <<jobs, ext>>

(* apply_release_observation.  A signed body counts for the task it names,  *)
(* whatever item or status it reports and whether or not the task has an    *)
(* item; a body that names none, or none that is there, changes nothing.  A *)
(* CANCELLED task appends the observation to the list inside its divergence,*)
(* in place, and assigns a dict that equals the one it loaded: only the     *)
(* first entry is ever written to the row.                                  *)
Observe(t) ==
  /\ task[t].status # "absent"
  /\ ext[t].told < MaxEvents
  /\ ext' = [ext EXCEPT ![t].told = @ + 1]
  /\ task' = [task EXCEPT ![t] =
       CASE @.status = "SUBMITTED" -> To(@, "READY")
         [] @.status = "CANCELLED" -> [@ EXCEPT !.late = 1, !.missed = @ + 1]
         [] OTHER -> @]
  /\ UNCHANGED jobs

(* The process dies between requests; the jobs it had queued are lost.      *)
Restart == jobs # {} /\ jobs' = {} /\ UNCHANGED <<task, ext>>

ReleaseStep(t) ==
  \/ CreateTask(t) \/ ReplayCreate(t) \/ Advance(t)
  \/ RetryTask(t) \/ ReplayRetry(t)
  \/ \E answer \in Answers : PrepareAfterRetry(t, answer)
  \/ PrepareDies(t)
  \/ CancelTask(t)
  \/ Observe(t)

ReleaseNext == (\E t \in Targets : ReleaseStep(t)) \/ Restart
=============================================================================
