------------------------------ MODULE AgentRun ------------------------------
(***************************************************************************)
(* The life of a TestRun with execution_source = "agent": the background   *)
(* task validates it and hands it to a worker subprocess, which takes the  *)
(* steps of each case within the limits of the agent manifest and stores   *)
(* results, trajectory and verdict in one transaction at the end; callers  *)
(* cancel, the sweeper reclaims, and a trajectory that is complete can be  *)
(* turned into a draft of a script case.                                   *)
(*                                                                         *)
(* One action is one transaction, or one step between two of them.  Start, *)
(* cancel, sweep and the triage behind a run are those of TestRun, less    *)
(* the keys of requests and the clustering in the summary.                 *)
(***************************************************************************)
EXTENDS Naturals

CONSTANTS
  Runs, Cancellers,
  NumCases,    \* cases in the snapshot of a run
  NumSteps,    \* steps of each case
  MaxSteps,    \* max_steps of the manifest
  MaxDenies,   \* MAX_CONSECUTIVE_DENIES
  None         \* no run

ASSUME AgentAssumption ==
  NumCases \in Nat \ {0} /\ NumSteps \in Nat \ {0} /\ MaxSteps \in Nat \ {0}
    /\ MaxDenies \in Nat \ {0} /\ None \notin Runs

VARIABLES
  row,          \* test_runs
  result,       \* case_results
  trajectory,   \* the status in the trajectory artifact
  draft,        \* whether a script draft was made from it
  view,         \* what each canceller read of a run before it cancels
  receipt,      \* the run a canceller holds a receipt for
  task,         \* the background task
  worker        \* the worker subprocess

vars == <<row, result, trajectory, draft, view, receipt, task, worker>>

Cases == 1..NumCases
Terminal == {"SUCCEEDED", "FAILED", "CANCELLED", "TIMEOUT"}
Active == {"RUNNING", "STOPPING"}
Statuses == {"absent", "PENDING", "VALIDATING"} \cup Active \cup Terminal
Outcomes == {"passed", "failed", "incomplete"}

Rows == [status : Statuses, version : Nat, stop : BOOLEAN, fresh : BOOLEAN]
NoRow == [status |-> "absent", version |-> 0, stop |-> FALSE, fresh |-> FALSE]

Places == {"none", "queued", "validate", "spawn", "await", "done", "dead"}
WorkerPlaces == {"none", "begin", "check", "act", "beat", "final", "confirm", "done", "dead"}
WorkerAlive == WorkerPlaces \ {"none", "done", "dead"}

(* seq: steps taken so far; denies: denied in a row; observed: a request of *)
(* this case was answered or failed; acted: executed_steps is not empty;    *)
(* told: outcomes to be stored; end: why it stopped before the last step.   *)
Workers == [pc : WorkerPlaces, case : Cases, step : 1..NumSteps, seq : Nat, denies : Nat,
            observed : BOOLEAN, acted : BOOLEAN,
            told : [Cases -> Outcomes \cup {"none"}], end : {"none", "limit", "stopped"}]
NewWorker == [pc |-> "none", case |-> 1, step |-> 1, seq |-> 0, denies |-> 0,
              observed |-> FALSE, acted |-> FALSE,
              told |-> [c \in Cases |-> "none"], end |-> "none"]

(* Every column and every process variable stays in its range.              *)
TypeOK ==
  /\ row \in [Runs -> Rows]
  /\ result \in [Runs -> [Cases -> Outcomes \cup {"none"}]]
  /\ trajectory \in [Runs -> {"none", "completed", "incomplete", "terminated"}]
  /\ draft \in [Runs -> BOOLEAN]
  /\ view \in [Cancellers -> [run : Runs \cup {None}, version : Nat]]
  /\ receipt \in [Cancellers -> Runs \cup {None}]
  /\ task \in [Runs -> Places]
  /\ worker \in [Runs -> Workers]

Init ==
  /\ row = [r \in Runs |-> NoRow]
  /\ result = [r \in Runs |-> [c \in Cases |-> "none"]]
  /\ trajectory = [r \in Runs |-> "none"]
  /\ draft = [r \in Runs |-> FALSE]
  /\ view = [c \in Cancellers |-> [run |-> None, version |-> 0]]
  /\ receipt = [c \in Cancellers |-> None]
  /\ task = [r \in Runs |-> "none"]
  /\ worker = [r \in Runs |-> NewWorker]

-----------------------------------------------------------------------------
(* A row x that is written gets a new version.                              *)
Written(x, s, stop, fresh) == [status |-> s, version |-> x.version + 1, stop |-> stop, fresh |-> fresh]

(* update_test_run_status, under the row lock                               *)
SetStatus(r, s, heartbeat) ==
  row' = [row EXCEPT ![r] = Written(row[r], s, row[r].stop, row[r].fresh \/ heartbeat)]

Stopped(r) == row[r].status = "STOPPING" \/ row[r].stop

-----------------------------------------------------------------------------
(* Callers and the sweeper                                                  *)

Start(r) ==
  /\ row[r].status = "absent"
  /\ row' = [row EXCEPT ![r] = Written(NoRow, "PENDING", FALSE, FALSE)]
  /\ task' = [task EXCEPT ![r] = "queued"]
  /\ UNCHANGED <<result, trajectory, draft, view, receipt, worker>>

Look(c, r) ==
  /\ receipt[c] = None /\ row[r].status # "absent"
  /\ view' = [view EXCEPT ![c] = [run |-> r, version |-> row[r].version]]
  /\ UNCHANGED <<row, result, trajectory, draft, receipt, task, worker>>

(* A definition called ...Mutant is a slip of the definition after it.      *)
CancelMutant(c, r) ==                        \* whatever its status is by now
  /\ view[c].run = r /\ receipt[c] = None
  /\ row' = [row EXCEPT ![r] =
       Written(row[r], IF row[r].status = "RUNNING" THEN "STOPPING" ELSE "CANCELLED",
               TRUE, row[r].fresh)]
  /\ receipt' = [receipt EXCEPT ![c] = r]
  /\ UNCHANGED <<result, trajectory, draft, view, task, worker>>

Cancel(c, r) ==
  /\ view[c].run = r /\ receipt[c] = None
  /\ row[r].version = view[c].version
  /\ row[r].status \in {"PENDING", "RUNNING"}
  /\ row' = [row EXCEPT ![r] =
       Written(row[r], IF row[r].status = "RUNNING" THEN "STOPPING" ELSE "CANCELLED",
               TRUE, row[r].fresh)]
  /\ receipt' = [receipt EXCEPT ![c] = r]
  /\ UNCHANGED <<result, trajectory, draft, view, task, worker>>

(* The heartbeat grows old.                                                 *)
Age(r) ==
  /\ row[r].status \in Active /\ row[r].fresh
  /\ row' = [row EXCEPT ![r].fresh = FALSE]
  /\ UNCHANGED <<result, trajectory, draft, view, receipt, task, worker>>

(* complete_stopping_runs cancels whoever was asked to stop; the other      *)
(* STOPPING and RUNNING runs are swept once their heartbeat is old.         *)
Swept(x) ==
  CASE x.status = "STOPPING" /\ (x.stop \/ ~x.fresh) -> "CANCELLED"
    [] x.status = "RUNNING" /\ ~x.fresh -> "TIMEOUT"
    [] OTHER -> x.status

Sweep ==
  /\ \E r \in Runs : Swept(row[r]) # row[r].status
  /\ row' = [r \in Runs |-> IF Swept(row[r]) = row[r].status THEN row[r]
                            ELSE Written(row[r], Swept(row[r]), row[r].stop, row[r].fresh)]
  /\ UNCHANGED <<result, trajectory, draft, view, receipt, task, worker>>

(* create_script_draft_for_caller: whatever the status of the run           *)
ScriptDraft(r) ==
  /\ trajectory[r] = "completed" /\ worker[r].acted
  /\ draft' = [draft EXCEPT ![r] = TRUE]
  /\ UNCHANGED <<row, result, trajectory, view, receipt, task, worker>>

-----------------------------------------------------------------------------
(* The background task                                                      *)

Dispatch(r) ==
  /\ task[r] = "queued"
  /\ IF row[r].status = "PENDING"
       THEN SetStatus(r, "VALIDATING", FALSE) /\ task' = [task EXCEPT ![r] = "validate"]
       ELSE UNCHANGED row /\ task' = [task EXCEPT ![r] = "done"]
  /\ UNCHANGED <<result, trajectory, draft, view, receipt, worker>>

(* FAILED for the reasons of a script run, or without a valid manifest      *)
Validate(r) ==
  /\ task[r] = "validate"
  /\ IF row[r].status # "VALIDATING" THEN UNCHANGED row /\ task' = [task EXCEPT ![r] = "done"]
     ELSE \/ SetStatus(r, "FAILED", FALSE) /\ task' = [task EXCEPT ![r] = "done"]
          \/ SetStatus(r, "RUNNING", TRUE) /\ task' = [task EXCEPT ![r] = "spawn"]
  /\ UNCHANGED <<result, trajectory, draft, view, receipt, worker>>

Spawn(r) ==
  /\ task[r] = "spawn"
  /\ task' = [task EXCEPT ![r] = "await"]
  /\ worker' = [worker EXCEPT ![r].pc = "begin"]
  /\ UNCHANGED <<row, result, trajectory, draft, view, receipt>>

(* The exit code is not looked at; triage and the gate, which skips agent   *)
(* runs, follow.                                                            *)
AwaitWorker(r) ==
  /\ task[r] = "await" /\ worker[r].pc \in {"done", "dead"}
  /\ task' = [task EXCEPT ![r] = "done"]
  /\ UNCHANGED <<row, result, trajectory, draft, view, receipt, worker>>

-----------------------------------------------------------------------------
(* The worker                                                               *)

Works(r, from, new) ==
  /\ worker[r].pc = from
  /\ worker' = [worker EXCEPT ![r] = new]
  /\ UNCHANGED <<trajectory, draft, view, receipt, task, result>>

At(w, place) == [w EXCEPT !.pc = place]

(* The case in hand is told incomplete, and no other is begun.              *)
Breaks(w, why) == [At(w, "final") EXCEPT !.told[w.case] = "incomplete", !.end = why]

(* The end of a case whose steps were taken: without any observation it is  *)
(* incomplete, which ends the loop although nothing else says so.           *)
CaseDone(w, outcome) ==
  LET told == [w EXCEPT !.told[w.case] = outcome]
  IN  IF outcome = "incomplete" \/ w.case = NumCases THEN At(told, "final")
      ELSE [At(told, "check") EXCEPT !.case = @ + 1, !.step = 1, !.observed = FALSE]


StepDone(w, passes) ==
  IF w.step < NumSteps THEN [At(w, "check") EXCEPT !.step = @ + 1]
  ELSE CaseDone(w, IF ~w.observed THEN "incomplete" ELSE IF passes THEN "passed" ELSE "failed")

(* Without a TARGET_ENV the limit is reached before the first case.  The    *)
(* parameters resolve, for Validate resolved the same.                      *)
WorkerBegin(r) ==
  /\ \/ Works(r, "begin", At(worker[r], "check"))
     \/ Works(r, "begin", [At(worker[r], "final") EXCEPT !.end = "limit"])
  /\ UNCHANGED row

(* _stop_requested, without a lock                                          *)
WorkerCheck(r) ==
  LET w == [worker[r] EXCEPT !.seq = @ + 1] IN
    /\ Works(r, "check", IF Stopped(r) THEN Breaks(w, "stopped") ELSE At(w, "act"))
    /\ UNCHANGED row

(* The deadline has passed, or the step is one too many.                    *)
LimitReached(r) ==
  /\ Works(r, "act", Breaks(worker[r], "limit"))
  /\ UNCHANGED row

(* The tool is not on the list, or the policy gate refuses the step.        *)
Deny(r) ==
  /\ worker[r].seq <= MaxSteps
  /\ LET w == [worker[r] EXCEPT !.denies = @ + 1] IN
       \E passes \in BOOLEAN :
         Works(r, "act", IF w.denies >= MaxDenies THEN Breaks(w, "limit") ELSE StepDone(w, passes))
  /\ UNCHANGED row

Act(r) ==
  /\ worker[r].seq <= MaxSteps
  /\ Works(r, "act", [At(worker[r], "beat") EXCEPT !.denies = 0, !.observed = TRUE, !.acted = TRUE])
  /\ UNCHANGED row

Beat(r) ==
  /\ \E passes \in BOOLEAN : Works(r, "beat", StepDone(worker[r], passes))
  /\ IF row[r].status = "RUNNING" THEN SetStatus(r, "RUNNING", TRUE) ELSE UNCHANGED row

Told(w) == {c \in Cases : w.told[c] # "none"}

Verdict(w) ==
  CASE w.end # "none" -> "CANCELLED"
    [] w.end = "none" /\ \A c \in Told(w) : w.told[c] = "passed" -> "SUCCEEDED"
    [] OTHER -> "FAILED"

(* The results the worker tells, the trajectory and the verdict.  A run the *)
(* worker gives up is STOPPING, and this is committed, before it is         *)
(* CANCELLED.                                                               *)
Store(r, completed) ==
  LET w == worker[r] IN
    /\ w.pc = "final"
    /\ result' = [result EXCEPT ![r] = w.told]
    /\ trajectory' = [trajectory EXCEPT ![r] =
         IF w.end = "stopped" \/ (Stopped(r) /\ ~completed) THEN "terminated"
         ELSE IF w.end = "limit" THEN "incomplete" ELSE "completed"]
    /\ UNCHANGED <<draft, view, receipt, task>>

FinalMutant(r) ==                            \* the stop is left to the check of the steps
  LET w == worker[r] IN
    /\ Store(r, TRUE)
    /\ CASE row[r].status = "RUNNING" /\ Verdict(w) # "CANCELLED" -> SetStatus(r, Verdict(w), FALSE)
         [] row[r].status = "RUNNING" /\ Verdict(w) = "CANCELLED" -> SetStatus(r, "STOPPING", FALSE)
         [] row[r].status = "STOPPING" -> SetStatus(r, "CANCELLED", FALSE)
         [] OTHER -> UNCHANGED row
    /\ worker' = [worker EXCEPT ![r].pc =
         IF row[r].status = "RUNNING" /\ Verdict(w) = "CANCELLED" THEN "confirm" ELSE "done"]

GivesUpMutant(r) ==                          \* the run it gives up is left as it is
  LET w == worker[r] IN
    /\ Store(r, FALSE)
    /\ CASE row[r].status = "RUNNING" /\ Verdict(w) # "CANCELLED" -> SetStatus(r, Verdict(w), FALSE)
         [] row[r].status = "STOPPING" -> SetStatus(r, "CANCELLED", FALSE)
         [] OTHER -> UNCHANGED row
    /\ worker' = [worker EXCEPT ![r].pc = "done"]

Final(r) ==
  LET w == worker[r] IN
    /\ Store(r, FALSE)
    /\ CASE row[r].status = "RUNNING" /\ Verdict(w) # "CANCELLED" -> SetStatus(r, Verdict(w), FALSE)
         [] row[r].status = "RUNNING" /\ Verdict(w) = "CANCELLED" -> SetStatus(r, "STOPPING", FALSE)
         [] row[r].status = "STOPPING" -> SetStatus(r, "CANCELLED", FALSE)
         [] OTHER -> UNCHANGED row
    /\ worker' = [worker EXCEPT ![r].pc =
         IF row[r].status = "RUNNING" /\ Verdict(w) = "CANCELLED" THEN "confirm" ELSE "done"]

(* The lock is gone and the row not read again: it is CANCELLED whatever it *)
(* has become, with the version after that of the STOPPING row.             *)
Confirm(r) ==
  /\ worker[r].pc = "confirm"
  /\ IF row[r].status = "STOPPING" THEN SetStatus(r, "CANCELLED", FALSE)
                                    ELSE row' = [row EXCEPT ![r].status = "CANCELLED"]
  /\ worker' = [worker EXCEPT ![r].pc = "done"]
  /\ UNCHANGED <<result, trajectory, draft, view, receipt, task>>

WorkerDies(r) ==
  /\ worker[r].pc \in WorkerAlive
  /\ worker' = [worker EXCEPT ![r].pc = "dead"]
  /\ UNCHANGED <<row, result, trajectory, draft, view, receipt, task>>

(* The API process dies; its workers live on.                               *)
Crash ==
  /\ \E r \in Runs : task[r] \notin {"none", "done", "dead"}
  /\ task' = [r \in Runs |-> IF task[r] \in {"none", "done"} THEN task[r] ELSE "dead"]
  /\ UNCHANGED <<row, result, trajectory, draft, view, receipt, worker>>

-----------------------------------------------------------------------------
Executing(r) == Dispatch(r) \/ Validate(r) \/ Spawn(r) \/ AwaitWorker(r)

Working(r) ==
  \/ WorkerBegin(r) \/ WorkerCheck(r)
  \/ LimitReached(r) \/ Deny(r) \/ Act(r) \/ Beat(r)
  \/ Final(r) \/ Confirm(r)

Next ==
  \/ \E r \in Runs :
       \/ Start(r) \/ Age(r) \/ ScriptDraft(r)
       \/ Executing(r) \/ Working(r) \/ WorkerDies(r)
       \/ \E c \in Cancellers : Look(c, r) \/ Cancel(c, r)
  \/ Sweep
  \/ Crash

Spec == Init /\ [][Next]_vars

(* The event loop runs the task, and every request of a step has a timeout. *)
Fairness == \A r \in Runs : WF_vars(Executing(r)) /\ WF_vars(Working(r))
FairSpec == Spec /\ Fairness

-----------------------------------------------------------------------------
ContractState(r) ==
  CASE row[r].status \in {"PENDING", "VALIDATING", "RUNNING"} -> "open"
    [] row[r].status = "STOPPING"  -> "stopping"
    [] row[r].status = "SUCCEEDED" -> "succeeded"
    [] row[r].status = "FAILED"    -> "failed"
    [] row[r].status = "CANCELLED" -> "cancelled"
    [] row[r].status = "TIMEOUT"   -> "timeout"
    [] OTHER                       -> "absent"

Contract == INSTANCE RunContract WITH state <- [r \in Runs |-> ContractState(r)]

(* An agent run keeps the contract of every run: one of four ends, which    *)
(* lasts; a stop excludes every other end, also the stop of a worker that   *)
(* gives up; success only with a passed result for every case.              *)
KeepsContract == Contract!Spec

(* What the trajectory says agrees with the run, although it is stored by a *)
(* process that looked at the run before: it is "completed" for no run that *)
(* was stopped, a verdict has one that is completed (or no result at all),  *)
(* a cancelled run that was being worked on has one that is not, and a      *)
(* draft is made from the steps of a completed one only.                    *)
TrajectoryTells ==
  \A r \in Runs :
    /\ trajectory[r] = "completed" => row[r].status \in {"SUCCEEDED", "FAILED", "TIMEOUT"}
    /\ row[r].status = "SUCCEEDED" => trajectory[r] = "completed"
    /\ row[r].status = "FAILED" => trajectory[r] = "completed" \/ worker[r].pc = "none"
    /\ draft[r] => trajectory[r] = "completed" /\ worker[r].end = "none"

(* A run that was started ends, a stop that was accepted is confirmed, and a*)
(* run given up is CANCELLED, unless its task or its worker dies.           *)
RunEnds ==
  \A r \in Runs : row[r].status # "absent" ~>
    (row[r].status \in Terminal \/ task[r] = "dead" \/ worker[r].pc = "dead")

(* Disproved: the results under an end are final.  A worker that outlives   *)
(* its run stores its results.                                              *)
EvidenceFrozen == [][\A r \in Runs : row[r].status \in Terminal => result'[r] = result[r]]_vars
=============================================================================
