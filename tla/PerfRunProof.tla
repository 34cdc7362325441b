---------------------------- MODULE PerfRunProof ----------------------------
(***************************************************************************)
(* Proofs about PerfRun for every number of runs, every assignment of      *)
(* scenarios and risks, and every quota.                                   *)
(***************************************************************************)
EXTENDS PerfRun, FiniteSetTheorems, TLAPS

(* All the steps of one run                                                *)
Step(r) ==
  \/ Start(r) \/ Cancel(r) \/ Deciding(r)
  \/ Dispatching(r) \/ Loading(r) \/ Heartbeat(r)
  \/ Age(r) \/ Sweep(r) \/ LoseTask(r) \/ LoseWorker(r)

(* Every variable of PerfRun stays in its range.                           *)
THEOREM TypeCorrect == Spec => []TypeOK
<1>1. Init => TypeOK
  BY DEF Init, NoWorker, TypeOK, Statuses, WorkerPlaces, Outcomes
<1>2. ASSUME TypeOK, NEW r \in Runs, Step(r) PROVE TypeOK'
  <2> USE <1>2 DEF TypeOK, SetStatus, WorkerAt, WorkerForgets, NoWorker, StoreResult, row, ask
  <2>1. CASE Start(r)
    BY <2>1 DEF Start, Statuses
  <2>2. CASE Cancel(r)
    BY <2>2 DEF Cancel, Statuses, Holding, Terminal
  <2>3. CASE Deciding(r)
    <3>1. CASE Approve(r)
      BY <3>1 DEF Approve, Statuses, Holding
    <3>2. CASE Reject(r)
      BY <3>2 DEF Reject, Statuses, Terminal
    <3>3. CASE Expire(r)
      BY <3>3 DEF Expire, Statuses, Terminal
    <3>4. CASE FindLate(r)
      BY <3>4 DEF FindLate
    <3> QED
      BY <2>3, <3>1, <3>2, <3>3, <3>4 DEF Deciding
  <2>4. CASE Dispatching(r)
    <3>1. CASE Dispatch(r)
      <4>1. waiting[r] \in Nat /\ waiting[r] > 0 /\ waiting' = [waiting EXCEPT ![r] = @ - 1]
        BY <3>1 DEF Dispatch
      <4>2. waiting' \in [Runs -> Nat]
        BY <4>1
      <4> QED
        BY <3>1, <4>2 DEF Dispatch, Statuses
    <3>2. CASE LookForSiblings(r)
      BY <3>2 DEF LookForSiblings
    <3>3. CASE Invalid(r)
      BY <3>3 DEF Invalid, Statuses, Terminal
    <3>4. CASE Requeue(r)
      BY <3>4 DEF Requeue, Statuses
    <3>5. CASE Turned(r)
      BY <3>5 DEF Turned, Statuses, Terminal
    <3>6. CASE Admit(r)
      <4>1. /\ status' \in [Runs -> Statuses]
            /\ beat' \in [Runs -> {"null", "fresh", "stale"}]
            /\ approval' \in [Runs -> {"none", "PENDING", "EXECUTED", "EXPIRED"}]
        BY <3>6, ZenonT(40) DEF Admit, AskApproval, Statuses, Holding
      <4>2. hash' \in [Runs -> BOOLEAN] /\ noted' \in [Runs -> BOOLEAN]
        BY <3>6 DEF Admit, AskApproval
      <4>3. inUse' \in Nat
        BY <3>6 DEF Admit, AskApproval
      <4>4. /\ admission' \in [Runs -> {"none", "check", "admit", "requeue"}]
            /\ worker' \in [Runs -> [pc : WorkerPlaces, outcome : Outcomes]]
        BY <3>6 DEF Admit, AskApproval, WorkerPlaces, Working
      <4> QED
        BY <3>6, <4>1, <4>2, <4>3, <4>4 DEF Admit, AskApproval
    <3> QED
      BY <2>4, <3>1, <3>2, <3>3, <3>4, <3>5, <3>6 DEF Dispatching
  <2>5. CASE Loading(r)
    <3>1. CASE WorkerStart(r) \/ WorkerAwait(r) \/ WorkerEnter(r)
      <4>1. PICK p \in {"await", "enter", "load", "quit"} : WorkerAt(r, p)
        BY <3>1 DEF WorkerStart, WorkerAwait, WorkerEnter
      <4>2. worker' \in [Runs -> [pc : WorkerPlaces, outcome : Outcomes]]
        BY <4>1 DEF WorkerPlaces, Working
      <4> QED
        BY <3>1, <4>2 DEF WorkerStart, WorkerAwait, WorkerEnter
    <3>2. ASSUME NEW outcome \in Outcomes, LoadEnd(r, outcome) PROVE TypeOK'
      BY <3>2 DEF LoadEnd, WorkerPlaces, Working
    <3>3. CASE WorkerFinalize(r)
      <4>1. worker' \in [Runs -> [pc : WorkerPlaces, outcome : Outcomes]]
        BY <3>3 DEF WorkerFinalize, WorkerPlaces, Working, Outcomes
      <4>4. result' \in [Runs -> {"none", "passed", "failed"}]
        BY <3>3 DEF WorkerFinalize
      <4>2. worker[r].outcome \in Statuses
        BY DEF Outcomes, Statuses, Terminal
      <4>3. status' \in [Runs -> Statuses] /\ noted' \in [Runs -> BOOLEAN]
        <5>1. CASE status[r] = "RUNNING"
          BY <3>3, <4>2, <5>1 DEF WorkerFinalize
        <5>2. CASE status[r] = "STOPPING"
          BY <3>3, <5>2 DEF WorkerFinalize, Statuses, Terminal
        <5>3. CASE status[r] \notin {"RUNNING", "STOPPING"}
          BY <3>3, <5>3 DEF WorkerFinalize
        <5> QED
          BY <5>1, <5>2, <5>3
      <4> QED
        BY <3>3, <4>1, <4>3, <4>4 DEF WorkerFinalize
    <3>4. CASE WorkerRelease(r)
      BY <3>4 DEF WorkerRelease, WorkerPlaces
    <3>5. CASE WorkerPromote(r)
      <4>1. worker' \in [Runs -> [pc : WorkerPlaces, outcome : Outcomes]]
        BY <3>5 DEF WorkerPromote, WorkerPlaces
      <4>2. waiting' \in [Runs -> Nat] /\ noted' \in [Runs -> BOOLEAN]
        <5>1. CASE QueuedSiblings(r) = {}
          BY <3>5, <5>1 DEF WorkerPromote
        <5>2. CASE QueuedSiblings(r) # {}
          <6>1. PICK q \in QueuedSiblings(r) : /\ waiting' = [waiting EXCEPT ![q] = @ + 1]
                                              /\ noted' = [noted EXCEPT ![q] = TRUE]
            BY <3>5, <5>2 DEF WorkerPromote
          <6> QED
            BY <6>1 DEF QueuedSiblings, Siblings
        <5> QED
          BY <5>1, <5>2
      <4> QED
        BY <3>5, <4>1, <4>2 DEF WorkerPromote
    <3> QED
      BY <2>5, <3>1, <3>2, <3>3, <3>4, <3>5 DEF Loading
  <2>6. CASE Heartbeat(r) \/ Age(r)
    BY <2>6 DEF Heartbeat, Age
  <2>7. CASE Sweep(r)
    BY <2>7 DEF Sweep, Statuses, Terminal
  <2>8. CASE LoseTask(r)
    <3>1. CASE waiting[r] > 0 /\ waiting' = [waiting EXCEPT ![r] = @ - 1] /\ UNCHANGED admission
      <4>1. waiting[r] \in Nat /\ waiting[r] - 1 \in Nat
        BY <3>1
      <4> QED
        BY <2>8, <3>1, <4>1 DEF LoseTask
    <3>2. CASE admission' = [admission EXCEPT ![r] = "none"] /\ UNCHANGED waiting
      BY <2>8, <3>2 DEF LoseTask
    <3> QED
      BY <2>8, <3>1, <3>2 DEF LoseTask
  <2>9. CASE LoseWorker(r)
    BY <2>9 DEF LoseWorker, WorkerPlaces, Outcomes
  <2> QED
    BY <1>2, <2>1, <2>2, <2>3, <2>4, <2>5, <2>6, <2>7, <2>8, <2>9 DEF Step
<1>3. ASSUME TypeOK, UNCHANGED vars PROVE TypeOK'
  BY <1>3 DEF vars, row, ask, TypeOK
<1>4. ASSUME TypeOK, [Next]_vars PROVE TypeOK'
  BY <1>2, <1>3, <1>4 DEF Next, Step
<1> QED
  BY <1>1, <1>4, PTL DEF Spec

-----------------------------------------------------------------------------
(* What ties the columns of one run to its tasks, its worker and its       *)
(* approval.  A run is only admitted while it is VALIDATING; before that   *)
(* nobody works for it or decides on it; a risky run gets past its         *)
(* approval by a grant only; and while it waits its worker waits too.      *)
Early == {"absent", "PENDING", "VALIDATING"}
Admitting(r) == admission[r] # "none" => status[r] = "VALIDATING"
Fresh(r) ==
  status[r] \in Early => approval[r] = "none" /\ ~late[r] /\ worker[r].pc = "none"
Riskless(r) ==
  ~HighRisk[r] => approval[r] = "none" /\ ~late[r] /\ status[r] # "WAITING_APPROVAL"
Granted(r) ==
  HighRisk[r] /\ (status[r] \in {"RUNNING", "STOPPING"} \/ worker[r].pc = "load")
    => decision[r] = "granted"
Waits(r) == status[r] = "WAITING_APPROVAL" => worker[r].pc \in {"spawn", "await", "died"}
Undecided(r) == approval[r] \in {"none", "PENDING"} => decision[r] = "none"
Decided(r) ==
  /\ decision[r] = "denied" => status[r] = "CANCELLED" /\ worker[r].pc # "load"
  /\ decision[r] = "granted" => status[r] # "WAITING_APPROVAL" /\ worker[r].pc # "none"
Sound(r) ==
  /\ Admitting(r) /\ Fresh(r) /\ Riskless(r) /\ Granted(r) /\ Waits(r)
  /\ Undecided(r) /\ Decided(r)
AllSound == TypeOK /\ \A r \in Runs : Sound(r)

(* A step of one run leaves every other run's place alone.                 *)
LEMMA StepIsLocal ==
  ASSUME TypeOK, NEW r \in Runs, Step(r), NEW q \in Runs \ {r}
  PROVE  /\ status'[q] = status[q] /\ admission'[q] = admission[q]
         /\ approval'[q] = approval[q] /\ decision'[q] = decision[q] /\ late'[q] = late[q]
         /\ worker'[q] = worker[q]
<1> USE DEF TypeOK, SetStatus, WorkerAt, WorkerForgets, NoWorker, StoreResult, row, ask
<1>1. CASE Start(r) \/ Cancel(r)
  BY <1>1 DEF Start, Cancel
<1>2. CASE Deciding(r)
  BY <1>2 DEF Deciding, Approve, Reject, FindLate, Expire
<1>3. CASE Dispatching(r)
  <2>1. CASE Dispatch(r) \/ LookForSiblings(r) \/ Invalid(r)
    BY <2>1 DEF Dispatch, LookForSiblings, Invalid
  <2>2. CASE Requeue(r) \/ Turned(r)
    BY <2>2 DEF Requeue, Turned
  <2>3. CASE Admit(r)
    BY <2>3 DEF Admit, AskApproval
  <2> QED
    BY <1>3, <2>1, <2>2, <2>3 DEF Dispatching
<1>4. CASE Loading(r)
  <2>1. CASE WorkerStart(r) \/ WorkerAwait(r) \/ WorkerEnter(r)
    BY <2>1 DEF WorkerStart, WorkerAwait, WorkerEnter
  <2>2. ASSUME NEW outcome \in Outcomes, LoadEnd(r, outcome)
        PROVE  UNCHANGED <<status, admission, ask>> /\ worker'[q] = worker[q]
    BY <2>2 DEF LoadEnd
  <2>3. CASE WorkerFinalize(r)
    BY <2>3 DEF WorkerFinalize
  <2>4. CASE WorkerRelease(r) \/ WorkerPromote(r)
    BY <2>4 DEF WorkerRelease, WorkerPromote
  <2> QED
    BY <1>4, <2>1, <2>2, <2>3, <2>4 DEF Loading
<1>5. CASE Heartbeat(r) \/ Age(r) \/ Sweep(r) \/ LoseTask(r) \/ LoseWorker(r)
  BY <1>5 DEF Heartbeat, Age, Sweep, LoseTask, LoseWorker
<1> QED
  BY <1>1, <1>2, <1>3, <1>4, <1>5 DEF Step

(* Moving a worker puts it in its new place.                               *)
LEMMA WorkerAtEffect ==
  ASSUME TypeOK, NEW r \in Runs, NEW p, WorkerAt(r, p)
  PROVE  worker'[r].pc = p
  BY DEF TypeOK, WorkerAt
LEMMA WorkerForgetsEffect ==
  ASSUME TypeOK, NEW r \in Runs, NEW p, WorkerForgets(r, p)
  PROVE  worker'[r].pc = p
  BY DEF TypeOK, WorkerForgets, NoWorker

(* A step of a run keeps its own columns sound.                            *)
LEMMA StepIsSound ==
  ASSUME TypeOK, NEW r \in Runs, Step(r), Sound(r)
  PROVE  Sound(r)'
<1> USE HighRiskAssumption
    DEF TypeOK, SetStatus, WorkerAt, WorkerForgets, NoWorker, StoreResult, Sound, Admitting, Fresh, Riskless, Granted, Waits,
        Undecided, Decided, Early, Runs, row, ask
<1>1. CASE Start(r) \/ Cancel(r)
  BY <1>1, ZenonT(40) DEF Start, Cancel
<1>2. CASE Deciding(r)
  <2>1. CASE Approve(r)
    BY <2>1, ZenonT(40) DEF Approve
  <2>2. CASE Reject(r)
    BY <2>2, ZenonT(40) DEF Reject
  <2>3. CASE Expire(r)
    BY <2>3 DEF Expire
  <2>4. CASE FindLate(r)
    BY <2>4 DEF FindLate
  <2> QED
    BY <1>2, <2>1, <2>2, <2>3, <2>4 DEF Deciding
<1>3. CASE Dispatching(r)
  <2>1. CASE Dispatch(r)
    BY <2>1, ZenonT(40) DEF Dispatch
  <2>2. CASE LookForSiblings(r)
    BY <2>2 DEF LookForSiblings
  <2>3. CASE Invalid(r)
    BY <2>3 DEF Invalid
  <2>4. CASE Requeue(r)
    BY <2>4 DEF Requeue
  <2>5. CASE Turned(r)
    BY <2>5 DEF Turned
  <2>6. CASE Admit(r)
    <3>1. /\ status[r] = "VALIDATING" /\ approval[r] = "none" /\ decision'[r] = "none" /\ ~late'[r]
          /\ admission'[r] = "none" /\ worker'[r].pc = "spawn"
      BY <2>6, WorkerAtEffect DEF Admit, AskApproval
    <3>2. CASE HighRisk[r]
      <4>1. status'[r] = "WAITING_APPROVAL" /\ approval'[r] = "PENDING"
        BY <2>6, <3>2 DEF Admit, AskApproval
      <4> QED
        BY <3>1, <3>2, <4>1
    <3>3. CASE ~HighRisk[r]
      <4>1. status'[r] = "RUNNING" /\ approval'[r] = approval[r]
        BY <2>6, <3>3 DEF Admit, AskApproval
      <4> QED
        BY <3>1, <3>3, <4>1
    <3> QED
      BY <3>2, <3>3
  <2> QED
    BY <1>3, <2>1, <2>2, <2>3, <2>4, <2>5, <2>6 DEF Dispatching
<1>4. CASE Loading(r)
  <2>1. CASE WorkerStart(r) \/ WorkerAwait(r)
    <3>1. /\ UNCHANGED <<status, admission, ask>> /\ worker[r].pc \in {"spawn", "await"}
          /\ \/ worker'[r].pc = "await"
             \/ worker'[r].pc = "enter" /\ status[r] # "WAITING_APPROVAL"
      <4>1. CASE WorkerStart(r)
        BY <4>1, WorkerAtEffect DEF WorkerStart
      <4>2. CASE WorkerAwait(r)
        BY <4>2, WorkerAtEffect DEF WorkerAwait
      <4> QED
        BY <2>1, <4>1, <4>2
    <3> QED
      BY <3>1
  <2>2. CASE WorkerEnter(r)
    <3>1. /\ UNCHANGED <<status, admission, ask>> /\ worker[r].pc = "enter"
          /\ worker'[r].pc = "quit" \/ (worker'[r].pc = "load" /\ status[r] = "RUNNING")
      BY <2>2, WorkerAtEffect DEF WorkerEnter
    <3> QED
      BY <3>1
  <2>3. ASSUME NEW outcome \in Outcomes, LoadEnd(r, outcome) PROVE Sound(r)'
    BY <2>3 DEF LoadEnd
  <2>4. CASE WorkerFinalize(r)
    <3>1. /\ UNCHANGED <<admission, ask>>
          /\ worker[r].pc = "final" /\ worker'[r].pc = "release"
      BY <2>4, WorkerForgetsEffect DEF WorkerFinalize
    <3>2. \/ status'[r] = status[r]
          \/ status[r] = "RUNNING" /\ status'[r] \in Outcomes
          \/ status[r] = "STOPPING" /\ status'[r] = "CANCELLED"
      <4>1. CASE status[r] = "RUNNING"
        <5>1. worker[r].outcome \in Outcomes
          OBVIOUS
        <5>2. status'[r] = worker[r].outcome
          BY <2>4, <4>1 DEF WorkerFinalize
        <5> QED
          BY <4>1, <5>1, <5>2
      <4>2. CASE status[r] = "STOPPING"
        BY <2>4, <4>2 DEF WorkerFinalize
      <4>3. CASE status[r] \notin {"RUNNING", "STOPPING"}
        BY <2>4, <4>3 DEF WorkerFinalize
      <4> QED
        BY <4>1, <4>2, <4>3
    <3> QED
      BY <3>1, <3>2 DEF Outcomes
  <2>5. CASE WorkerRelease(r) \/ WorkerPromote(r)
    <3>1. /\ UNCHANGED <<status, admission, ask>>
          /\ worker[r].pc \in {"release", "promote"} /\ worker'[r].pc \in {"promote", "done"}
      <4>1. CASE WorkerRelease(r)
        BY <4>1, WorkerAtEffect DEF WorkerRelease
      <4>2. CASE WorkerPromote(r)
        BY <4>2, WorkerAtEffect DEF WorkerPromote
      <4> QED
        BY <2>5, <4>1, <4>2
    <3> QED
      BY <3>1
  <2> QED
    BY <1>4, <2>1, <2>2, <2>3, <2>4, <2>5 DEF Loading
<1>5. CASE Heartbeat(r) \/ Age(r) \/ Sweep(r) \/ LoseTask(r)
  BY <1>5 DEF Heartbeat, Age, Sweep, LoseTask
<1>6. CASE LoseWorker(r)
  BY <1>6 DEF LoseWorker, Working
<1> QED
  BY <1>1, <1>2, <1>3, <1>4, <1>5, <1>6 DEF Step

(* Every run is sound, in every reachable state.                           *)
LEMMA SoundAlways == Spec => []AllSound
<1>1. Init => \A r \in Runs : Sound(r)
  BY HighRiskAssumption
     DEF Init, NoWorker, Sound, Admitting, Fresh, Riskless, Granted, Waits, Undecided, Decided, Early, Runs
<1>2. ASSUME AllSound, TypeOK', [Next]_vars PROVE AllSound'
  <2>1. CASE UNCHANGED vars
    BY <1>2, <2>1
       DEF vars, row, ask, AllSound, Sound, Admitting, Fresh, Riskless, Granted, Waits, Undecided, Decided
  <2>2. ASSUME NEW r \in Runs, Step(r), NEW q \in Runs PROVE Sound(q)'
    <3>1. CASE q = r
      BY <1>2, <2>2, <3>1, StepIsSound DEF AllSound
    <3>2. CASE q # r
      BY <1>2, <2>2, <3>2, StepIsLocal
         DEF AllSound, Sound, Admitting, Fresh, Riskless, Granted, Waits, Undecided, Decided
    <3> QED
      BY <3>1, <3>2
  <2> QED
    BY <1>2, <2>1, <2>2 DEF Next, Step, AllSound
<1>3. Init /\ TypeOK => AllSound
  BY <1>1 DEF AllSound
<1> QED
  BY <1>2, <1>3, TypeCorrect, PTL DEF Spec

(* A high-risk load runs under a granted approval.                         *)
THEOREM LoadApprovedHolds == Spec => []LoadApproved
<1>1. AllSound => LoadApproved
  BY DEF AllSound, Sound, Granted, LoadApproved
<1> QED
  BY <1>1, SoundAlways, PTL

(* A decided approval and its run agree.                                   *)
THEOREM DecisionKeptHolds == Spec => []DecisionKept
<1>1. AllSound => DecisionKept
  BY DEF AllSound, Sound, Decided, DecisionKept
<1> QED
  BY <1>1, SoundAlways, PTL

-----------------------------------------------------------------------------
(* A run that waits, loads or is being stopped, or is about to be admitted *)
Occupies(r) == status[r] \in Holding \/ admission[r] = "admit"

(* A step of a run begins to occupy its scenario only by having found no   *)
(* sibling that is active, and leaves a terminal status alone.             *)
LEMMA StepOccupies ==
  ASSUME TypeOK, NEW r \in Runs, Step(r), Sound(r)
  PROVE  /\ Occupies(r)' => Occupies(r) \/ ActiveSiblings(r) = {}
         /\ status[r] \in Terminal => status'[r] = status[r]
<1> USE DEF TypeOK, SetStatus, WorkerAt, WorkerForgets, NoWorker, StoreResult, Sound, Admitting, Occupies, Holding, Terminal
<1>1. CASE Start(r) \/ Cancel(r)
  BY <1>1 DEF Start, Cancel
<1>2. CASE Deciding(r)
  BY <1>2 DEF Deciding, Approve, Reject, FindLate, Expire, row, ask
<1>3. CASE Dispatching(r)
  <2>1. CASE Dispatch(r) \/ Invalid(r) \/ Requeue(r) \/ Turned(r)
    BY <2>1 DEF Dispatch, Invalid, Requeue, Turned
  <2>2. CASE LookForSiblings(r)
    BY <2>2 DEF LookForSiblings, row, ask
  <2>3. CASE Admit(r)
    BY <2>3 DEF Admit, AskApproval
  <2> QED
    BY <1>3, <2>1, <2>2, <2>3 DEF Dispatching
<1>4. CASE Loading(r)
  <2>1. CASE WorkerFinalize(r)
    <3>1. CASE status[r] = "RUNNING"
      BY <2>1, <3>1 DEF WorkerFinalize
    <3>2. CASE status[r] = "STOPPING"
      BY <2>1, <3>2 DEF WorkerFinalize
    <3>3. CASE status[r] \notin {"RUNNING", "STOPPING"}
      BY <2>1, <3>3 DEF WorkerFinalize
    <3> QED
      BY <3>1, <3>2, <3>3
  <2>2. CASE ~WorkerFinalize(r)
    <3>1. UNCHANGED <<status, admission>>
      BY <1>4, <2>2
         DEF Loading, WorkerStart, WorkerAwait, WorkerEnter, LoadEnd, WorkerRelease,
             WorkerPromote, row, ask
    <3> QED
      BY <3>1
  <2> QED
    BY <2>1, <2>2
<1>5. CASE Heartbeat(r) \/ Age(r) \/ Sweep(r) \/ LoseTask(r) \/ LoseWorker(r)
  BY <1>5 DEF Heartbeat, Age, Sweep, LoseTask, LoseWorker, row, ask
<1> QED
  BY <1>1, <1>2, <1>3, <1>4, <1>5 DEF Step

(* At most one run of a scenario is admitted at a time.                    *)
Exclusive ==
  \A r \in Runs : Occupies(r) => \A q \in Siblings(r) : ~Occupies(q)

LEMMA ExclusiveAlways == Spec => []Exclusive
<1>1. Init => Exclusive
  BY DEF Init, Exclusive, Occupies, Siblings, Holding
<1>2. ASSUME AllSound, Exclusive, [Next]_vars PROVE Exclusive'
  <2>1. CASE UNCHANGED vars
    BY <1>2, <2>1 DEF vars, row, ask, Exclusive, Occupies, Siblings
  <2>2. ASSUME NEW r \in Runs, Step(r) PROVE Exclusive'
    <3>1. \A q \in Runs \ {r} : Occupies(q)' => Occupies(q)
      BY <1>2, <2>2, StepIsLocal DEF Occupies, AllSound
    <3>2. CASE Occupies(r)' => Occupies(r)
      BY <1>2, <3>1, <3>2 DEF Exclusive, Siblings
    <3>3. CASE ActiveSiblings(r) = {}
      <4>1. \A q \in Siblings(r) : ~Occupies(q)
        BY <1>2, <3>3
           DEF AllSound, ActiveSiblings, Siblings, Occupies, Sound, Admitting, Holding, Terminal
      <4>2. \A q \in Siblings(r) : ~Occupies(q)'
        BY <3>1, <4>1 DEF Siblings
      <4> QED
        BY <1>2, <3>1, <4>2 DEF Exclusive, Siblings
    <3> QED
      BY <1>2, <2>2, <3>2, <3>3, StepOccupies DEF AllSound
  <2> QED
    BY <1>2, <2>1, <2>2 DEF Next, Step
<1> QED
  BY <1>1, <1>2, SoundAlways, PTL DEF Spec

(* A worker loads for a run that is RUNNING or being stopped, unless the   *)
(* sweeper has ended the run over its head.                                *)
Backed(r) == Loads(r) => status[r] \in {"RUNNING", "STOPPING"} \/ Swept(r)

LEMMA StepIsBacked ==
  ASSUME TypeOK, NEW r \in Runs, Step(r), Sound(r), Backed(r)
  PROVE  Backed(r)'
<1> USE DEF Backed, Loads, Swept
<1>1. CASE Start(r) \/ Cancel(r)
  BY <1>1 DEF Start, Cancel, SetStatus, TypeOK, Sound, Fresh, Early
<1>2. CASE Deciding(r)
  BY <1>2 DEF Deciding, Approve, Reject, FindLate, Expire, SetStatus, row, TypeOK
<1>3. CASE Dispatching(r)
  <2>1. CASE Admit(r)
    BY <2>1, WorkerAtEffect DEF Admit
  <2>2. CASE ~Admit(r)
    <3>1. UNCHANGED worker /\ (status' = status \/ status[r] \in Early)
      BY <1>3, <2>2 DEF Dispatching, Dispatch, LookForSiblings, Invalid, Requeue, Turned, row,
                        Sound, Admitting, Early
    <3>2. status[r] \in Early => ~Loads(r)
      BY DEF Sound, Fresh
    <3> QED
      BY <3>1, <3>2
  <2> QED
    BY <2>1, <2>2
<1>4. CASE Loading(r)
  <2>1. CASE WorkerEnter(r)
    BY <2>1, WorkerAtEffect DEF WorkerEnter, row
  <2>2. CASE ~WorkerEnter(r)
    <3>1. CASE WorkerStart(r) \/ WorkerAwait(r) \/ WorkerRelease(r) \/ WorkerPromote(r)
      BY <3>1, WorkerAtEffect DEF WorkerStart, WorkerAwait, WorkerRelease, WorkerPromote
    <3>2. ASSUME NEW outcome \in Outcomes, LoadEnd(r, outcome) PROVE ~Loads(r)'
      BY <3>2 DEF LoadEnd, TypeOK
    <3>3. CASE WorkerFinalize(r)
      BY <3>3, WorkerForgetsEffect DEF WorkerFinalize
    <3> QED
      BY <1>4, <2>2, <3>1, <3>2, <3>3 DEF Loading
  <2> QED
    BY <2>1, <2>2
<1>5. CASE Heartbeat(r) \/ Age(r) \/ Sweep(r) \/ LoseTask(r)
  BY <1>5 DEF Heartbeat, Age, Sweep, LoseTask, SetStatus, row, TypeOK
<1>6. CASE LoseWorker(r)
  BY <1>6, WorkerForgetsEffect DEF LoseWorker
<1> QED
  BY <1>1, <1>2, <1>3, <1>4, <1>5, <1>6 DEF Step

LEMMA BackedAlways == Spec => []\A r \in Runs : Backed(r)
<1> DEFINE AllBacked == \A r \in Runs : Backed(r)
<1>1. Init => AllBacked
  BY DEF Init, NoWorker, Backed, Loads
<1>2. ASSUME AllSound, AllBacked, [Next]_vars PROVE AllBacked'
  <2>1. CASE UNCHANGED vars
    BY <1>2, <2>1 DEF vars, row, Backed, Loads, Swept
  <2>2. ASSUME NEW r \in Runs, Step(r), NEW q \in Runs PROVE Backed(q)'
    <3>1. CASE q = r
      BY <1>2, <2>2, <3>1, StepIsBacked DEF AllSound
    <3>2. CASE q # r
      BY <1>2, <2>2, <3>2, StepIsLocal DEF AllSound, Backed, Loads, Swept
    <3> QED
      BY <3>1, <3>2
  <2> QED
    BY <1>2, <2>1, <2>2 DEF Next, Step
<1> QED
  BY <1>1, <1>2, SoundAlways, PTL DEF Spec

(* One run of a scenario at a time, and one load but for those of runs     *)
(* that the sweeper has ended.                                             *)
THEOREM MutexHolds == Spec => []Mutex
<1>1. Exclusive /\ (\A r \in Runs : Backed(r)) => Mutex
  <2> SUFFICES ASSUME Exclusive, \A r \in Runs : Backed(r) PROVE Mutex
    OBVIOUS
  <2>1. \A r \in Runs : Siblings(r) \subseteq Runs
    BY DEF Siblings
  <2>2. \A r \in Runs : Loads(r) /\ ~Swept(r) => Occupies(r)
    BY DEF Backed, Occupies, Holding
  <2> QED
    BY <2>1, <2>2 DEF Mutex, Exclusive, Occupies
<1> QED
  BY <1>1, ExclusiveAlways, BackedAlways, PTL

(* Terminal states absorb.                                                 *)
THEOREM TerminalAbsorbs == Spec => TerminalAbsorbing
<1> DEFINE Absorbs == \A r \in Runs : status[r] \in Terminal => status'[r] = status[r]
<1>1. ASSUME AllSound, [Next]_vars PROVE Absorbs
  <2>1. CASE UNCHANGED vars
    BY <2>1 DEF vars, row, ask
  <2>2. ASSUME NEW r \in Runs, Step(r) PROVE Absorbs
    BY <1>1, <2>2, StepIsLocal, StepOccupies DEF AllSound
  <2> QED
    BY <1>1, <2>1, <2>2 DEF Next, Step
<1> QED
  BY <1>1, SoundAlways, PTL DEF Spec, TerminalAbsorbing

-----------------------------------------------------------------------------
(* A worker is in a place in which it owes the organisation a slot.        *)
Owes(r) == worker[r].pc \in Working \cup {"quit", "died"}

(* A slot is taken by the admission of a run whose worker owes none yet,   *)
(* and given back by a worker that owes one.                               *)
LEMMA StepOwes ==
  ASSUME TypeOK, NEW r \in Runs, Step(r), Sound(r)
  PROVE  \/ ~Owes(r) /\ Owes(r)' /\ inUse < Quota /\ inUse' = inUse + 1
         \/ Owes(r) /\ ~Owes(r)' /\ inUse' = IF inUse > 0 THEN inUse - 1 ELSE 0
         \/ (Owes(r)' <=> Owes(r)) /\ inUse' = inUse
<1> USE DEF Owes, Working
<1>1. CASE Start(r) \/ Cancel(r)
  BY <1>1 DEF Start, Cancel
<1>2. CASE Deciding(r)
  BY <1>2 DEF Deciding, Approve, Reject, FindLate, Expire, row, ask
<1>3. CASE Dispatching(r)
  <2>1. CASE Admit(r)
    <3>1. worker[r].pc = "none"
      BY <2>1 DEF Admit, AskApproval, Sound, Admitting, Fresh, Early
    <3>2. worker'[r].pc = "spawn" /\ inUse < Quota /\ inUse' = inUse + 1
      BY <2>1, WorkerAtEffect DEF Admit, AskApproval
    <3> QED
      BY <3>1, <3>2
  <2>2. CASE ~Admit(r)
    BY <1>3, <2>2 DEF Dispatching, Dispatch, LookForSiblings, Invalid, Requeue, Turned, row, ask
  <2> QED
    BY <2>1, <2>2
<1>4. CASE Loading(r)
  <2>1. CASE WorkerStart(r) \/ WorkerAwait(r) \/ WorkerEnter(r)
    <3>1. /\ UNCHANGED inUse /\ worker[r].pc \in {"spawn", "await", "enter"}
          /\ worker'[r].pc \in {"await", "enter", "load", "quit"}
      BY <2>1, WorkerAtEffect DEF WorkerStart, WorkerAwait, WorkerEnter
    <3> QED
      BY <3>1
  <2>2. ASSUME NEW outcome \in Outcomes, LoadEnd(r, outcome) PROVE Owes(r)' /\ Owes(r) /\ inUse' = inUse
    BY <2>2 DEF LoadEnd, TypeOK
  <2>3. CASE WorkerFinalize(r)
    <3>1. UNCHANGED inUse /\ worker[r].pc = "final" /\ worker'[r].pc = "release"
      BY <2>3, WorkerForgetsEffect DEF WorkerFinalize
    <3> QED
      BY <3>1
  <2>4. CASE WorkerRelease(r)
    <3>1. worker[r].pc = "release" /\ worker'[r].pc = "promote"
      BY <2>4, WorkerAtEffect DEF WorkerRelease
    <3> QED
      BY <2>4, <3>1 DEF WorkerRelease
  <2>5. CASE WorkerPromote(r)
    <3>1. UNCHANGED inUse /\ worker[r].pc = "promote" /\ worker'[r].pc = "done"
      BY <2>5, WorkerAtEffect DEF WorkerPromote
    <3> QED
      BY <3>1
  <2> QED
    BY <1>4, <2>1, <2>2, <2>3, <2>4, <2>5 DEF Loading
<1>5. CASE Heartbeat(r) \/ Age(r) \/ Sweep(r) \/ LoseTask(r)
  BY <1>5 DEF Heartbeat, Age, Sweep, LoseTask, row, ask
<1>6. CASE LoseWorker(r)
  <2>1. UNCHANGED inUse /\ worker[r].pc \in Working \cup {"promote"}
    BY <1>6 DEF LoseWorker
  <2>2. worker'[r].pc = IF worker[r].pc = "promote" THEN "done" ELSE "died"
    BY <1>6, WorkerForgetsEffect DEF LoseWorker
  <2> QED
    BY <2>1, <2>2
<1> QED
  BY <1>1, <1>2, <1>3, <1>4, <1>5, <1>6 DEF Step

(* The runs are finitely many, and so are those that owe a slot.           *)
LEMMA HoldersFinite ==
  ASSUME TypeOK PROVE IsFiniteSet(SlotHolders) /\ Cardinality(SlotHolders) \in Nat
<1>1. IsFiniteSet(Runs)
  BY FS_Interval, NumRunsAssumption DEF Runs
<1>2. SlotHolders \subseteq Runs
  BY DEF SlotHolders
<1> QED
  BY <1>1, <1>2, FS_Subset, FS_CardinalityType

(* The slots in use are those of the workers that still owe one.           *)
THEOREM QuotaExactHolds == Spec => []QuotaExact
<1>1. Init => QuotaExact
  <2> HAVE Init
  <2>1. SlotHolders = {}
    BY DEF Init, NoWorker, SlotHolders, Working
  <2>2. Cardinality({}) = 0
    BY FS_EmptySet
  <2> QED
    BY <2>1, <2>2, QuotaAssumption DEF Init, QuotaExact
<1>2. ASSUME AllSound, QuotaExact, [Next]_vars PROVE QuotaExact'
  <2>0. IsFiniteSet(SlotHolders) /\ Cardinality(SlotHolders) \in Nat /\ inUse \in Nat /\ Quota \in Nat
    BY <1>2, HoldersFinite, QuotaAssumption DEF AllSound, TypeOK
  <2>1. CASE UNCHANGED vars
    BY <1>2, <2>1 DEF vars, QuotaExact, SlotHolders
  <2>2. ASSUME NEW r \in Runs, Step(r) PROVE QuotaExact'
    <3>0. /\ TypeOK /\ Sound(r)
          /\ \A q \in Runs \ {r} : Owes(q)' <=> Owes(q)
      BY <1>2, <2>2, StepIsLocal DEF AllSound, Owes
    <3>1. CASE ~Owes(r) /\ Owes(r)' /\ inUse < Quota /\ inUse' = inUse + 1
      <4>1. SlotHolders' = SlotHolders \cup {r} /\ r \notin SlotHolders
        BY <3>0, <3>1 DEF SlotHolders, Owes
      <4>2. Cardinality(SlotHolders \cup {r}) = Cardinality(SlotHolders) + 1
        BY <2>0, <4>1, FS_AddElement
      <4> QED
        BY <1>2, <2>0, <3>1, <4>1, <4>2 DEF QuotaExact
    <3>2. CASE Owes(r) /\ ~Owes(r)' /\ inUse' = IF inUse > 0 THEN inUse - 1 ELSE 0
      <4>1. SlotHolders' = SlotHolders \ {r} /\ r \in SlotHolders
        BY <3>0, <3>2 DEF SlotHolders, Owes
      <4>2. Cardinality(SlotHolders \ {r}) = Cardinality(SlotHolders) - 1
        BY <2>0, <4>1, FS_RemoveElement
      <4>3. Cardinality(SlotHolders \ {r}) \in Nat
        BY <2>0, FS_RemoveElement, FS_CardinalityType
      <4> QED
        BY <1>2, <2>0, <3>2, <4>1, <4>2, <4>3 DEF QuotaExact
    <3>3. CASE (Owes(r)' <=> Owes(r)) /\ inUse' = inUse
      <4>1. SlotHolders' = SlotHolders
        BY <3>0, <3>3 DEF SlotHolders, Owes
      <4> QED
        BY <1>2, <3>3, <4>1 DEF QuotaExact
    <3> QED
      BY <2>2, <3>0, <3>1, <3>2, <3>3, StepOwes
  <2> QED
    BY <1>2, <2>1, <2>2 DEF Next, Step
<1> QED
  BY <1>1, <1>2, SoundAlways, PTL DEF Spec

-----------------------------------------------------------------------------
(* The contract *)

(* A worker that has not come to its last transaction has stored no        *)
(* result, and the run has no verdict, for the verdict is in that          *)
(* transaction; a run that nobody works for has no result either.          *)
Stored(r) ==
  /\ worker[r].pc \in {"none", "spawn", "await", "enter", "load", "final", "quit"} => result[r] = "none"
  /\ worker[r].pc \in {"spawn", "await", "enter", "load", "final"} => status[r] \notin {"SUCCEEDED", "FAILED"}

(* What a step does to the run as its caller sees it.                      *)
StepShows(r) ==
  \/ UNCHANGED <<status[r], result[r]>>
  \/ /\ UNCHANGED result[r]
     /\ \/ status[r] = "absent" /\ status'[r] = "PENDING"
        \/ {status[r], status'[r]} \subseteq {"PENDING", "VALIDATING", "WAITING_APPROVAL", "RUNNING"}
        \/ status[r] \in {"PENDING", "VALIDATING"} /\ status'[r] = "FAILED"
        \/ status[r] \in {"PENDING", "WAITING_APPROVAL"} /\ status'[r] = "CANCELLED"
        \/ status[r] = "RUNNING" /\ status'[r] \in {"STOPPING", "TIMEOUT"}
        \/ status[r] = "STOPPING" /\ status'[r] = "CANCELLED"
  \/ /\ result[r] = "none" /\ status[r] \notin {"absent", "SUCCEEDED", "FAILED"}
     /\ \/ status[r] = "RUNNING" /\ status'[r] = "SUCCEEDED" /\ result'[r] = "passed"
        \/ status[r] = "RUNNING" /\ status'[r] \in {"FAILED", "CANCELLED"}
        \/ status[r] = "STOPPING" /\ status'[r] = "CANCELLED"
        \/ UNCHANGED status[r]

LEMMA StepIsShown ==
  ASSUME TypeOK, NEW r \in Runs, Step(r), Sound(r), Stored(r)
  PROVE  StepShows(r) /\ Stored(r)' /\ \A q \in Runs \ {r} : UNCHANGED result[q]
<1> USE DEF TypeOK, SetStatus, Stored, StepShows, row, ask
<1>1. CASE Start(r) \/ Cancel(r)
  BY <1>1 DEF Start, Cancel, Sound, Fresh, Early
<1>2. CASE Deciding(r)
  <2>1. UNCHANGED <<result, worker>>
    BY <1>2 DEF Deciding, Approve, Reject, FindLate, Expire
  <2>2. \/ UNCHANGED status[r]
        \/ status[r] = "WAITING_APPROVAL" /\ status'[r] \in {"RUNNING", "CANCELLED"}
    BY <1>2 DEF Deciding, Approve, Reject, FindLate, Expire
  <2> QED
    BY <2>1, <2>2
<1>3. CASE Dispatching(r)
  <2>1. CASE Dispatch(r) \/ LookForSiblings(r) \/ Invalid(r) \/ Requeue(r) \/ Turned(r)
    <3>1. UNCHANGED <<result, worker>>
      BY <2>1 DEF Dispatch, LookForSiblings, Invalid, Requeue, Turned
    <3>2. \/ UNCHANGED status[r]
          \/ /\ status[r] \in {"PENDING", "VALIDATING"}
             /\ status'[r] \in {"PENDING", "VALIDATING", "FAILED"}
      BY <2>1 DEF Dispatch, LookForSiblings, Invalid, Requeue, Turned, Sound, Admitting
    <3>3. status'[r] = "FAILED" => UNCHANGED status[r] \/ worker[r].pc = "none"
      BY <3>2 DEF Sound, Fresh, Early
    <3> QED
      BY <3>1, <3>2, <3>3
  <2>2. CASE Admit(r)
    <3>1. /\ status[r] = "VALIDATING" /\ worker[r].pc = "none" /\ worker'[r].pc = "spawn"
          /\ UNCHANGED result
      BY <2>2, WorkerAtEffect DEF Admit, Sound, Admitting, Fresh, Early
    <3>2. status'[r] \in {"WAITING_APPROVAL", "RUNNING"}
      BY <2>2 DEF Admit
    <3> QED
      BY <3>1, <3>2
  <2> QED
    BY <1>3, <2>1, <2>2 DEF Dispatching
<1>4. CASE Loading(r)
  <2>1. CASE WorkerFinalize(r)
    <3>1. /\ worker[r].pc = "final" /\ worker'[r].pc = "release"
          /\ result[r] = "none" /\ status[r] \notin {"absent", "SUCCEEDED", "FAILED"}
      BY <2>1, WorkerForgetsEffect DEF WorkerFinalize, Sound, Fresh, Early
    <3>2. /\ result'[r] = IF worker[r].outcome = "SUCCEEDED" THEN "passed" ELSE "failed"
          /\ \A q \in Runs \ {r} : UNCHANGED result[q]
      BY <2>1 DEF WorkerFinalize, StoreResult
    <3>3. CASE status[r] = "RUNNING"
      <4>1. status'[r] = worker[r].outcome /\ worker[r].outcome \in Outcomes
        BY <2>1, <3>3 DEF WorkerFinalize
      <4> QED
        BY <3>1, <3>2, <3>3, <4>1 DEF Outcomes
    <3>4. CASE status[r] = "STOPPING"
      BY <2>1, <3>1, <3>2, <3>4 DEF WorkerFinalize
    <3>5. CASE status[r] \notin {"RUNNING", "STOPPING"}
      BY <2>1, <3>1, <3>2, <3>5 DEF WorkerFinalize
    <3> QED
      BY <3>3, <3>4, <3>5
  <2>2. CASE ~WorkerFinalize(r)
    <3>1. UNCHANGED <<status, result>>
      BY <1>4, <2>2
         DEF Loading, WorkerStart, WorkerAwait, WorkerEnter, LoadEnd, WorkerRelease, WorkerPromote
    <3>2. \/ /\ worker'[r].pc \in {"await", "enter", "load", "final", "quit"}
             /\ worker[r].pc \in {"spawn", "await", "enter", "load"}
          \/ worker'[r].pc \in {"promote", "done"}
      <4>1. CASE WorkerStart(r) \/ WorkerAwait(r)
        BY <4>1, WorkerAtEffect DEF WorkerStart, WorkerAwait
      <4>2. CASE WorkerEnter(r)
        BY <4>2, WorkerAtEffect DEF WorkerEnter
      <4>3. ASSUME NEW outcome \in Outcomes, LoadEnd(r, outcome)
            PROVE  worker[r].pc = "load" /\ worker'[r].pc = "final"
        BY <4>3 DEF LoadEnd
      <4>4. CASE WorkerRelease(r) \/ WorkerPromote(r)
        BY <4>4, WorkerAtEffect DEF WorkerRelease, WorkerPromote
      <4> QED
        BY <1>4, <2>2, <4>1, <4>2, <4>3, <4>4 DEF Loading
    <3> QED
      BY <3>1, <3>2
  <2> QED
    BY <2>1, <2>2
<1>5. CASE Heartbeat(r) \/ Age(r) \/ Sweep(r) \/ LoseTask(r)
  BY <1>5 DEF Heartbeat, Age, Sweep, LoseTask
<1>6. CASE LoseWorker(r)
  <2>1. UNCHANGED <<status, result>> /\ worker'[r].pc \in {"done", "died"}
    BY <1>6, WorkerForgetsEffect DEF LoseWorker
  <2> QED
    BY <2>1
<1> QED
  BY <1>1, <1>2, <1>3, <1>4, <1>5, <1>6 DEF Step

AllStored == \A r \in Runs : Stored(r)

LEMMA StoredAlways == Spec => []AllStored
<1>1. Init => AllStored
  BY DEF Init, NoWorker, AllStored, Stored
<1>2. ASSUME AllSound, AllStored, [Next]_vars PROVE AllStored'
  <2>1. CASE UNCHANGED vars
    BY <1>2, <2>1 DEF vars, row, AllStored, Stored
  <2>2. ASSUME NEW r \in Runs, Step(r), NEW q \in Runs PROVE Stored(q)'
    <3>1. CASE q = r
      BY <1>2, <2>2, <3>1, StepIsShown DEF AllSound, AllStored
    <3>2. CASE q # r
      <4>1. UNCHANGED <<status[q], worker[q], result[q]>>
        BY <1>2, <2>2, <3>2, StepIsLocal, StepIsShown DEF AllSound, AllStored
      <4> QED
        BY <1>2, <4>1 DEF AllStored, Stored
    <3> QED
      BY <3>1, <3>2
  <2> QED
    BY <1>2, <2>1, <2>2 DEF Next, Step, AllStored
<1> QED
  BY <1>1, <1>2, SoundAlways, PTL DEF Spec

ShownState == [r \in Runs |-> ContractState(r)]
ShownResult == [r \in Runs |-> [c \in {"scenario"} |-> result[r]]]

(* A step that touches one run and shows it nothing that it had not seen   *)
(* moves that run alone, and changes no result that was there.             *)
LEMMA OneRunShown ==
  ASSUME NEW r \in Runs, StepShows(r), \A q \in Runs \ {r} : UNCHANGED <<status[q], result[q]>>
  PROVE  /\ ShownState' = [ShownState EXCEPT ![r] = ContractState(r)']
         /\ ShownState[r] = ContractState(r)
         /\ UNCHANGED result[r] => UNCHANGED ShownResult
         /\ \A q \in Runs \ {r} : ShownResult'[q] = ShownResult[q]
         /\ \A c \in {"scenario"} : ShownResult[r][c] # "none" => ShownResult'[r][c] = ShownResult[r][c]
         /\ result'[r] = "passed" => \A c \in {"scenario"} : ShownResult'[r][c] = "passed"
<1>1. \A q \in Runs \ {r} : ContractState(q)' = ContractState(q)
  BY DEF ContractState
<1>2. ShownState' = [ShownState EXCEPT ![r] = ContractState(r)'] /\ ShownState[r] = ContractState(r)
  BY <1>1 DEF ShownState
<1>3. \A q \in Runs \ {r} : ShownResult'[q] = ShownResult[q]
  BY DEF ShownResult
<1>4. UNCHANGED result[r] => UNCHANGED ShownResult
  BY DEF ShownResult
<1>5. result[r] = "none" \/ UNCHANGED result[r]
  BY DEF StepShows
<1>6. \A c \in {"scenario"} : ShownResult[r][c] # "none" => ShownResult'[r][c] = ShownResult[r][c]
  BY <1>5 DEF ShownResult
<1>7. result'[r] = "passed" => \A c \in {"scenario"} : ShownResult'[r][c] = "passed"
  BY DEF ShownResult
<1> QED
  BY <1>2, <1>3, <1>4, <1>6, <1>7

LEMMA ShownInContract ==
  ASSUME TypeOK, NEW r \in Runs, StepShows(r), \A q \in Runs \ {r} : UNCHANGED <<status[q], result[q]>>
  PROVE  [Contract!Next]_Contract!vars
<1> DEFINE from == ContractState(r)
           to == ContractState(r)'
<1>1. CASE from = to /\ UNCHANGED result[r]
  <2>1. UNCHANGED <<ShownState, ShownResult>>
    BY <1>1, OneRunShown DEF ShownState
  <2> QED
    BY <2>1 DEF Contract!vars, ShownState, ShownResult
<1>2. CASE from = "absent" /\ to = "open" /\ UNCHANGED result[r]
  <2>1. Contract!Accept(r)
    BY <1>2, OneRunShown DEF Contract!Accept, Contract!Move, ShownState, ShownResult
  <2> QED
    BY <2>1 DEF Contract!Next
<1>3. CASE from = "open" /\ to \in {"stopping", "cancelled"} /\ UNCHANGED result[r]
  <2>1. Contract!AcceptCancel(r)
    BY <1>3, OneRunShown DEF Contract!AcceptCancel, Contract!Move, ShownState, ShownResult
  <2> QED
    BY <2>1 DEF Contract!Next
<1>4. CASE from = "open" /\ to = "cancelled"
  <2>1. Contract!CallOff(r)
    BY <1>4, OneRunShown DEF Contract!CallOff, Contract!Move, Contract!Adds, ShownState, ShownResult
  <2> QED
    BY <2>1 DEF Contract!Next
<1>5. CASE from = "open" /\ to = "failed"
  <2>1. Contract!Fail(r)
    BY <1>5, OneRunShown DEF Contract!Fail, Contract!Move, Contract!Adds, ShownState, ShownResult
  <2> QED
    BY <2>1 DEF Contract!Next
<1>6. CASE from = "open" /\ to = "succeeded" /\ result'[r] = "passed"
  <2>1. Contract!Succeed(r)
    BY <1>6, OneRunShown DEF Contract!Succeed, Contract!Move, Contract!Adds, ShownState, ShownResult
  <2> QED
    BY <2>1 DEF Contract!Next
<1>7. CASE from = "stopping" /\ to = "cancelled"
  <2>1. Contract!Confirm(r)
    BY <1>7, OneRunShown DEF Contract!Confirm, Contract!Move, Contract!Adds, ShownState, ShownResult
  <2> QED
    BY <2>1 DEF Contract!Next
<1>8. CASE from = "open" /\ to = "timeout" /\ UNCHANGED result[r]
  <2>1. ShownState' = [q \in Runs |-> ShownState'[q]] /\ UNCHANGED ShownResult
    BY <1>8, OneRunShown DEF ShownState
  <2>2. \A q \in Runs : ShownState'[q] = ShownState[q] \/ (ShownState[q] = "open" /\ ShownState'[q] = "timeout")
    BY <1>8, OneRunShown DEF ShownState
  <2>3. Contract!Housekeep
    BY <2>1, <2>2 DEF Contract!Housekeep, ShownState, ShownResult
  <2> QED
    BY <2>3 DEF Contract!Next
<1>9. CASE from = to /\ from \notin {"succeeded", "failed", "absent"}
  <2>1. UNCHANGED ShownState
    BY <1>9, OneRunShown DEF ShownState
  <2>2. Contract!Report(r)
    BY <1>9, <2>1, OneRunShown DEF Contract!Report, Contract!Verdicts, Contract!Adds, ShownState, ShownResult
  <2> QED
    BY <2>2 DEF Contract!Next
<1>10. CASE UNCHANGED result[r]
  <2>1. \/ from = to
        \/ from = "absent" /\ to = "open"
        \/ from = "open" /\ to \in {"stopping", "cancelled", "failed", "timeout"}
        \/ from = "stopping" /\ to = "cancelled"
    BY <1>10 DEF StepShows, ContractState
  <2> HIDE DEF from, to
  <2> QED
    BY <1>1, <1>2, <1>3, <1>5, <1>7, <1>8, <1>10, <2>1
<1>11. CASE result[r] = "none" /\ ~UNCHANGED result[r]
  <2>1. \/ from = to /\ from \notin {"succeeded", "failed", "absent"}
        \/ from = "open" /\ to = "succeeded" /\ result'[r] = "passed"
        \/ from = "open" /\ to \in {"cancelled", "failed"}
        \/ from = "stopping" /\ to = "cancelled"
    <3>1. status[r] \in Statuses
      BY DEF TypeOK
    <3> QED
      BY <1>11, <3>1 DEF StepShows, ContractState, Statuses, Holding, Terminal
  <2> HIDE DEF from, to
  <2> QED
    BY <1>4, <1>5, <1>6, <1>7, <1>9, <2>1
<1> QED
  BY <1>10, <1>11 DEF StepShows

(* Performance runs implement RunContract: every transaction of every      *)
(* actor, the last one of a worker whose run has ended without it          *)
(* included, is a step of the contract or none.                            *)
THEOREM KeepsContractHolds == Spec => KeepsContract
<1>1. Init => Contract!Init
  BY DEF Init, Contract!Init, ContractState
<1>2. AllSound /\ AllStored /\ [Next]_vars => [Contract!Next]_Contract!vars
  <2> SUFFICES ASSUME AllSound, AllStored, [Next]_vars PROVE [Contract!Next]_Contract!vars
    OBVIOUS
  <2>1. ASSUME NEW r \in Runs, Step(r) PROVE [Contract!Next]_Contract!vars
    <3>1. StepShows(r) /\ \A q \in Runs \ {r} : UNCHANGED <<status[q], result[q]>>
      BY <2>1, StepIsLocal, StepIsShown DEF AllSound, AllStored
    <3> QED
      BY <3>1, ShownInContract DEF AllSound
  <2>2. CASE UNCHANGED vars
    <3>1. UNCHANGED <<status, result>>
      BY <2>2 DEF vars, row
    <3> QED
      BY <3>1 DEF Contract!vars, ContractState
  <2> QED
    BY <2>1, <2>2 DEF Next, Step
<1> QED
  BY <1>1, <1>2, SoundAlways, StoredAlways, PTL DEF Spec, KeepsContract, Contract!Spec
=============================================================================
