--------------------------- MODULE AgentRunProof ---------------------------
(***************************************************************************)
(* Proofs about AgentRun, for any number of runs, callers, cases, steps and*)
(* limits: types, what the trajectory tells, and the contract of a run.    *)
(***************************************************************************)
EXTENDS AgentRun, TLAPS

-----------------------------------------------------------------------------
(* Types *)

(* A row that is written is a row.                                         *)
LEMMA WrittenType ==
  ASSUME NEW x \in Rows, NEW s \in Statuses, NEW stop \in BOOLEAN, NEW fresh \in BOOLEAN
  PROVE  /\ Written(x, s, stop, fresh) \in Rows
         /\ Written(x, s, stop, fresh).status = s /\ Written(x, s, stop, fresh).stop = stop
  BY DEF Rows, Written

LEMMA NoRowType == NoRow \in Rows /\ NoRow.status = "absent" /\ NoRow.stop = FALSE
  BY DEF NoRow, Rows, Statuses

LEMMA SetStatusType ==
  ASSUME TypeOK, NEW r \in Runs, NEW s \in Statuses, NEW h \in BOOLEAN, SetStatus(r, s, h)
  PROVE  /\ row' \in [Runs -> Rows]
         /\ row'[r].status = s /\ row'[r].stop = row[r].stop
         /\ \A q \in Runs : q # r => row'[q] = row[q]
<1> DEFINE fresh == row[r].fresh \/ h
           new == Written(row[r], s, row[r].stop, fresh)
<1>1. row[r] \in Rows /\ row[r].stop \in BOOLEAN /\ fresh \in BOOLEAN
  BY DEF TypeOK, Rows
<1> HIDE DEF fresh
<1>2. new \in Rows /\ new.status = s /\ new.stop = row[r].stop
  BY <1>1, WrittenType
<1>3. row' = [row EXCEPT ![r] = new]
  BY DEF SetStatus, fresh
<1> HIDE DEF new
<1> QED
  BY <1>2, <1>3 DEF TypeOK

(* What is done to a worker keeps it one.                                  *)
LEMMA AtType ==
  ASSUME NEW w \in Workers, NEW place \in WorkerPlaces
  PROVE  At(w, place) \in Workers
  BY DEF Workers, At

LEMMA BreaksType ==
  ASSUME NEW w \in Workers, NEW why \in {"limit", "stopped"}
  PROVE  Breaks(w, why) \in Workers
<1>1. At(w, "final") \in Workers
  BY AtType DEF WorkerPlaces
<1> QED
  BY <1>1 DEF Breaks, Workers, Outcomes, At

LEMMA NextCaseType ==
  ASSUME NEW w \in Workers, NEW n \in Cases, 1 \in 1..NumSteps
  PROVE  [w EXCEPT !.case = n, !.step = 1, !.observed = FALSE] \in Workers
  BY DEF Workers

LEMMA CaseDoneType ==
  ASSUME NEW w \in Workers, NEW outcome \in Outcomes
  PROVE  CaseDone(w, outcome) \in Workers
<1> DEFINE told == [w EXCEPT !.told[w.case] = outcome]
           again == At(told, "check")
<1>1. told \in Workers
  BY DEF Workers, Outcomes
<1>2. told.case = w.case /\ w.case \in Cases /\ NumCases \in Nat
  BY AgentAssumption DEF Workers
<1> HIDE DEF told
<1>3. "final" \in WorkerPlaces /\ "check" \in WorkerPlaces
  BY DEF WorkerPlaces
<1>4. At(told, "final") \in Workers /\ again \in Workers
  BY <1>1, <1>3, AtType
<1>5. again.case = w.case
  BY <1>1, <1>2 DEF At, Workers
<1> HIDE DEF again
<1>6. w.case # NumCases => [again EXCEPT !.case = @ + 1, !.step = 1, !.observed = FALSE] \in Workers
  <2> SUFFICES ASSUME w.case # NumCases
               PROVE  [again EXCEPT !.case = @ + 1, !.step = 1, !.observed = FALSE] \in Workers
    OBVIOUS
  <2>1. again.case + 1 \in Cases /\ 1 \in 1..NumSteps
    BY <1>2, <1>5, AgentAssumption DEF Cases
  <2>2. \A n \in Cases : [again EXCEPT !.case = n, !.step = 1, !.observed = FALSE] \in Workers
    BY <1>4, <2>1, NextCaseType
  <2> QED
    BY <2>1, <2>2
<1> QED
  BY <1>4, <1>6 DEF CaseDone, told, again

LEMMA StepDoneType ==
  ASSUME NEW w \in Workers, NEW passes \in BOOLEAN
  PROVE  StepDone(w, passes) \in Workers
<1>1. CASE w.step < NumSteps
  <2> DEFINE again == At(w, "check")
  <2>1. "check" \in WorkerPlaces
    BY DEF WorkerPlaces
  <2>2. again \in Workers
    BY <2>1, AtType
  <2>3. again.step = w.step /\ w.step \in 1..NumSteps /\ NumSteps \in Nat
    BY AgentAssumption DEF At, Workers
  <2> HIDE DEF again
  <2>4. again.step + 1 \in 1..NumSteps
    BY <1>1, <2>3
  <2>5. \A n \in 1..NumSteps : [again EXCEPT !.step = n] \in Workers
    BY <2>2 DEF Workers
  <2>6. [again EXCEPT !.step = @ + 1] \in Workers
    BY <2>4, <2>5
  <2> QED
    BY <1>1, <2>6 DEF StepDone, again
<1>2. CASE ~(w.step < NumSteps)
  BY <1>2, CaseDoneType DEF StepDone, Outcomes
<1> QED
  BY <1>1, <1>2

LEMMA CountedTypes ==
  ASSUME NEW w \in Workers
  PROVE  /\ [w EXCEPT !.seq = @ + 1] \in Workers /\ [w EXCEPT !.denies = @ + 1] \in Workers
         /\ [At(w, "beat") EXCEPT !.denies = 0, !.observed = TRUE, !.acted = TRUE] \in Workers
         /\ [At(w, "final") EXCEPT !.end = "limit"] \in Workers
<1>1. "beat" \in WorkerPlaces /\ "final" \in WorkerPlaces
  BY DEF WorkerPlaces
<1>2. At(w, "beat") \in Workers /\ At(w, "final") \in Workers
  BY <1>1, AtType
<1>3. w.seq + 1 \in Nat /\ w.denies + 1 \in Nat
  BY DEF Workers
<1>4. \A n \in Nat : [w EXCEPT !.seq = n] \in Workers /\ [w EXCEPT !.denies = n] \in Workers
  BY DEF Workers
<1>5. \A x \in Workers : /\ [x EXCEPT !.denies = 0, !.observed = TRUE, !.acted = TRUE] \in Workers
                         /\ [x EXCEPT !.end = "limit"] \in Workers
  BY DEF Workers
<1> QED
  BY <1>2, <1>3, <1>4, <1>5

LEMMA WorksType ==
  ASSUME TypeOK, NEW r \in Runs, NEW from, NEW new \in Workers, Works(r, from, new)
  PROVE  /\ worker' \in [Runs -> Workers] /\ worker'[r] = new
         /\ \A q \in Runs : q # r => worker'[q] = worker[q]
  BY DEF TypeOK, Works

Rest == <<result, trajectory, draft, view, receipt, task>>

LEMMA TypeStep ==
  ASSUME TypeOK, [Next]_vars PROVE TypeOK'
<1>1. ASSUME NEW r \in Runs, NEW from, NEW new \in Workers, Works(r, from, new),
             row' \in [Runs -> Rows]
      PROVE  TypeOK'
  BY <1>1, WorksType DEF Works, TypeOK
<1>2. \A r \in Runs : row[r] \in Rows /\ worker[r] \in Workers
  BY DEF TypeOK
<1>3. {"VALIDATING", "FAILED", "RUNNING", "SUCCEEDED", "STOPPING", "CANCELLED", "PENDING"} \subseteq Statuses
  BY DEF Statuses, Active, Terminal
<1>4. ASSUME NEW r \in Runs, Start(r) PROVE TypeOK'
  <2>1. Written(NoRow, "PENDING", FALSE, FALSE) \in Rows
    BY <1>3, NoRowType, WrittenType
  <2> QED
    BY <1>4, <2>1 DEF Start, TypeOK, Places
<1>5. ASSUME NEW c \in Cancellers, NEW r \in Runs, Look(c, r) PROVE TypeOK'
  BY <1>2, <1>5 DEF Look, TypeOK, Rows
<1>6. ASSUME NEW c \in Cancellers, NEW r \in Runs, Cancel(c, r) PROVE TypeOK'
  <2>1. \A t \in {"STOPPING", "CANCELLED"} : Written(row[r], t, TRUE, row[r].fresh) \in Rows
    <3>1. row[r] \in Rows /\ row[r].fresh \in BOOLEAN
      BY <1>2 DEF Rows
    <3>2. \A t \in Statuses : Written(row[r], t, TRUE, row[r].fresh) \in Rows
      BY <3>1 DEF Rows, Written
    <3> QED
      BY <1>3, <3>2
  <2>2. row' \in [Runs -> Rows]
    BY <1>6, <2>1 DEF Cancel, TypeOK
  <2> QED
    BY <1>6, <2>2 DEF Cancel, TypeOK
<1>7. ASSUME NEW r \in Runs, Age(r) PROVE TypeOK'
  <2>1. [row[r] EXCEPT !.fresh = FALSE] \in Rows
    BY <1>2 DEF Rows
  <2> QED
    BY <1>7, <2>1 DEF Age, TypeOK
<1>8. CASE Sweep
  <2>1. \A r \in Runs : Swept(row[r]) \in Statuses
    BY <1>2 DEF Swept, Statuses, Active, Terminal, Rows
  <2>2. \A r \in Runs : Written(row[r], Swept(row[r]), row[r].stop, row[r].fresh) \in Rows
    BY <1>2, <2>1, WrittenType DEF Rows
  <2> QED
    BY <1>2, <1>8, <2>2 DEF Sweep, TypeOK
<1>9. ASSUME NEW r \in Runs, ScriptDraft(r) PROVE TypeOK'
  BY <1>9 DEF ScriptDraft, TypeOK
<1>10. ASSUME NEW r \in Runs, Dispatch(r) PROVE TypeOK'
  BY <1>3, <1>10, SetStatusType DEF Dispatch, TypeOK, Places
<1>11. ASSUME NEW r \in Runs, Validate(r) PROVE TypeOK'
  BY <1>3, <1>11, SetStatusType DEF Validate, TypeOK, Places
<1>12. ASSUME NEW r \in Runs, Spawn(r) PROVE TypeOK'
  <2>1. [worker[r] EXCEPT !.pc = "begin"] \in Workers
    BY <1>2, AtType DEF WorkerPlaces, At
  <2> QED
    BY <1>12, <2>1 DEF Spawn, TypeOK, Places
<1>13. ASSUME NEW r \in Runs, AwaitWorker(r) PROVE TypeOK'
  BY <1>13 DEF AwaitWorker, TypeOK, Places
<1>14. ASSUME NEW r \in Runs, WorkerBegin(r) PROVE TypeOK'
  <2>1. At(worker[r], "check") \in Workers /\ [At(worker[r], "final") EXCEPT !.end = "limit"] \in Workers
    BY <1>2, AtType, CountedTypes DEF WorkerPlaces
  <2> QED
    BY <1>1, <1>14, <2>1 DEF WorkerBegin, TypeOK
<1>15. ASSUME NEW r \in Runs, WorkerCheck(r) PROVE TypeOK'
  <2> DEFINE w == [worker[r] EXCEPT !.seq = @ + 1]
  <2>1. w \in Workers
    BY <1>2, CountedTypes
  <2>2. Breaks(w, "stopped") \in Workers /\ At(w, "act") \in Workers
    BY <2>1, BreaksType, AtType DEF WorkerPlaces
  <2> QED
    BY <1>1, <1>15, <2>2 DEF WorkerCheck, TypeOK
<1>16. ASSUME NEW r \in Runs, LimitReached(r) PROVE TypeOK'
  BY <1>1, <1>2, <1>16, BreaksType DEF LimitReached, TypeOK
<1>17. ASSUME NEW r \in Runs, Deny(r) PROVE TypeOK'
  <2> DEFINE w == [worker[r] EXCEPT !.denies = @ + 1]
  <2>1. w \in Workers
    BY <1>2, CountedTypes
  <2>2. Breaks(w, "limit") \in Workers /\ \A passes \in BOOLEAN : StepDone(w, passes) \in Workers
    BY <2>1, BreaksType, StepDoneType
  <2> QED
    BY <1>1, <1>17, <2>2 DEF Deny, TypeOK
<1>18. ASSUME NEW r \in Runs, Act(r) PROVE TypeOK'
  BY <1>1, <1>2, <1>18, CountedTypes DEF Act, TypeOK
<1>19. ASSUME NEW r \in Runs, Beat(r) PROVE TypeOK'
  <2>1. row' \in [Runs -> Rows]
    BY <1>3, <1>19, SetStatusType DEF Beat, TypeOK
  <2>2. \A passes \in BOOLEAN : StepDone(worker[r], passes) \in Workers
    BY <1>2, StepDoneType
  <2> QED
    BY <1>1, <1>19, <2>1, <2>2 DEF Beat
<1>20. ASSUME NEW r \in Runs, NEW place \in WorkerPlaces,
              worker' = [worker EXCEPT ![r].pc = place], row' \in [Runs -> Rows],
              UNCHANGED Rest
       PROVE  TypeOK'
  <2>1. [worker[r] EXCEPT !.pc = place] \in Workers
    BY <1>2, AtType DEF At
  <2> QED
    BY <1>20, <2>1 DEF TypeOK, Rest
<1>21. ASSUME NEW r \in Runs, Final(r) PROVE TypeOK'
  <2>1. row' \in [Runs -> Rows]
    BY <1>3, <1>21, SetStatusType DEF Final, Verdict, TypeOK
  <2>2. result' \in [Runs -> [Cases -> Outcomes \cup {"none"}]]
    BY <1>2, <1>21 DEF Final, Store, TypeOK, Workers
  <2>3. trajectory' \in [Runs -> {"none", "completed", "incomplete", "terminated"}]
    BY <1>21 DEF Final, Store, TypeOK
  <2>4. [worker[r] EXCEPT !.pc = "confirm"] \in Workers /\ [worker[r] EXCEPT !.pc = "done"] \in Workers
    BY <1>2, AtType DEF At, WorkerPlaces
  <2>5. worker' \in [Runs -> Workers]
    BY <1>21, <2>4 DEF Final, TypeOK
  <2> QED
    BY <1>21, <2>1, <2>2, <2>3, <2>5 DEF Final, Store, TypeOK
<1>22. ASSUME NEW r \in Runs, Confirm(r) PROVE TypeOK'
  <2>1. [row[r] EXCEPT !.status = "CANCELLED"] \in Rows
    BY <1>2, <1>3 DEF Rows
  <2>2. row' \in [Runs -> Rows]
    BY <1>3, <1>22, <2>1, SetStatusType DEF Confirm, TypeOK
  <2> QED
    BY <1>20, <1>22, <2>2 DEF Confirm, Rest, WorkerPlaces
<1>23. ASSUME NEW r \in Runs, WorkerDies(r) PROVE TypeOK'
  BY <1>20, <1>23 DEF WorkerDies, Rest, WorkerPlaces, TypeOK
<1>24. CASE Crash
  BY <1>24 DEF Crash, TypeOK, Places
<1>25. CASE UNCHANGED vars
  BY <1>25 DEF vars, TypeOK
<1> QED
  BY <1>4, <1>5, <1>6, <1>7, <1>8, <1>9, <1>10, <1>11, <1>12, <1>13, <1>14, <1>15, <1>16, <1>17,
     <1>18, <1>19, <1>21, <1>22, <1>23, <1>24, <1>25
     DEF Next, Executing, Working

(* Every column and every process variable stays in its range.             *)
THEOREM TypeCorrect == Spec => []TypeOK
<1>1. Init => TypeOK
  <2>1. NoRow \in Rows
    BY NoRowType
  <2>2. NewWorker \in Workers
    BY AgentAssumption DEF NewWorker, Workers, WorkerPlaces, Cases
  <2> QED
    BY <2>1, <2>2 DEF Init, TypeOK, Places
<1> QED
  BY <1>1, TypeStep, PTL DEF Spec

-----------------------------------------------------------------------------
(* What a worker knows *)

Begun == {"begin", "check", "act", "beat"}

(* A worker in the middle has an outcome for every case before the one in  *)
(* hand; one that is through and tells nothing but "passed" tells it of    *)
(* every case.                                                             *)
Midway(w) ==
  /\ w.end = "none"
  /\ \A c \in Cases : /\ c < w.case => w.told[c] \in {"passed", "failed"}
                      /\ c >= w.case => w.told[c] = "none"
Through(w) ==
  w.end = "none" /\ (\A c \in Told(w) : w.told[c] = "passed") =>
    \A c \in Cases : w.told[c] = "passed"
Knows(w) ==
  /\ w.pc \in Begun \cup {"none"} => Midway(w)
  /\ w.pc = "final" => Through(w)

LEMMA AtKnows ==
  ASSUME NEW w \in Workers, Midway(w), NEW place \in Begun
  PROVE  Midway(At(w, place)) /\ At(w, place).pc = place /\ Knows(At(w, place))
  BY DEF At, Midway, Knows, Workers, Begun

LEMMA BreaksKnows ==
  ASSUME NEW w \in Workers, NEW why \in {"limit", "stopped"}
  PROVE  /\ Breaks(w, why).pc = "final" /\ Breaks(w, why).end = why
         /\ Knows(Breaks(w, why))
<1> DEFINE at == At(w, "final")
<1>1. at \in Workers /\ at.pc = "final"
  <2>1. at \in Workers
    BY AtType DEF WorkerPlaces
  <2> QED
    BY <2>1 DEF At, Workers
<1> HIDE DEF at
<1>2. Breaks(w, why).pc = "final" /\ Breaks(w, why).end = why
  <2>1. Breaks(w, why) = [at EXCEPT !.told[w.case] = "incomplete", !.end = why]
    BY DEF Breaks, at
  <2> QED
    BY <1>1, <2>1 DEF Workers
<1> QED
  BY <1>2 DEF Knows, Through, Begun

LEMMA CaseDoneKnows ==
  ASSUME NEW w \in Workers, Midway(w), NEW outcome \in Outcomes
  PROVE  CaseDone(w, outcome).pc \in {"check", "final"} /\ Knows(CaseDone(w, outcome))
<1> DEFINE told == [w EXCEPT !.told[w.case] = outcome]
           again == At(told, "check")
           over == At(told, "final")
           next == [again EXCEPT !.case = @ + 1, !.step = 1, !.observed = FALSE]
<1>1. /\ told \in Workers /\ told.case = w.case /\ told.end = "none"
      /\ told.told[w.case] = outcome
      /\ \A c \in Cases : c # w.case => told.told[c] = w.told[c]
  BY DEF Workers, Outcomes, Midway
<1>2. w.case \in Cases /\ w.case \in Nat /\ (\A c \in Cases : c \in Nat /\ c <= NumCases)
  BY AgentAssumption DEF Workers, Cases
<1> HIDE DEF told
<1>3. /\ again \in Workers /\ again.pc = "check" /\ again.case = w.case /\ again.end = "none"
      /\ again.told = told.told
  <2>1. again \in Workers
    BY <1>1, AtType DEF WorkerPlaces
  <2> QED
    BY <1>1, <2>1 DEF At, Workers
<1>4. over.pc = "final" /\ over.told = told.told /\ over.end = "none"
  BY <1>1 DEF At, Workers
<1> HIDE DEF again, over
<1>5. CASE outcome = "incomplete" \/ w.case = NumCases
  <2>1. CaseDone(w, outcome) = over
    BY <1>5 DEF CaseDone, told, over
  <2>2. Through(over)
    <3> SUFFICES ASSUME \A c \in Told(over) : over.told[c] = "passed", NEW c \in Cases
                 PROVE  over.told[c] = "passed"
      BY DEF Through
    <3>1. over.told[w.case] = outcome /\ w.case \in Told(over)
      BY <1>1, <1>2, <1>4 DEF Told, Outcomes
    <3>2. outcome = "passed" /\ w.case = NumCases
      BY <1>5, <3>1
    <3>3. CASE c = w.case
      BY <3>1, <3>2, <3>3
    <3>4. CASE c # w.case
      <4>1. c < w.case /\ over.told[c] = w.told[c]
        BY <1>1, <1>2, <1>4, <3>2, <3>4
      <4>2. c \in Told(over)
        BY <4>1 DEF Midway, Told
      <4> QED
        BY <4>2
    <3> QED
      BY <3>3, <3>4
  <2> QED
    BY <1>4, <2>1, <2>2 DEF Knows, Begun
<1>6. CASE outcome # "incomplete" /\ w.case # NumCases
  <2>1. CaseDone(w, outcome) = next
    BY <1>6 DEF CaseDone, told, again
  <2>2. /\ next.pc = "check" /\ next.case = w.case + 1 /\ next.end = "none"
        /\ next.told = told.told
    BY <1>3 DEF Workers
  <2> HIDE DEF next
  <2>3. Midway(next)
    BY <1>1, <1>2, <1>6, <2>2 DEF Midway, Outcomes
  <2> QED
    BY <2>1, <2>2, <2>3 DEF Knows
<1> QED
  BY <1>5, <1>6

LEMMA StepDoneKnows ==
  ASSUME NEW w \in Workers, Midway(w), NEW passes \in BOOLEAN
  PROVE  StepDone(w, passes).pc \in {"check", "final"} /\ Knows(StepDone(w, passes))
<1>1. CASE w.step < NumSteps
  <2> DEFINE again == At(w, "check")
             next == [again EXCEPT !.step = @ + 1]
  <2>1. again \in Workers /\ again.pc = "check" /\ Midway(again)
    BY AtType, AtKnows DEF WorkerPlaces, Begun
  <2>2. StepDone(w, passes) = next
    BY <1>1 DEF StepDone
  <2> HIDE DEF again
  <2>3. next.pc = "check" /\ next.case = again.case /\ next.end = again.end /\ next.told = again.told
    BY <2>1 DEF Workers
  <2> QED
    BY <2>1, <2>2, <2>3 DEF Knows, Midway, Begun
<1>2. CASE ~(w.step < NumSteps)
  BY <1>2, CaseDoneKnows DEF StepDone, Outcomes
<1> QED
  BY <1>1, <1>2

-----------------------------------------------------------------------------
(* How run, task, worker and trajectory go together *)

Underway == {"RUNNING", "STOPPING", "CANCELLED", "TIMEOUT"}

(* Before the worker stores, its run has at most been stopped or timed out,*)
(* and nothing is stored; a stop signal stays with a run that is stopped.  *)
BeforeStore(r) ==
  /\ worker[r].pc \in Begun \cup {"none", "final"} =>
       trajectory[r] = "none" /\ result[r] = [c \in Cases |-> "none"]
  /\ worker[r].pc \in Begun \cup {"final"} \/ task[r] = "spawn" =>
       /\ row[r].status \in Underway
       /\ row[r].status \in {"STOPPING", "CANCELLED"} => row[r].stop
  /\ row[r].stop => row[r].status \in {"STOPPING", "CANCELLED"}
  /\ worker[r].pc = "confirm" => row[r].status \in {"STOPPING", "CANCELLED"}

TaskPlaced(r) ==
  /\ worker[r].pc # "none" => task[r] \in {"await", "done", "dead"}
  /\ row[r].status = "absent" => task[r] = "none"
  /\ task[r] = "queued" => row[r].status \in {"PENDING", "CANCELLED"}
  /\ task[r] = "validate" => row[r].status = "VALIDATING"

Tells(r) ==
  /\ trajectory[r] = "completed" =>
       /\ worker[r].pc = "done" /\ worker[r].end = "none"
       /\ row[r].status \in {"SUCCEEDED", "FAILED", "TIMEOUT"}
  /\ row[r].status = "SUCCEEDED" => trajectory[r] = "completed"
  /\ row[r].status = "FAILED" => trajectory[r] = "completed" \/ worker[r].pc = "none"
  /\ draft[r] => trajectory[r] = "completed"

Ordered(r) == Knows(worker[r]) /\ BeforeStore(r) /\ TaskPlaced(r) /\ Tells(r)

(* Somebody else's step.                                                   *)
LEMMA Elsewhere ==
  ASSUME NEW q \in Runs, Ordered(q),
         row'[q].status = row[q].status, row'[q].stop = row[q].stop,
         worker'[q] = worker[q], task'[q] = task[q], result'[q] = result[q],
         trajectory'[q] = trajectory[q], draft'[q] = draft[q]
  PROVE  Ordered(q)'
  BY DEF Ordered, BeforeStore, TaskPlaced, Tells, Knows, Midway, Through, Told

(* A caller's cancel, or the sweeper.                                      *)
LEMMA MovedByOthers ==
  ASSUME NEW q \in Runs, Ordered(q),
         worker'[q] = worker[q], task'[q] = task[q], result'[q] = result[q],
         trajectory'[q] = trajectory[q], draft'[q] = draft[q],
         \/ /\ row[q].status = "PENDING" /\ row'[q].status = "CANCELLED" /\ row'[q].stop
         \/ /\ row[q].status = "RUNNING" /\ row'[q].status = "STOPPING" /\ row'[q].stop
         \/ /\ row[q].status = "STOPPING" /\ row'[q].status = "CANCELLED"
            /\ row'[q].stop = row[q].stop
         \/ /\ row[q].status = "RUNNING" /\ row'[q].status = "TIMEOUT"
            /\ row'[q].stop = row[q].stop
  PROVE  Ordered(q)'
<1>1. Knows(worker'[q])
  BY DEF Ordered
<1>2. BeforeStore(q)' /\ TaskPlaced(q)' /\ Tells(q)'
  BY DEF Ordered, BeforeStore, TaskPlaced, Tells, Underway
<1> QED
  BY <1>1, <1>2 DEF Ordered, Knows, Midway, Through, Told

(* A worker that goes on, its run in its place.                            *)
LEMMA WorksOrdered ==
  ASSUME TypeOK, NEW r \in Runs, NEW q \in Runs, NEW from \in Begun, NEW new \in Workers,
         Works(r, from, new), Ordered(q), new.pc \in Begun \cup {"final"}, Knows(new),
         \A p \in Runs : row'[p].status = row[p].status /\ row'[p].stop = row[p].stop
  PROVE  Ordered(q)'
<1>1. worker'[r] = new /\ \A p \in Runs : p # r => worker'[p] = worker[p]
  BY WorksType
<1>2. CASE q # r
  BY <1>1, <1>2, Elsewhere DEF Works
<1>3. CASE q = r
  <2>1. Knows(worker'[q])
    BY <1>1, <1>3
  <2>2. BeforeStore(q)' /\ TaskPlaced(q)' /\ Tells(q)'
    BY <1>1, <1>3 DEF Works, Ordered, BeforeStore, TaskPlaced, Tells, Begun
  <2> QED
    BY <2>1, <2>2 DEF Ordered, Knows, Midway, Through, Told
<1> QED
  BY <1>2, <1>3

(* The worker stores and sets the verdict.                                 *)
LEMMA FinalOrdered ==
  ASSUME TypeOK, \A p \in Runs : Ordered(p), NEW q \in Runs, NEW r \in Runs, Final(r)
  PROVE  Ordered(q)'
<1> DEFINE w == worker[r]
           giveup == row[r].status = "RUNNING" /\ Verdict(w) = "CANCELLED"
           place == IF giveup THEN "confirm" ELSE "done"
           new == [w EXCEPT !.pc = place]
           tells == IF w.end = "stopped" \/ (Stopped(r) /\ ~FALSE) THEN "terminated"
                    ELSE IF w.end = "limit" THEN "incomplete" ELSE "completed"
<1>1. w \in Workers /\ w.pc = "final" /\ row[r] \in Rows
  BY DEF Final, Store, TypeOK
<1>2. new.pc = place /\ new.end = w.end
  BY <1>1 DEF Workers
<1>3. worker' = [worker EXCEPT ![r] = new]
  BY DEF Final
<1> HIDE DEF new
<1>4. /\ result' = [result EXCEPT ![r] = w.told]
      /\ trajectory' = [trajectory EXCEPT ![r] = tells]
      /\ UNCHANGED <<draft, view, receipt, task>>
  BY DEF Final, Store
<1>5. /\ row[r].status \in Underway
      /\ row[r].status \in {"STOPPING", "CANCELLED"} => row[r].stop
      /\ row[r].stop => row[r].status \in {"STOPPING", "CANCELLED"}
  BY <1>1 DEF Ordered, BeforeStore
<1>6. Verdict(w) \in {"SUCCEEDED", "FAILED", "CANCELLED"} /\ (Verdict(w) = "CANCELLED" <=> w.end # "none")
  BY DEF Verdict
<1>7. tells = "completed" <=> w.end = "none" /\ ~Stopped(r)
  BY <1>1 DEF Stopped, Workers
<1> HIDE DEF tells
<1>8. \A s \in {"SUCCEEDED", "FAILED", "CANCELLED", "STOPPING"} : s \in Statuses
  BY DEF Statuses, Active, Terminal
<1>9. /\ \A p \in Runs : p # r => row'[p] = row[p]
      /\ row'[r].stop = row[r].stop
      /\ row[r].status = "RUNNING" /\ ~giveup => row'[r].status = Verdict(w)
      /\ giveup => row'[r].status = "STOPPING"
      /\ row[r].status = "STOPPING" => row'[r].status = "CANCELLED"
      /\ row[r].status \in {"CANCELLED", "TIMEOUT"} => row'[r].status = row[r].status
  <2>1. CASE row[r].status = "RUNNING" /\ ~giveup
    <3>1. SetStatus(r, Verdict(w), FALSE)
      BY <2>1 DEF Final
    <3> HIDE DEF w
    <3> QED
      BY <1>6, <1>8, <2>1, <3>1, SetStatusType
  <2>2. CASE giveup
    <3>1. SetStatus(r, "STOPPING", FALSE)
      BY <2>2 DEF Final
    <3> QED
      BY <1>8, <2>2, <3>1, SetStatusType
  <2>3. CASE row[r].status = "STOPPING"
    <3>1. SetStatus(r, "CANCELLED", FALSE)
      BY <2>3 DEF Final
    <3> QED
      BY <1>8, <2>3, <3>1, SetStatusType
  <2>4. CASE row[r].status \notin {"RUNNING", "STOPPING"}
    BY <2>4 DEF Final
  <2> QED
    BY <2>1, <2>2, <2>3, <2>4
<1>10. CASE q # r
  BY <1>3, <1>4, <1>9, <1>10, Elsewhere DEF TypeOK
<1>11. CASE q = r
  <2>1. worker'[q] = new /\ trajectory'[q] = tells /\ task'[q] = task[q] /\ draft'[q] = draft[q]
    BY <1>3, <1>4, <1>11 DEF TypeOK
  <2>2. Knows(worker'[q]) /\ new.pc \in {"confirm", "done"}
    BY <1>2, <2>1 DEF Knows, Begun
  <2>3. trajectory[q] = "none" /\ ~draft[q]
    BY <1>1, <1>11 DEF Ordered, BeforeStore, Tells
  <2>4. row'[q].status \in {"SUCCEEDED", "FAILED", "STOPPING", "CANCELLED", "TIMEOUT"}
    BY <1>5, <1>6, <1>9, <1>11 DEF Underway
  <2>5. BeforeStore(q)'
    <3>1. row'[q].stop => row'[q].status \in {"STOPPING", "CANCELLED"}
      BY <1>5, <1>9, <1>11
    <3>2. new.pc = "confirm" => row'[q].status = "STOPPING"
      BY <1>2, <1>9, <1>11
    <3>3. task'[q] # "spawn"
      BY <1>1, <1>11, <2>1 DEF Ordered, TaskPlaced
    <3> QED
      BY <2>1, <2>2, <3>1, <3>2, <3>3 DEF BeforeStore, Begun
  <2>6. TaskPlaced(q)'
    BY <1>1, <1>11, <2>1, <2>4 DEF Ordered, TaskPlaced
  <2>7. Tells(q)'
    <3>1. row'[q].status \in {"SUCCEEDED", "FAILED"} => row[r].status = "RUNNING" /\ ~giveup
      BY <1>5, <1>6, <1>9, <1>11 DEF Underway
    <3>2. row'[q].status \in {"SUCCEEDED", "FAILED"} => tells = "completed"
      BY <1>5, <1>6, <1>7, <3>1 DEF Stopped
    <3>3. tells = "completed" => new.pc = "done" /\ new.end = "none" /\ row[r].status \in {"RUNNING", "TIMEOUT"}
      BY <1>2, <1>5, <1>6, <1>7 DEF Stopped, Underway
    <3>4. tells = "completed" => row'[q].status \in {"SUCCEEDED", "FAILED", "TIMEOUT"}
      BY <1>6, <1>7, <1>9, <1>11, <3>3
    <3> QED
      BY <2>1, <2>3, <3>2, <3>3, <3>4 DEF Tells
  <2> QED
    BY <2>2, <2>5, <2>6, <2>7 DEF Ordered, Knows, Midway, Through, Told
<1> QED
  BY <1>10, <1>11

(* The worker that gave up confirms.                                       *)
LEMMA ConfirmOrdered ==
  ASSUME TypeOK, \A p \in Runs : Ordered(p), NEW q \in Runs, NEW r \in Runs, Confirm(r)
  PROVE  Ordered(q)'
<1> DEFINE new == [worker[r] EXCEPT !.pc = "done"]
<1>1. worker[r] \in Workers /\ worker[r].pc = "confirm" /\ row[r] \in Rows
  BY DEF Confirm, TypeOK
<1>2. new.pc = "done" /\ new.end = worker[r].end
  BY <1>1 DEF Workers
<1> HIDE DEF new
<1>3. worker' = [worker EXCEPT ![r] = new]
  BY DEF Confirm, new
<1>4. /\ row'[r].status = "CANCELLED" /\ row'[r].stop = row[r].stop
      /\ \A p \in Runs : p # r => row'[p] = row[p]
  <2>1. CASE row[r].status = "STOPPING"
    <3>1. SetStatus(r, "CANCELLED", FALSE) /\ "CANCELLED" \in Statuses
      BY <2>1 DEF Confirm, Statuses, Terminal
    <3> QED
      BY <3>1, SetStatusType
  <2>2. CASE row[r].status # "STOPPING"
    BY <1>1, <2>2 DEF Confirm, TypeOK, Rows
  <2> QED
    BY <2>1, <2>2
<1>5. CASE q # r
  BY <1>3, <1>4, <1>5, Elsewhere DEF Confirm, TypeOK
<1>6. CASE q = r
  <2>1. worker'[q] = new
    BY <1>3, <1>6 DEF TypeOK
  <2>2. Knows(worker'[q])
    BY <1>2, <2>1 DEF Knows, Begun
  <2>3. BeforeStore(q)' /\ TaskPlaced(q)' /\ Tells(q)'
    BY <1>1, <1>2, <1>4, <1>6, <2>1
       DEF Confirm, Ordered, BeforeStore, TaskPlaced, Tells, Begun
  <2> QED
    BY <2>2, <2>3 DEF Ordered, Knows, Midway, Through, Told
<1> QED
  BY <1>5, <1>6

(* Every step keeps the order.                                             *)
LEMMA OrderedStep ==
  ASSUME TypeOK, \A q \in Runs : Ordered(q), [Next]_vars, NEW q \in Runs
  PROVE  Ordered(q)'
<1>1. \A r \in Runs : row[r] \in Rows /\ worker[r] \in Workers
  BY DEF TypeOK
<1>2. {"VALIDATING", "FAILED", "RUNNING", "SUCCEEDED", "STOPPING", "CANCELLED", "PENDING"} \subseteq Statuses
  BY DEF Statuses, Active, Terminal
<1>3. ASSUME NEW r \in Runs, Start(r) PROVE Ordered(q)'
  <2> DEFINE new == Written(NoRow, "PENDING", FALSE, FALSE)
  <2>1. new.status = "PENDING" /\ new.stop = FALSE
    BY DEF Written
  <2>2. row'[r] = new /\ task'[r] = "queued"
    BY <1>3 DEF Start, TypeOK
  <2> HIDE DEF new
  <2>3. CASE q # r
    BY <1>3, <2>3, Elsewhere DEF Start, TypeOK
  <2>4. CASE q = r
    <3>1. task[q] = "none" /\ worker[q].pc = "none"
      BY <1>3, <2>4 DEF Start, Ordered, TaskPlaced
    <3>2. Knows(worker'[q]) /\ worker' = worker
      BY <1>3 DEF Start, Ordered
    <3>3. BeforeStore(q)' /\ TaskPlaced(q)' /\ Tells(q)'
      BY <1>3, <2>1, <2>2, <2>4, <3>1 DEF Start, Ordered, BeforeStore, TaskPlaced, Tells, Begun
    <3> QED
      BY <3>2, <3>3 DEF Ordered, Knows, Midway, Through, Told
  <2> QED
    BY <2>3, <2>4
<1>4. ASSUME NEW c \in Cancellers, NEW r \in Runs, Look(c, r) PROVE Ordered(q)'
  BY <1>4, Elsewhere DEF Look
<1>5. ASSUME NEW c \in Cancellers, NEW r \in Runs, Cancel(c, r) PROVE Ordered(q)'
  <2> DEFINE s == IF row[r].status = "RUNNING" THEN "STOPPING" ELSE "CANCELLED"
             new == Written(row[r], s, TRUE, row[r].fresh)
  <2>1. new.status = s /\ new.stop
    BY DEF Written
  <2> HIDE DEF new
  <2>2. row' = [row EXCEPT ![r] = new]
    BY <1>5 DEF Cancel, new
  <2>3. CASE q # r
    BY <1>5, <2>2, <2>3, Elsewhere DEF Cancel, TypeOK
  <2>4. CASE q = r
    <3>1. row'[q].status = s /\ row'[q].stop
      BY <2>1, <2>2, <2>4 DEF TypeOK
    <3> QED
      BY <1>5, <2>4, <3>1, MovedByOthers DEF Cancel
  <2> QED
    BY <2>3, <2>4
<1>6. ASSUME NEW r \in Runs, Age(r) PROVE Ordered(q)'
  <2>1. row'[q].status = row[q].status /\ row'[q].stop = row[q].stop
    BY <1>1, <1>6 DEF Age, TypeOK, Rows
  <2> QED
    BY <1>6, <2>1, Elsewhere DEF Age
<1>7. CASE Sweep
  <2> DEFINE s == Swept(row[q])
             new == Written(row[q], s, row[q].stop, row[q].fresh)
  <2>1. new.status = s /\ new.stop = row[q].stop
    BY DEF Written
  <2> HIDE DEF new
  <2>2. row'[q] = IF s = row[q].status THEN row[q] ELSE new
    BY <1>7 DEF Sweep, new
  <2>3. CASE s = row[q].status
    BY <1>7, <2>2, <2>3, Elsewhere DEF Sweep
  <2>4. CASE s # row[q].status
    <3>1. \/ row[q].status = "STOPPING" /\ s = "CANCELLED"
          \/ row[q].status = "RUNNING" /\ s = "TIMEOUT"
      BY <2>4 DEF Swept
    <3>2. row'[q].status = s /\ row'[q].stop = row[q].stop
      BY <2>1, <2>2, <2>4
    <3> HIDE DEF s
    <3> QED
      BY <1>7, <3>1, <3>2, MovedByOthers DEF Sweep
  <2> QED
    BY <2>3, <2>4
<1>8. ASSUME NEW r \in Runs, ScriptDraft(r) PROVE Ordered(q)'
  <2>1. Knows(worker'[q])
    BY <1>8 DEF ScriptDraft, Ordered
  <2>2. BeforeStore(q)' /\ TaskPlaced(q)' /\ Tells(q)'
    BY <1>8 DEF ScriptDraft, TypeOK, Ordered, BeforeStore, TaskPlaced, Tells
  <2> QED
    BY <2>1, <2>2 DEF Ordered, Knows, Midway, Through, Told
<1>9. ASSUME NEW r \in Runs, NEW s \in Statuses, NEW h \in BOOLEAN, SetStatus(r, s, h),
             worker[r].pc = "none", row[r].status \in {"PENDING", "VALIDATING"},
             \/ s = "VALIDATING" /\ task'[r] = "validate"
             \/ s = "FAILED" /\ task'[r] = "done"
             \/ s = "RUNNING" /\ task'[r] = "spawn",
             \A p \in Runs : p # r => task'[p] = task[p],
             UNCHANGED <<result, trajectory, draft, view, receipt, worker>>
      PROVE  Ordered(q)'
  <2>1. row'[r].status = s /\ row'[r].stop = row[r].stop /\ \A p \in Runs : p # r => row'[p] = row[p]
    BY <1>9, SetStatusType
  <2>2. CASE q # r
    BY <1>9, <2>1, <2>2, Elsewhere
  <2>3. CASE q = r
    <3>1. Knows(worker'[q]) /\ worker' = worker
      BY <1>9 DEF Ordered
    <3>2. BeforeStore(q)' /\ TaskPlaced(q)' /\ Tells(q)'
      BY <1>9, <2>1, <2>3 DEF Ordered, BeforeStore, TaskPlaced, Tells, Underway, Begun
    <3> QED
      BY <3>1, <3>2 DEF Ordered, Knows, Midway, Through, Told
  <2> QED
    BY <2>2, <2>3
<1>10. ASSUME NEW r \in Runs, task' = [task EXCEPT ![r] = "done"], task[r] \in {"queued", "validate", "await"},
              UNCHANGED <<row, result, trajectory, draft, view, receipt, worker>>
       PROVE  Ordered(q)'
  <2>1. Knows(worker'[q])
    BY <1>10 DEF Ordered
  <2>2. BeforeStore(q)' /\ TaskPlaced(q)' /\ Tells(q)'
    BY <1>10 DEF TypeOK, Ordered, BeforeStore, TaskPlaced, Tells
  <2> QED
    BY <2>1, <2>2 DEF Ordered, Knows, Midway, Through, Told
<1>11. ASSUME NEW r \in Runs, Dispatch(r) PROVE Ordered(q)'
  <2>1. worker[r].pc = "none"
    BY <1>11 DEF Dispatch, Ordered, TaskPlaced
  <2>2. CASE row[r].status = "PENDING"
    <3>1. task'[r] = "validate" /\ \A p \in Runs : p # r => task'[p] = task[p]
      BY <1>11, <2>2 DEF Dispatch, TypeOK
    <3> QED
      BY <1>2, <1>9, <1>11, <2>1, <2>2, <3>1 DEF Dispatch
  <2>3. CASE row[r].status # "PENDING"
    BY <1>10, <1>11, <2>3 DEF Dispatch
  <2> QED
    BY <2>2, <2>3
<1>12. ASSUME NEW r \in Runs, Validate(r) PROVE Ordered(q)'
  <2>1. worker[r].pc = "none" /\ row[r].status = "VALIDATING"
    BY <1>12 DEF Validate, Ordered, TaskPlaced
  <2>2. CASE SetStatus(r, "FAILED", FALSE) /\ task' = [task EXCEPT ![r] = "done"]
    <3>1. task'[r] = "done" /\ \A p \in Runs : p # r => task'[p] = task[p]
      BY <2>2 DEF TypeOK
    <3> QED
      BY <1>2, <1>9, <1>12, <2>1, <2>2, <3>1 DEF Validate
  <2>3. CASE SetStatus(r, "RUNNING", TRUE) /\ task' = [task EXCEPT ![r] = "spawn"]
    <3>1. task'[r] = "spawn" /\ \A p \in Runs : p # r => task'[p] = task[p]
      BY <2>3 DEF TypeOK
    <3> QED
      BY <1>2, <1>9, <1>12, <2>1, <2>3, <3>1 DEF Validate
  <2> QED
    BY <1>12, <2>1, <2>2, <2>3 DEF Validate
<1>13. ASSUME NEW r \in Runs, Spawn(r) PROVE Ordered(q)'
  <2> DEFINE new == [worker[r] EXCEPT !.pc = "begin"]
  <2>1. worker[r].pc = "none" /\ Midway(worker[r])
    BY <1>13 DEF Spawn, Ordered, TaskPlaced, Knows
  <2>2. new.pc = "begin" /\ Knows(new)
    BY <1>1, <2>1, AtKnows DEF At, Begun
  <2> HIDE DEF new
  <2>3. worker' = [worker EXCEPT ![r] = new]
    BY <1>13 DEF Spawn, new
  <2>4. CASE q # r
    BY <1>13, <2>3, <2>4, Elsewhere DEF Spawn, TypeOK
  <2>5. CASE q = r
    <3>1. worker'[q] = new /\ task'[q] = "await"
      BY <1>13, <2>3, <2>5 DEF Spawn, TypeOK
    <3>2. BeforeStore(q)' /\ TaskPlaced(q)' /\ Tells(q)'
      BY <1>13, <2>1, <2>2, <2>5, <3>1
         DEF Spawn, Ordered, BeforeStore, TaskPlaced, Tells, Underway, Begun
    <3>3. Knows(worker'[q])
      BY <2>2, <3>1
    <3> QED
      BY <3>2, <3>3 DEF Ordered, Knows, Midway, Through, Told
  <2> QED
    BY <2>4, <2>5
<1>14. ASSUME NEW r \in Runs, AwaitWorker(r) PROVE Ordered(q)'
  BY <1>10, <1>14 DEF AwaitWorker
<1>15. \A r \in Runs : worker[r].pc \in Begun => Midway(worker[r])
  BY DEF Ordered, Knows
<1>16. ASSUME NEW r \in Runs, NEW from \in Begun, NEW new \in Workers, Works(r, from, new),
              new.pc \in Begun \cup {"final"}, Knows(new), UNCHANGED row
       PROVE  Ordered(q)'
  BY <1>16, WorksOrdered
<1>17. "begin" \in Begun /\ "check" \in Begun /\ "act" \in Begun /\ "beat" \in Begun
  BY DEF Begun
<1>18. ASSUME NEW r \in Runs, WorkerBegin(r) PROVE Ordered(q)'
  <2> DEFINE one == At(worker[r], "check")
             two == [At(worker[r], "final") EXCEPT !.end = "limit"]
  <2>1. worker[r].pc = "begin" /\ Midway(worker[r])
    BY <1>15, <1>17, <1>18 DEF WorkerBegin, Works
  <2>2. one \in Workers /\ one.pc = "check" /\ Knows(one)
    BY <1>1, <1>17, <2>1, AtKnows, AtType DEF WorkerPlaces
  <2>3. two \in Workers
    BY <1>1, CountedTypes
  <2>4. two.pc = "final" /\ two.end = "limit"
    BY <1>1 DEF At, Workers
  <2>5. Knows(two)
    BY <2>4 DEF Knows, Begun, Through
  <2>6. UNCHANGED row /\ (Works(r, "begin", one) \/ Works(r, "begin", two))
    BY <1>18 DEF WorkerBegin
  <2> HIDE DEF one, two
  <2> QED
    BY <1>16, <1>17, <2>2, <2>3, <2>4, <2>5, <2>6
<1>19. ASSUME NEW r \in Runs, WorkerCheck(r) PROVE Ordered(q)'
  <2> DEFINE w == [worker[r] EXCEPT !.seq = @ + 1]
  <2>1. worker[r].pc = "check" /\ Midway(worker[r])
    BY <1>15, <1>17, <1>19 DEF WorkerCheck, Works
  <2>2. w \in Workers
    BY <1>1, CountedTypes
  <2>3. Midway(w)
    BY <1>1, <2>1 DEF Workers, Midway
  <2>4. UNCHANGED row /\ Works(r, "check", IF Stopped(r) THEN Breaks(w, "stopped") ELSE At(w, "act"))
    BY <1>19 DEF WorkerCheck
  <2> HIDE DEF w
  <2>5. Breaks(w, "stopped") \in Workers /\ At(w, "act") \in Workers
    BY <2>2, BreaksType, AtType DEF WorkerPlaces
  <2>6. /\ Breaks(w, "stopped").pc = "final" /\ Knows(Breaks(w, "stopped"))
        /\ At(w, "act").pc = "act" /\ Knows(At(w, "act"))
    BY <1>17, <2>2, <2>3, BreaksKnows, AtKnows
  <2> QED
    BY <1>16, <1>17, <2>4, <2>5, <2>6
<1>20. ASSUME NEW r \in Runs, LimitReached(r) PROVE Ordered(q)'
  <2>1. Breaks(worker[r], "limit") \in Workers
    BY <1>1, BreaksType
  <2>2. Breaks(worker[r], "limit").pc = "final" /\ Knows(Breaks(worker[r], "limit"))
    BY <1>1, BreaksKnows
  <2> QED
    BY <1>16, <1>17, <1>20, <2>1, <2>2 DEF LimitReached
<1>21. ASSUME NEW r \in Runs, Deny(r) PROVE Ordered(q)'
  <2> DEFINE w == [worker[r] EXCEPT !.denies = @ + 1]
  <2>1. worker[r].pc = "act" /\ Midway(worker[r])
    BY <1>15, <1>17, <1>21 DEF Deny, Works
  <2>2. w \in Workers
    BY <1>1, CountedTypes
  <2>3. Midway(w)
    BY <1>1, <2>1 DEF Workers, Midway
  <2>4. PICK passes \in BOOLEAN :
          /\ UNCHANGED row
          /\ Works(r, "act", IF w.denies >= MaxDenies THEN Breaks(w, "limit") ELSE StepDone(w, passes))
    BY <1>21 DEF Deny
  <2> HIDE DEF w
  <2>5. Breaks(w, "limit") \in Workers /\ StepDone(w, passes) \in Workers
    BY <2>2, BreaksType, StepDoneType
  <2>6. /\ Breaks(w, "limit").pc = "final" /\ Knows(Breaks(w, "limit"))
        /\ StepDone(w, passes).pc \in {"check", "final"} /\ Knows(StepDone(w, passes))
    BY <2>2, <2>3, BreaksKnows, StepDoneKnows
  <2> QED
    BY <1>16, <1>17, <2>4, <2>5, <2>6
<1>22. ASSUME NEW r \in Runs, Act(r) PROVE Ordered(q)'
  <2> DEFINE at == At(worker[r], "beat")
             new == [at EXCEPT !.denies = 0, !.observed = TRUE, !.acted = TRUE]
  <2>1. worker[r].pc = "act" /\ Midway(worker[r])
    BY <1>15, <1>17, <1>22 DEF Act, Works
  <2>2. new \in Workers
    BY <1>1, CountedTypes
  <2>3. at.pc = "beat" /\ Midway(at) /\ at \in Workers
    BY <1>1, <1>17, <2>1, AtKnows, AtType DEF WorkerPlaces
  <2>4. UNCHANGED row /\ Works(r, "act", new)
    BY <1>22 DEF Act
  <2> HIDE DEF at
  <2>5. new.pc = "beat" /\ new.case = at.case /\ new.told = at.told /\ new.end = at.end
    BY <2>3 DEF Workers
  <2> HIDE DEF new
  <2>6. Knows(new)
    BY <2>3, <2>5 DEF Knows, Midway
  <2> QED
    BY <1>16, <1>17, <2>2, <2>4, <2>5, <2>6
<1>23. ASSUME NEW r \in Runs, Beat(r) PROVE Ordered(q)'
  <2>1. worker[r].pc = "beat" /\ Midway(worker[r])
    BY <1>15, <1>17, <1>23 DEF Beat, Works
  <2>2. PICK passes \in BOOLEAN : Works(r, "beat", StepDone(worker[r], passes))
    BY <1>23 DEF Beat
  <2>3. StepDone(worker[r], passes) \in Workers
    BY <1>1, StepDoneType
  <2>4. /\ StepDone(worker[r], passes).pc \in {"check", "final"}
        /\ Knows(StepDone(worker[r], passes))
    BY <1>1, <2>1, StepDoneKnows
  <2>5. \A p \in Runs : row'[p].status = row[p].status /\ row'[p].stop = row[p].stop
    BY <1>2, <1>23, SetStatusType DEF Beat
  <2>6. StepDone(worker[r], passes).pc \in Begun \cup {"final"}
    BY <1>17, <2>4
  <2> QED
    BY <1>17, <2>2, <2>3, <2>4, <2>5, <2>6, WorksOrdered
<1>24. ASSUME NEW r \in Runs, Final(r) PROVE Ordered(q)'
  BY <1>24, FinalOrdered
<1>25. ASSUME NEW r \in Runs, Confirm(r) PROVE Ordered(q)'
  BY <1>25, ConfirmOrdered
<1>26. ASSUME NEW r \in Runs, WorkerDies(r) PROVE Ordered(q)'
  <2> DEFINE new == [worker[r] EXCEPT !.pc = "dead"]
  <2>1. new.pc = "dead" /\ new.end = worker[r].end
    BY <1>1 DEF Workers
  <2> HIDE DEF new
  <2>2. worker' = [worker EXCEPT ![r] = new]
    BY <1>26 DEF WorkerDies, new
  <2>3. CASE q # r
    BY <1>26, <2>2, <2>3, Elsewhere DEF WorkerDies, TypeOK
  <2>4. CASE q = r
    <3>1. worker'[q] = new /\ worker[q].pc \in WorkerAlive
      BY <1>26, <2>2, <2>4 DEF WorkerDies, TypeOK
    <3>2. BeforeStore(q)' /\ TaskPlaced(q)' /\ Tells(q)'
      BY <1>26, <2>1, <2>4, <3>1 DEF WorkerDies, WorkerAlive, WorkerPlaces, Ordered, BeforeStore,
         TaskPlaced, Tells, Underway, Begun
    <3>3. Knows(worker'[q])
      BY <2>1, <3>1 DEF Knows, Begun
    <3> QED
      BY <3>2, <3>3 DEF Ordered, Knows, Midway, Through, Told
  <2> QED
    BY <2>3, <2>4
<1>27. CASE Crash
  <2>1. Knows(worker'[q])
    BY <1>27 DEF Crash, Ordered
  <2>2. BeforeStore(q)' /\ TaskPlaced(q)' /\ Tells(q)'
    BY <1>27 DEF Crash, TypeOK, Ordered, BeforeStore, TaskPlaced, Tells
  <2> QED
    BY <2>1, <2>2 DEF Ordered, Knows, Midway, Through, Told
<1>28. CASE UNCHANGED vars
  BY <1>28, Elsewhere DEF vars
<1> QED
  BY <1>3, <1>4, <1>5, <1>6, <1>7, <1>8, <1>11, <1>12, <1>13, <1>14, <1>18, <1>19, <1>20, <1>21,
     <1>22, <1>23, <1>24, <1>25, <1>26, <1>27, <1>28
     DEF Next, Executing, Working

LEMMA OrderedHolds == Spec => []((\A r \in Runs : Ordered(r)) /\ TypeOK)
<1>1. Init => \A r \in Runs : Ordered(r)
  <2> SUFFICES ASSUME Init, NEW r \in Runs PROVE Ordered(r)
    OBVIOUS
  <2>1. worker[r].pc = "none" /\ Midway(worker[r])
    BY AgentAssumption DEF Init, NewWorker, Midway, Cases
  <2> QED
    BY <2>1 DEF Init, NoRow, Ordered, Knows, BeforeStore, TaskPlaced, Tells, Begun
<1>2. TypeOK /\ (\A r \in Runs : Ordered(r)) /\ [Next]_vars => (\A r \in Runs : Ordered(r))'
  BY OrderedStep
<1> QED
  BY <1>1, <1>2, TypeCorrect, PTL DEF Spec

(* The trajectory that is stored agrees with the end of the run, although  *)
(* the worker that stores it looked at the run before.                     *)
THEOREM TrajectoryTellsHolds == Spec => []TrajectoryTells
<1>1. (\A r \in Runs : Ordered(r)) /\ TypeOK => TrajectoryTells
  BY DEF Ordered, Tells, TrajectoryTells
<1> QED
  BY <1>1, OrderedHolds, PTL

-----------------------------------------------------------------------------
(* The refinement *)

Shown == [r \in Runs |-> ContractState(r)]

(* A step on one run that hides none of its results.                       *)
OneRun(r) ==
  /\ \A q \in Runs : q # r => row'[q].status = row[q].status /\ result'[q] = result[q]
  /\ \A c \in Cases : result[r][c] # "none" => result'[r][c] = result[r][c]

LEMMA OneRunShown ==
  ASSUME TypeOK, NEW r \in Runs, OneRun(r)
  PROVE  /\ Contract!Adds(r)
         /\ \A to : ContractState(r)' = to => Shown' = [Shown EXCEPT ![r] = to]
         /\ Shown[r] = ContractState(r)
<1>1. Contract!Adds(r)
  BY DEF OneRun, Contract!Adds
<1>2. \A q \in Runs : q # r => ContractState(q)' = ContractState(q)
  BY DEF OneRun, ContractState
<1>3. Shown' = [q \in Runs |-> ContractState(q)']
  BY DEF Shown
<1> QED
  BY <1>1, <1>2, <1>3 DEF Shown

LEMMA Stutters ==
  ASSUME TypeOK, NEW r \in Runs, OneRun(r), ContractState(r)' = ContractState(r), UNCHANGED result
  PROVE  UNCHANGED Contract!vars
<1>1. Shown' = [Shown EXCEPT ![r] = Shown[r]]
  BY OneRunShown
<1>2. Shown' = Shown
  BY <1>1 DEF Shown
<1> QED
  BY <1>2 DEF Contract!vars, Shown

LEMMA StatusKept ==
  ASSUME TypeOK, UNCHANGED result, \A r \in Runs : row'[r].status = row[r].status
  PROVE  UNCHANGED Contract!vars
<1>1. \A r \in Runs : ContractState(r)' = ContractState(r)
  BY DEF ContractState
<1>2. Shown' = Shown
  BY <1>1 DEF Shown
<1> QED
  BY <1>2 DEF Contract!vars, Shown

(* A run that is open stays so.                                            *)
LEMMA OpenShown ==
  ASSUME TypeOK, NEW r \in Runs, NEW s \in {"VALIDATING", "RUNNING"}, NEW h \in BOOLEAN,
         SetStatus(r, s, h), row[r].status \in {"PENDING", "VALIDATING", "RUNNING"}, UNCHANGED result
  PROVE  UNCHANGED Contract!vars
<1>1. s \in Statuses
  BY DEF Statuses, Active
<1>2. row'[r].status = s /\ \A q \in Runs : q # r => row'[q] = row[q]
  BY <1>1, SetStatusType
<1>3. ContractState(r)' = ContractState(r)
  BY <1>2 DEF ContractState
<1> QED
  BY <1>2, <1>3, Stutters DEF OneRun

LEMMA FailureShown ==
  ASSUME TypeOK, NEW r \in Runs, SetStatus(r, "FAILED", FALSE), row[r].status = "VALIDATING",
         UNCHANGED result
  PROVE  Contract!Next
<1>1. row'[r].status = "FAILED" /\ \A q \in Runs : q # r => row'[q] = row[q]
  BY SetStatusType DEF Statuses, Terminal
<1>2. OneRun(r) /\ ContractState(r) = "open" /\ ContractState(r)' = "failed"
  BY <1>1 DEF OneRun, ContractState
<1>3. Contract!Fail(r)
  BY <1>2, OneRunShown DEF Contract!Fail, Contract!Move, Shown
<1> QED
  BY <1>3 DEF Contract!Next

LEMMA StartShown ==
  ASSUME TypeOK, NEW r \in Runs, Start(r) PROVE Contract!Next
<1> DEFINE new == Written(NoRow, "PENDING", FALSE, FALSE)
<1>1. new.status = "PENDING"
  BY DEF Written
<1> HIDE DEF new
<1>2. row' = [row EXCEPT ![r] = new] /\ UNCHANGED result /\ row[r].status = "absent"
  BY DEF Start, new
<1>3. row'[r].status = "PENDING" /\ OneRun(r)
  BY <1>1, <1>2 DEF TypeOK, OneRun
<1>4. ContractState(r) = "absent" /\ ContractState(r)' = "open"
  BY <1>2, <1>3 DEF ContractState
<1>5. Contract!Accept(r)
  BY <1>2, <1>3, <1>4, OneRunShown DEF Contract!Accept, Contract!Move, Shown
<1> QED
  BY <1>5 DEF Contract!Next

LEMMA CancelShown ==
  ASSUME TypeOK, NEW c \in Cancellers, NEW r \in Runs, Cancel(c, r) PROVE Contract!Next
<1> DEFINE s == IF row[r].status = "RUNNING" THEN "STOPPING" ELSE "CANCELLED"
           new == Written(row[r], s, TRUE, row[r].fresh)
<1>1. new.status = s
  BY DEF Written
<1> HIDE DEF new
<1>2. row' = [row EXCEPT ![r] = new] /\ UNCHANGED result /\ row[r].status \in {"PENDING", "RUNNING"}
  BY DEF Cancel, new
<1>3. row'[r].status = s /\ OneRun(r)
  BY <1>1, <1>2 DEF TypeOK, OneRun
<1>4. ContractState(r) = "open" /\ ContractState(r)' \in {"cancelled", "stopping"}
  BY <1>2, <1>3 DEF ContractState
<1>5. Contract!AcceptCancel(r)
  BY <1>2, <1>3, <1>4, OneRunShown DEF Contract!AcceptCancel, Contract!Move, Shown
<1> QED
  BY <1>5 DEF Contract!Next

LEMMA SweepShown ==
  ASSUME TypeOK, Sweep PROVE Contract!Next
<1>1. \A r \in Runs : \/ row'[r].status = row[r].status
                      \/ row[r].status = "STOPPING" /\ row'[r].status = "CANCELLED"
                      \/ row[r].status = "RUNNING" /\ row'[r].status = "TIMEOUT"
  <2> TAKE r \in Runs
  <2>1. row'[r] = IF Swept(row[r]) = row[r].status THEN row[r]
                  ELSE Written(row[r], Swept(row[r]), row[r].stop, row[r].fresh)
    BY DEF Sweep
  <2>2. row'[r].status = Swept(row[r])
    BY <2>1 DEF Written
  <2> QED
    BY <2>2 DEF Swept
<1>2. Shown' = [r \in Runs |-> Shown'[r]] /\ UNCHANGED result
  BY DEF Shown, Sweep
<1>3. \A r \in Runs : \/ Shown'[r] = Shown[r]
                      \/ Shown[r] = "stopping" /\ Shown'[r] = "cancelled"
                      \/ Shown[r] = "open" /\ Shown'[r] = "timeout"
  <2> TAKE r \in Runs
  <2>1. Shown[r] = ContractState(r) /\ Shown'[r] = ContractState(r)'
    BY DEF Shown
  <2> QED
    BY <1>1, <2>1 DEF ContractState
<1>4. Contract!Housekeep
  BY <1>2, <1>3 DEF Contract!Housekeep, Shown
<1> QED
  BY <1>4 DEF Contract!Next

(* What the worker stores is new, and the row moves as the contract allows.*)
LEMMA FinalShown ==
  ASSUME TypeOK, NEW r \in Runs, Ordered(r), Final(r) PROVE [Contract!Next]_Contract!vars
<1> DEFINE w == worker[r]
<1>1. w \in Workers /\ w.pc = "final" /\ Through(w)
  BY DEF Final, Store, TypeOK, Ordered, Knows
<1>2. result[r] = [c \in Cases |-> "none"] /\ row[r].status \in Underway
  BY <1>1 DEF Ordered, BeforeStore
<1>3. result'[r] = w.told /\ \A q \in Runs : q # r => result'[q] = result[q]
  BY DEF Final, Store, TypeOK
<1>4. ASSUME \A q \in Runs : q # r => row'[q].status = row[q].status PROVE OneRun(r)
  BY <1>2, <1>3, <1>4 DEF OneRun
<1>5. ASSUME NEW s \in Statuses, SetStatus(r, s, FALSE)
      PROVE  row'[r].status = s /\ OneRun(r)
  BY <1>4, <1>5, SetStatusType
<1>6. {"SUCCEEDED", "FAILED", "CANCELLED", "STOPPING"} \subseteq Statuses
  BY DEF Statuses, Active, Terminal
<1>7. CASE row[r].status = "RUNNING" /\ Verdict(w) = "SUCCEEDED"
  <2>1. row'[r].status = "SUCCEEDED" /\ OneRun(r)
    BY <1>5, <1>6, <1>7 DEF Final
  <2>2. ContractState(r) = "open" /\ ContractState(r)' = "succeeded"
    BY <1>7, <2>1 DEF ContractState
  <2>3. w.end = "none" /\ \A c \in Told(w) : w.told[c] = "passed"
    BY <1>7 DEF Verdict
  <2>4. \A c \in Cases : result'[r][c] = "passed"
    BY <1>1, <1>3, <2>3 DEF Through
  <2>5. Contract!Succeed(r)
    BY <2>1, <2>2, <2>4, OneRunShown DEF Contract!Succeed, Contract!Move, Shown
  <2> QED
    BY <2>5 DEF Contract!Next
<1>8. CASE row[r].status = "RUNNING" /\ Verdict(w) = "FAILED"
  <2>1. row'[r].status = "FAILED" /\ OneRun(r)
    BY <1>5, <1>6, <1>8 DEF Final
  <2>2. ContractState(r) = "open" /\ ContractState(r)' = "failed"
    BY <1>8, <2>1 DEF ContractState
  <2>3. Contract!Fail(r)
    BY <2>1, <2>2, OneRunShown DEF Contract!Fail, Contract!Move, Shown
  <2> QED
    BY <2>3 DEF Contract!Next
<1>9. CASE row[r].status = "RUNNING" /\ Verdict(w) = "CANCELLED"
  <2>1. row'[r].status = "STOPPING" /\ OneRun(r)
    BY <1>5, <1>6, <1>9 DEF Final
  <2>2. ContractState(r) = "open" /\ ContractState(r)' = "stopping"
    BY <1>9, <2>1 DEF ContractState
  <2>3. Contract!GiveUp(r)
    BY <2>1, <2>2, OneRunShown DEF Contract!GiveUp, Contract!Move, Shown
  <2> QED
    BY <2>3 DEF Contract!Next
<1>10. CASE row[r].status = "STOPPING"
  <2>1. row'[r].status = "CANCELLED" /\ OneRun(r)
    BY <1>5, <1>6, <1>10 DEF Final
  <2>2. ContractState(r) = "stopping" /\ ContractState(r)' = "cancelled"
    BY <1>10, <2>1 DEF ContractState
  <2>3. Contract!Confirm(r)
    BY <2>1, <2>2, OneRunShown DEF Contract!Confirm, Contract!Move, Shown
  <2> QED
    BY <2>3 DEF Contract!Next
<1>11. CASE row[r].status \in {"CANCELLED", "TIMEOUT"}
  <2>1. row' = row
    BY <1>11 DEF Final
  <2>2. OneRun(r) /\ ContractState(r)' = ContractState(r)
    BY <1>4, <2>1 DEF ContractState
  <2>3. Shown[r] \in {"cancelled", "timeout"} /\ Shown[r] = ContractState(r)
    BY <1>11 DEF Shown, ContractState
  <2>4. Shown' = [Shown EXCEPT ![r] = Shown[r]]
    BY <2>2, <2>3, OneRunShown
  <2>5. Shown' = Shown
    BY <2>4 DEF Shown
  <2>6. Contract!Report(r)
    BY <2>2, <2>3, <2>5, OneRunShown DEF Contract!Report, Contract!Verdicts, Shown
  <2> QED
    BY <2>6 DEF Contract!Next
<1> QED
  BY <1>2, <1>7, <1>8, <1>9, <1>10, <1>11 DEF Underway, Verdict

LEMMA ConfirmShown ==
  ASSUME TypeOK, NEW r \in Runs, Ordered(r), Confirm(r) PROVE [Contract!Next]_Contract!vars
<1>1. row[r].status \in {"STOPPING", "CANCELLED"} /\ UNCHANGED result
  BY DEF Confirm, Ordered, BeforeStore
<1>2. CASE row[r].status = "STOPPING"
  <2>1. SetStatus(r, "CANCELLED", FALSE) /\ "CANCELLED" \in Statuses
    BY <1>2 DEF Confirm, Statuses, Terminal
  <2>2. row'[r].status = "CANCELLED" /\ OneRun(r)
    BY <1>1, <2>1, SetStatusType DEF OneRun
  <2>3. ContractState(r) = "stopping" /\ ContractState(r)' = "cancelled"
    BY <1>2, <2>2 DEF ContractState
  <2>4. Contract!Confirm(r)
    BY <2>2, <2>3, OneRunShown DEF Contract!Confirm, Contract!Move, Shown
  <2> QED
    BY <2>4 DEF Contract!Next
<1>3. CASE row[r].status = "CANCELLED"
  <2>1. row[r] \in Rows /\ row' = [row EXCEPT ![r].status = "CANCELLED"]
    BY <1>3 DEF Confirm, TypeOK
  <2>2. \A q \in Runs : row'[q].status = row[q].status
    BY <1>3, <2>1 DEF TypeOK, Rows
  <2> QED
    BY <1>1, <2>2, StatusKept
<1> QED
  BY <1>1, <1>2, <1>3

(* An agent run keeps the contract of every run: one of four ends, which   *)
(* lasts; a stop excludes every other end, also the stop of a worker that  *)
(* gives up; success only with a passed result for every case.             *)
THEOREM KeepsContractHolds == Spec => KeepsContract
<1>1. Init => Contract!Init
  BY DEF Init, NoRow, Contract!Init, ContractState
<1>2. TypeOK /\ (\A r \in Runs : Ordered(r)) /\ [Next]_vars => [Contract!Next]_Contract!vars
  <2> SUFFICES ASSUME TypeOK, \A r \in Runs : Ordered(r), [Next]_vars
               PROVE  [Contract!Next]_Contract!vars
    OBVIOUS
  <2>1. ASSUME UNCHANGED <<row, result>> PROVE [Contract!Next]_Contract!vars
    BY <2>1, StatusKept
  <2>2. ASSUME NEW r \in Runs, Start(r) \/ Age(r) \/ ScriptDraft(r) \/ WorkerDies(r)
        PROVE  [Contract!Next]_Contract!vars
    <3>1. CASE Age(r)
      <4>1. \A q \in Runs : row'[q].status = row[q].status
        BY <3>1 DEF Age, TypeOK, Rows
      <4> QED
        BY <3>1, <4>1, StatusKept DEF Age
    <3> QED
      BY <2>1, <2>2, <3>1, StartShown DEF ScriptDraft, WorkerDies
  <2>3. \A c \in Cancellers, r \in Runs : Look(c, r) \/ Cancel(c, r) => [Contract!Next]_Contract!vars
    BY <2>1, CancelShown DEF Look
  <2>4. ASSUME NEW r \in Runs, Executing(r) PROVE [Contract!Next]_Contract!vars
    <3>1. ASSUME Dispatch(r) PROVE [Contract!Next]_Contract!vars
      BY <2>1, <3>1, OpenShown DEF Dispatch
    <3>2. ASSUME Validate(r) PROVE [Contract!Next]_Contract!vars
      BY <2>1, <3>2, OpenShown, FailureShown DEF Validate
    <3> QED
      BY <2>1, <2>4, <3>1, <3>2 DEF Executing, Spawn, AwaitWorker
  <2>5. ASSUME NEW r \in Runs, Working(r) PROVE [Contract!Next]_Contract!vars
    <3>1. ASSUME Beat(r) PROVE [Contract!Next]_Contract!vars
      <4>1. UNCHANGED result
        BY <3>1 DEF Beat, Works
      <4> QED
        BY <2>1, <3>1, <4>1, OpenShown DEF Beat
    <3>2. ASSUME WorkerBegin(r) \/ WorkerCheck(r) \/ LimitReached(r) \/ Deny(r) \/ Act(r)
          PROVE  [Contract!Next]_Contract!vars
      BY <2>1, <3>2 DEF WorkerBegin, WorkerCheck, LimitReached, Deny, Act, Works
    <3> QED
      BY <2>5, <3>1, <3>2, FinalShown, ConfirmShown DEF Working
  <2>6. Sweep => [Contract!Next]_Contract!vars
    BY SweepShown
  <2>7. Crash \/ UNCHANGED vars => [Contract!Next]_Contract!vars
    BY <2>1 DEF Crash, vars
  <2> QED
    BY <2>2, <2>3, <2>4, <2>5, <2>6, <2>7 DEF Next
<1> QED
  BY <1>1, <1>2, OrderedHolds, PTL DEF Spec, KeepsContract, Contract!Spec
=============================================================================
