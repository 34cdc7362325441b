--------------------------- MODULE TestRunProof ---------------------------
(***************************************************************************)
(* Proofs about TestRun for every number of runs, keys, callers and cases. *)
(***************************************************************************)
EXTENDS TestRun, FiniteSetTheorems, TLAPS

-----------------------------------------------------------------------------
(* What the helpers do to the types *)

(* update_test_run_status keeps the columns of a row in their ranges.      *)
LEMMA SetStatusType ==
  ASSUME RowType, NEW r \in Runs, NEW s \in Statuses, NEW h \in BOOLEAN, SetStatus(r, s, h)
  PROVE  RowType'
  BY DEF RowType, SetStatus

(* complete_stopping_run keeps the columns of a row in their ranges.       *)
LEMMA CompleteStoppingType ==
  ASSUME RowType, NEW r \in Runs, CompleteStopping(r) PROVE RowType'
  BY SetStatusType DEF RowType, CompleteStopping, row, Statuses, Terminal

(* Moving a task changes only its place.                                   *)
LEMMA GotoType ==
  ASSUME ProcessType, NEW r \in Runs, NEW p \in Places, Goto(r, p)
  PROVE  task' \in [Runs -> [pc : Places, case : Cases, passed : BOOLEAN]]
  BY DEF ProcessType, Goto

(* Going on to the next case never leaves the range of the cases.          *)
LEMMA NextCaseType ==
  ASSUME ProcessType, NEW r \in Runs, NEW b \in BOOLEAN, NextCase(r, b)
  PROVE  task' \in [Runs -> [pc : Places, case : Cases, passed : BOOLEAN]]
  BY NumCasesAssumption DEF ProcessType, NextCase, Cases, Places

(* A task that is told to stop keeps the types.                            *)
LEMMA HaltType ==
  ASSUME RowType, ProcessType, NEW r \in Runs, Halt(r)
  PROVE  RowType' /\ task' \in [Runs -> [pc : Places, case : Cases, passed : BOOLEAN]]
  BY CompleteStoppingType, GotoType DEF Halt, Places

(* A stored result is one of the outcomes.                                 *)
LEMMA RecordType ==
  ASSUME EvidenceType, ProcessType, NEW r \in Runs, NEW o \in Outcomes, Record(r, o)
  PROVE  result' \in [Runs -> [Cases -> Outcomes \cup {"none"}]]
  BY DEF EvidenceType, ProcessType, Record

(* A refused run keeps the types.                                          *)
LEMMA RefuseType ==
  ASSUME RowType, ProcessType, NEW r \in Runs, Refuse(r)
  PROVE  RowType' /\ task' \in [Runs -> [pc : Places, case : Cases, passed : BOOLEAN]]
  BY SetStatusType, GotoType DEF Refuse, Statuses, Terminal, Places

-----------------------------------------------------------------------------
(* Every variable of TestRun stays in its range.                           *)
THEOREM TypeCorrect == Spec => []TypeOK
<1>1. Init => TypeOK
  BY NoneAssumption, NumCasesAssumption
     DEF Init, TypeOK, RowType, EvidenceType, CommandType, ProcessType,
         NoRequest, NoView, NewTask, Statuses, Places, Outcomes, Cases
<1>2. ASSUME TypeOK, [Next]_vars PROVE TypeOK'
  <2> USE <1>2 DEF TypeOK
  <2>1. CASE UNCHANGED vars
    BY <2>1 DEF vars, RowType, EvidenceType, CommandType, ProcessType
  <2>2. ASSUME NEW s \in Starters, NEW k \in Keys, NEW b \in Bodies, StartLookup(s, k, b)
        PROVE  TypeOK'
    BY <2>2 DEF StartLookup, row, RowType, EvidenceType, CommandType, ProcessType
  <2>3. ASSUME NEW s \in Starters, NEW r \in Runs, StartInsert(s, r) PROVE TypeOK'
    <3>1. RowType'
      BY <2>3 DEF StartInsert, RowType, Statuses
    <3>2. record' \in [Keys -> [run : Runs \cup {None}, body : Bodies \cup {None}]]
      BY <2>3 DEF StartInsert, CommandType
    <3>3. start[s] \in [pc : {"idle", "insert", "replied", "conflict", "error"},
                        key : Keys \cup {None}, body : Bodies \cup {None},
                        run : Runs \cup {None}]
      BY DEF CommandType
    <3>4. start' \in [Starters -> [pc : {"idle", "insert", "replied", "conflict", "error"},
                                   key : Keys \cup {None}, body : Bodies \cup {None},
                                   run : Runs \cup {None}]]
      BY <2>3, <3>3 DEF StartInsert, CommandType
    <3>5. CommandType'
      BY <2>3, <3>2, <3>4 DEF StartInsert, CommandType
    <3>6. QED
      BY <2>3, <3>1, <3>5, GotoType DEF StartInsert, EvidenceType, ProcessType, Places
  <2>4. ASSUME NEW s \in Starters, StartDuplicate(s) PROVE TypeOK'
    <3>1. start' \in [Starters -> [pc : {"idle", "insert", "replied", "conflict", "error"},
                                   key : Keys \cup {None}, body : Bodies \cup {None},
                                   run : Runs \cup {None}]]
      BY <2>4 DEF StartDuplicate, CommandType
    <3>2. QED
      BY <2>4, <3>1 DEF StartDuplicate, row, RowType, EvidenceType, CommandType, ProcessType
  <2>5. ASSUME NEW c \in Cancellers, NEW r \in Runs, Look(c, r) PROVE TypeOK'
    BY <2>5 DEF Look, row, RowType, EvidenceType, CommandType, ProcessType
  <2>6. ASSUME NEW c \in Cancellers, NEW r \in Runs, Cancel(c, r) PROVE TypeOK'
    <3>1. RowType'
      BY <2>6 DEF Cancel, RowType, Statuses, Active, Terminal
    <3>2. QED
      BY <2>6, <3>1 DEF Cancel, EvidenceType, CommandType, ProcessType
  <2>7. ASSUME NEW r \in Runs, Dispatch(r) PROVE TypeOK'
    BY <2>7, SetStatusType, GotoType
       DEF Dispatch, row, RowType, EvidenceType, CommandType, ProcessType, Statuses, Places
  <2>8. ASSUME NEW r \in Runs, Validate(r) PROVE TypeOK'
    BY <2>8, SetStatusType, GotoType, RefuseType
       DEF Validate, row, RowType, EvidenceType, CommandType, ProcessType, Statuses, Active, Places
  <2>9. ASSUME NEW r \in Runs, Recheck(r) PROVE TypeOK'
    BY <2>9, GotoType, RefuseType
       DEF Recheck, row, RowType, EvidenceType, CommandType, ProcessType, Places
  <2>10. ASSUME NEW r \in Runs, Begin(r) PROVE TypeOK'
    BY <2>10, GotoType, RefuseType
       DEF Begin, row, RowType, EvidenceType, CommandType, ProcessType, Places
  <2>11. ASSUME NEW r \in Runs, CheckStop(r) PROVE TypeOK'
    BY <2>11, GotoType, HaltType
       DEF CheckStop, row, RowType, EvidenceType, CommandType, ProcessType, Places
  <2>12. ASSUME NEW r \in Runs, RecordApi(r) PROVE TypeOK'
    <3>1. EvidenceType'
      BY <2>12, RecordType DEF RecordApi, EvidenceType
    <3>2. RowType' /\ ProcessType'
      BY <2>12, SetStatusType, NextCaseType, HaltType
         DEF RecordApi, ProcessType, Statuses, Active
    <3>3. QED
      BY <2>12, <3>1, <3>2 DEF RecordApi, CommandType
  <2>raised. ASSUME NEW r \in Runs, RequestRaises(r) PROVE TypeOK'
    BY <2>raised, GotoType
       DEF RequestRaises, row, RowType, EvidenceType, CommandType, ProcessType, Places
  <2>13. ASSUME NEW r \in Runs, RecordUnsupported(r) PROVE TypeOK'
    <3>1. EvidenceType'
      BY <2>13, RecordType DEF RecordUnsupported, EvidenceType, Outcomes
    <3>2. RowType' /\ ProcessType'
      BY <2>13, SetStatusType, NextCaseType
         DEF RecordUnsupported, row, RowType, ProcessType, Statuses, Active
    <3>3. QED
      BY <2>13, <3>1, <3>2 DEF RecordUnsupported, CommandType
  <2>14. ASSUME NEW r \in Runs, SpawnWorker(r) PROVE TypeOK'
    BY <2>14, GotoType
       DEF SpawnWorker, row, RowType, EvidenceType, CommandType, ProcessType, Places
  <2>15. ASSUME NEW r \in Runs, AwaitWorker(r) PROVE TypeOK'
    <3>1. RowType' /\ ProcessType'
      BY <2>15, SetStatusType, NextCaseType, HaltType
         DEF AwaitWorker, ProcessType, Statuses, Active
    <3>2. QED
      BY <2>15, <3>1 DEF AwaitWorker, EvidenceType, CommandType
  <2>16. ASSUME NEW r \in Runs, Finish(r) PROVE TypeOK'
    BY <2>16, SetStatusType, CompleteStoppingType, GotoType
       DEF Finish, EvidenceType, CommandType, ProcessType, Statuses, Terminal, Places
  <2>17. ASSUME NEW r \in Runs, PrepareTriage(r) PROVE TypeOK'
    BY <2>17, GotoType
       DEF PrepareTriage, row, RowType, EvidenceType, CommandType, ProcessType, Places
  <2>18. ASSUME NEW r \in Runs, Triage(r) PROVE TypeOK'
    <3>1. EvidenceType'
      BY <2>18 DEF Triage, EvidenceType
    <3>2. QED
      BY <2>18, <3>1, GotoType DEF Triage, row, RowType, CommandType, ProcessType, Places
  <2>19. ASSUME NEW r \in Runs, EvaluateGate(r) PROVE TypeOK'
    <3>1. RowType'
      BY <2>19 DEF EvaluateGate, row, RowType
    <3>2. EvidenceType'
      BY <2>19 DEF EvaluateGate, EvidenceType
    <3>3. QED
      BY <2>19, <3>1, <3>2, GotoType DEF EvaluateGate, CommandType, ProcessType, Places
  <2>20. ASSUME NEW r \in Runs, WorkerCheck(r) PROVE TypeOK'
    BY <2>20 DEF WorkerCheck, row, RowType, EvidenceType, CommandType, ProcessType
  <2>21. ASSUME NEW r \in Runs, WorkerRecord(r) PROVE TypeOK'
    <3>1. EvidenceType'
      BY <2>21, RecordType DEF WorkerRecord, EvidenceType, Outcomes
    <3>2. RowType'
      BY <2>21, SetStatusType DEF WorkerRecord, row, RowType, Statuses, Active
    <3>3. QED
      BY <2>21, <3>1, <3>2 DEF WorkerRecord, CommandType, ProcessType
  <2>22. ASSUME NEW r \in Runs, WorkerFail(r) PROVE TypeOK'
    BY <2>22 DEF WorkerFail, row, RowType, EvidenceType, CommandType, ProcessType
  <2>23. ASSUME NEW r \in Runs, Age(r) PROVE TypeOK'
    BY <2>23 DEF Age, row, RowType, EvidenceType, CommandType, ProcessType
  <2>24. CASE Sweep
    BY <2>24 DEF Sweep, Swept, RowType, EvidenceType, CommandType, ProcessType,
                 Statuses, Active, Terminal
  <2>25. CASE Crash
    <3>1. ProcessType'
      BY <2>25 DEF Crash, ProcessType, Places
    <3>2. CommandType'
      BY <2>25 DEF Crash, CommandType
    <3>3. QED
      BY <2>25, <3>1, <3>2 DEF Crash, row, RowType, EvidenceType
  <2>26. QED
    BY <2>1, <2>2, <2>3, <2>4, <2>5, <2>6, <2>7, <2>8, <2>9, <2>10, <2>11, <2>12,
       <2>raised, <2>13, <2>14, <2>15, <2>16, <2>17, <2>18, <2>19, <2>20, <2>21, <2>22, <2>23,
       <2>24, <2>25
       DEF Next, Starting, Cancelling, Executing, Browsing
<1>3. QED
  BY <1>1, <1>2, PTL DEF Spec

-----------------------------------------------------------------------------
(* The bookkeeping of task, worker and results *)

(* What the four parts of Bookkeeping say of one run depends on that run.  *)
Kept(q) == MemoryTrue(q) /\ WorkerPlaced(q) /\ VerdictLast(q) /\ FreshTask(q)
Untouched(q) ==
  /\ status'[q] = status[q] /\ result'[q] = result[q]
  /\ task'[q] = task[q] /\ worker'[q] = worker[q]

(* A run whose row and processes a step leaves alone keeps its bookkeeping. *)
LEMMA UntouchedKept ==
  ASSUME NEW q \in Runs, Kept(q), Untouched(q) PROVE Kept(q)'
  BY DEF Kept, Untouched, MemoryTrue, WorkerPlaced, VerdictLast, FreshTask

(* The effect of the helpers on the task and the status.                   *)
LEMMA GotoEffect ==
  ASSUME TypeOK, NEW r \in Runs, NEW p \in Places, Goto(r, p)
  PROVE  /\ task'[r] = [pc |-> p, case |-> task[r].case, passed |-> task[r].passed]
         /\ \A q \in Runs \ {r} : task'[q] = task[q]
  BY DEF TypeOK, ProcessType, Goto

(* What the next case does to the task of a run.                           *)
LEMMA NextCaseEffect ==
  ASSUME TypeOK, NEW r \in Runs, NEW b \in BOOLEAN, NextCase(r, b)
  PROVE  /\ task[r].case = NumCases => task'[r].pc = "final" /\ task'[r].case = task[r].case
         /\ task[r].case # NumCases => task'[r].pc = "check" /\ task'[r].case = task[r].case + 1
         /\ task'[r].passed => task[r].passed /\ b
         /\ \A q \in Runs \ {r} : task'[q] = task[q]
  BY DEF TypeOK, ProcessType, NextCase

(* A task that is told to stop is done, and at most confirms the stop.     *)
LEMMA HaltEffect ==
  ASSUME TypeOK, NEW r \in Runs, Halt(r)
  PROVE  /\ status'[r] \in {status[r], "CANCELLED"}
         /\ task'[r] = [pc |-> "done", case |-> task[r].case, passed |-> task[r].passed]
         /\ \A q \in Runs \ {r} : task'[q] = task[q] /\ status'[q] = status[q]
  BY GotoEffect
     DEF Halt, CompleteStopping, SetStatus, Stopped, TypeOK, RowType, row, Places

(* Going on to the next case keeps the memory true, if what it adds is      *)
(* stored; stopping ends it.                                               *)
LEMMA NextCaseKept ==
  ASSUME TypeOK, NEW r \in Runs, NEW b \in BOOLEAN, Kept(r), NextCase(r, b),
         task[r].pc \in Driving \ {"final"},
         status'[r] = status[r],
         worker'[r] = "none",
         status[r] = "RUNNING" /\ b => result'[r][task[r].case] = "passed",
         \A c \in Cases : c # task[r].case => result'[r][c] = result[r][c]
  PROVE  Kept(r)'
<1>1. task[r].case \in Cases /\ task[r].case \in Int /\ Cases \subseteq Int
  BY NumCasesAssumption DEF TypeOK, ProcessType, Cases
<1>2. status[r] \notin {"SUCCEEDED", "FAILED", "absent"}
  BY DEF Kept, MemoryTrue, WorkerPlaced, VerdictLast, FreshTask, Driving, Before, After
<1>3. task'[r].pc \in {"final", "check"}
  BY NextCaseEffect
<1>4. MemoryTrue(r)'
  <2>1. SUFFICES ASSUME status[r] = "RUNNING", task'[r].passed, NEW c \in Cases,
                        c < task'[r].case \/ task'[r].pc = "final"
                 PROVE  result'[r][c] = "passed"
    BY DEF MemoryTrue
  <2>2. task[r].passed /\ b
    BY <2>1, NextCaseEffect
  <2>3. CASE c = task[r].case
    BY <2>1, <2>2, <2>3
  <2>4. CASE c # task[r].case
    <3>1. c < task[r].case
      BY <1>1, <2>1, <2>4, NextCaseEffect, NumCasesAssumption DEF Cases
    <3>2. result[r][c] = "passed"
      BY <2>1, <2>2, <3>1 DEF Kept, MemoryTrue, WorkerPlaced, VerdictLast, FreshTask, Driving, Before, After
    <3>3. QED
      BY <2>4, <3>2
  <2>5. QED
    BY <2>3, <2>4
<1>5. QED
  BY <1>2, <1>3, <1>4 DEF Kept, WorkerPlaced, VerdictLast, FreshTask, Before

(* Stopping a task keeps its bookkeeping.                                  *)
LEMMA HaltKept ==
  ASSUME TypeOK, NEW r \in Runs, Kept(r), Halt(r), worker'[r] = "none",
         task[r].pc \in Driving
  PROVE  Kept(r)'
<1>1. task'[r].pc = "done"
  <2>1. task'[r] = [pc |-> "done", case |-> task[r].case, passed |-> task[r].passed]
    BY HaltEffect
  <2>2. QED
    BY <2>1
<1>2. status'[r] \in {status[r], "CANCELLED"}
  BY HaltEffect
<1>3. status[r] \notin {"SUCCEEDED", "FAILED", "absent"}
  BY DEF Kept, MemoryTrue, WorkerPlaced, VerdictLast, FreshTask, Driving, Before, After
<1>4. QED
  BY <1>1, <1>2, <1>3 DEF Kept, MemoryTrue, WorkerPlaced, VerdictLast, FreshTask, Driving, Before, After

(* The steps that drive a case, one by one.                                *)
LEMMA CheckStopKept ==
  ASSUME TypeOK, NEW q \in Runs, NEW r \in Runs, Kept(q), CheckStop(r)
  PROVE  Kept(q)'
<1>1. CASE Halt(r)
  <2>1. q # r => Untouched(q)
    BY <1>1, HaltEffect DEF CheckStop, Untouched
  <2>2. q = r => worker[r] = "none" /\ task[r].pc \in Driving
    BY DEF CheckStop, Kept, MemoryTrue, WorkerPlaced, VerdictLast, FreshTask, Driving, Before, After
  <2>3. q = r => Kept(q)'
    BY <1>1, <2>2, HaltKept DEF CheckStop
  <2>4. QED
    BY <2>1, <2>3, UntouchedKept
<1>2. CASE UNCHANGED row /\ \E p \in {"http", "spawn", "unsupported"} : Goto(r, p)
  <2>1. q # r => Untouched(q)
    BY <1>2, GotoEffect DEF CheckStop, Untouched, row, Places
  <2>2. PICK p \in {"http", "spawn", "unsupported"} : Goto(r, p)
    BY <1>2
  <2>3. p \in Places
    BY DEF Places
  <2>6. task'[r] = [pc |-> p, case |-> task[r].case, passed |-> task[r].passed]
    BY <2>2, <2>3, GotoEffect
  <2>4. q = r => Kept(q)'
    BY <1>2, <2>6 DEF CheckStop, row, Kept, MemoryTrue, WorkerPlaced, VerdictLast, FreshTask, Driving, Before, After
  <2>5. QED
    BY <2>1, <2>4, UntouchedKept
<1>3. QED
  BY <1>1, <1>2 DEF CheckStop

(* Storing the result of an api case keeps the bookkeeping.                *)
LEMMA RecordApiKept ==
  ASSUME TypeOK, NEW q \in Runs, NEW r \in Runs, Kept(q), RecordApi(r)
  PROVE  Kept(q)'
<1>0. q = r => worker[r] = "none" /\ task[r].pc \in Driving \ {"final"}
  BY DEF RecordApi, Kept, MemoryTrue, WorkerPlaced, VerdictLast, FreshTask, Driving, Before, After
<1>1. CASE Halt(r) /\ UNCHANGED result
  <2>1. q # r => Untouched(q)
    BY <1>1, HaltEffect DEF RecordApi, Untouched
  <2>2. q = r => Kept(q)'
    BY <1>0, <1>1, HaltKept DEF RecordApi
  <2>3. QED
    BY <2>1, <2>2, UntouchedKept
<1>2. ASSUME NEW o \in Outcomes, Record(r, o), NextCase(r, o = "passed"),
             SetStatus(r, "RUNNING", TRUE), status[r] = "RUNNING"
      PROVE  Kept(q)'
  <2>1. q # r => Untouched(q)
    BY <1>2, NextCaseEffect, ZenonT(60)
       DEF RecordApi, Record, SetStatus, Untouched, TypeOK, RowType, EvidenceType
  <2>2. /\ result'[r][task[r].case] = o
        /\ \A c \in Cases : c # task[r].case => result'[r][c] = result[r][c]
        /\ status'[r] = status[r]
    BY <1>2 DEF Record, SetStatus, TypeOK, RowType, EvidenceType, ProcessType
  <2>3. q = r => Kept(q)'
    BY <1>0, <1>2, <2>2, NextCaseKept DEF RecordApi
  <2>4. QED
    BY <2>1, <2>3, UntouchedKept
<1>3. QED
  BY <1>1, <1>2 DEF RecordApi

(* Storing an unsupported case as incomplete keeps the bookkeeping.        *)
LEMMA RecordUnsupportedKept ==
  ASSUME TypeOK, NEW q \in Runs, NEW r \in Runs, Kept(q), RecordUnsupported(r)
  PROVE  Kept(q)'
<1>0. q = r => worker[r] = "none" /\ task[r].pc \in Driving \ {"final"}
  BY DEF RecordUnsupported, Kept, MemoryTrue, WorkerPlaced, VerdictLast, FreshTask, Driving, Before, After
<1>1. CASE status[r] = "RUNNING"
  <2>0. Record(r, "incomplete") /\ NextCase(r, FALSE) /\ SetStatus(r, "RUNNING", TRUE)
        /\ worker' = worker
    BY <1>1 DEF RecordUnsupported
  <2>1. q # r => Untouched(q)
    <3>1. q # r => task'[q] = task[q]
      BY <2>0, NextCaseEffect
    <3>2. q # r => result'[q] = result[q] /\ status'[q] = status[q]
      BY <2>0 DEF Record, SetStatus, TypeOK, RowType, EvidenceType
    <3>3. QED
      BY <2>0, <3>1, <3>2 DEF Untouched
  <2>2. /\ \A c \in Cases : c # task[r].case => result'[r][c] = result[r][c]
        /\ status'[r] = status[r]
    BY <1>1, <2>0 DEF Record, SetStatus, TypeOK, RowType, EvidenceType, ProcessType
  <2>3. q = r => Kept(q)'
    BY <1>0, <1>1, <2>0, <2>2, NextCaseKept
  <2>4. QED
    BY <2>1, <2>3, UntouchedKept
<1>2. CASE status[r] # "RUNNING"
  <2>1. q # r => Untouched(q)
    BY <1>2, NextCaseEffect DEF RecordUnsupported, Untouched, row
  <2>2. q = r => Kept(q)'
    BY <1>0, <1>2, NextCaseKept DEF RecordUnsupported, row
  <2>3. QED
    BY <2>1, <2>2, UntouchedKept
<1>3. QED
  BY <1>1, <1>2

(* Reading the result a worker left keeps the bookkeeping.                 *)
LEMMA AwaitWorkerKept ==
  ASSUME TypeOK, NEW q \in Runs, NEW r \in Runs, Kept(q), AwaitWorker(r)
  PROVE  Kept(q)'
<1>0. /\ q = r => task[r].pc \in Driving \ {"final"}
      /\ worker'[r] = "none"
      /\ q # r => worker'[q] = worker[q]
  BY DEF AwaitWorker, Kept, MemoryTrue, WorkerPlaced, VerdictLast, FreshTask, Driving, Before, After, TypeOK, ProcessType
<1>1. CASE Halt(r)
  <2>1. q # r => Untouched(q)
    BY <1>0, <1>1, HaltEffect DEF AwaitWorker, Untouched
  <2>2. q = r => Kept(q)'
    BY <1>0, <1>1, HaltKept
  <2>3. QED
    BY <2>1, <2>2, UntouchedKept
<1>2. CASE /\ status[r] = "RUNNING"
           /\ NextCase(r, worker[r] = "exit0" /\ result[r][task[r].case] = "passed")
           /\ SetStatus(r, "RUNNING", TRUE)
  <2>1. q # r => Untouched(q)
    BY <1>0, <1>2, NextCaseEffect DEF AwaitWorker, SetStatus, Untouched, TypeOK, RowType
  <2>2. status'[r] = status[r] /\ result' = result
    BY <1>2 DEF AwaitWorker, SetStatus, TypeOK, RowType
  <2>3. q = r => Kept(q)'
    BY <1>0, <1>2, <2>2, NextCaseKept
  <2>4. QED
    BY <2>1, <2>3, UntouchedKept
<1>3. QED
  BY <1>1, <1>2 DEF AwaitWorker

(* Preparing the triage keeps the bookkeeping.                             *)
LEMMA PrepareTriageKept ==
  ASSUME TypeOK, NEW q \in Runs, NEW r \in Runs, Kept(q), PrepareTriage(r)
  PROVE  Kept(q)'
<1>1. UNCHANGED <<status, result, worker>> /\ \E p \in {"gate", "cluster"} : Goto(r, p)
  BY DEF PrepareTriage, row
<1>2. q # r => Untouched(q)
  BY <1>1, GotoEffect DEF Untouched, Places
<1>3. task'[r].pc \in {"gate", "cluster"}
  <2>1. PICK p \in {"gate", "cluster"} : Goto(r, p)
    BY <1>1
  <2>2. p \in Places
    BY DEF Places
  <2>3. task'[r] = [pc |-> p, case |-> task[r].case, passed |-> task[r].passed]
    BY <2>1, <2>2, GotoEffect
  <2>4. QED
    BY <2>3
<1>4. q = r => Kept(q)'
  BY <1>1, <1>3 DEF PrepareTriage, Kept, MemoryTrue, WorkerPlaced, VerdictLast, FreshTask, Driving, Before, After
<1>5. QED
  BY <1>2, <1>4, UntouchedKept

(* A step of the system keeps what the task remembers true.                *)
LEMMA BookkeepingStep ==
  ASSUME TypeOK, Bookkeeping, [Next]_vars
  PROVE  Bookkeeping'
<1> SUFFICES ASSUME NEW q \in Runs PROVE Kept(q)'
  BY DEF Bookkeeping, Kept
<1>0. Kept(q)
  BY DEF Bookkeeping, Kept
<1>1. \A r \in Runs : CheckStop(r) \/ RecordApi(r) \/ RecordUnsupported(r)
                       \/ AwaitWorker(r) \/ PrepareTriage(r) => Kept(q)'
  BY <1>0, CheckStopKept, RecordApiKept, RecordUnsupportedKept, AwaitWorkerKept,
     PrepareTriageKept
<1> USE <1>0, NumCasesAssumption
    DEF Kept, MemoryTrue, WorkerPlaced, VerdictLast, FreshTask, Driving, Before, After,
        TypeOK, RowType, EvidenceType, ProcessType, row, Cases
<1>2. CASE UNCHANGED vars
  BY <1>2 DEF vars
<1>3. ASSUME NEW s \in Starters, NEW k \in Keys, NEW b \in Bodies, StartLookup(s, k, b)
      PROVE  Kept(q)'
  BY <1>3 DEF StartLookup
<1>4. ASSUME NEW s \in Starters, NEW r \in Runs, StartInsert(s, r) PROVE Kept(q)'
  BY <1>4 DEF StartInsert, Goto
<1>5. ASSUME NEW s \in Starters, StartDuplicate(s) PROVE Kept(q)'
  BY <1>5 DEF StartDuplicate
<1>6. ASSUME NEW c \in Cancellers, NEW r \in Runs, Look(c, r) \/ Cancel(c, r)
      PROVE  Kept(q)'
  BY <1>6 DEF Look, Cancel
<1>7. ASSUME NEW r \in Runs, Dispatch(r) PROVE Kept(q)'
  BY <1>7 DEF Dispatch, SetStatus, Goto
<1>8. ASSUME NEW r \in Runs, Validate(r) PROVE Kept(q)'
  BY <1>8 DEF Validate, Refuse, SetStatus, Goto
<1>9. ASSUME NEW r \in Runs, Recheck(r) PROVE Kept(q)'
  BY <1>9 DEF Recheck, Refuse, SetStatus, Goto
<1>10. ASSUME NEW r \in Runs, Begin(r) PROVE Kept(q)'
  BY <1>10 DEF Begin, Refuse, SetStatus, Goto
<1>11. ASSUME NEW r \in Runs, SpawnWorker(r) PROVE Kept(q)'
  BY <1>11 DEF SpawnWorker, Goto
<1>12. ASSUME NEW r \in Runs, Finish(r) PROVE Kept(q)'
  BY <1>12 DEF Finish, CompleteStopping, SetStatus, Goto
<1>13. ASSUME NEW r \in Runs, Triage(r) PROVE Kept(q)'
  BY <1>13 DEF Triage, Goto
<1>14. ASSUME NEW r \in Runs, EvaluateGate(r) PROVE Kept(q)'
  BY <1>14 DEF EvaluateGate, Goto
<1>15. ASSUME NEW r \in Runs, WorkerCheck(r) PROVE Kept(q)'
  BY <1>15 DEF WorkerCheck
<1>16. ASSUME NEW r \in Runs, WorkerRecord(r) PROVE Kept(q)'
  BY <1>16 DEF WorkerRecord, Record, SetStatus
<1>17. ASSUME NEW r \in Runs, WorkerFail(r) PROVE Kept(q)'
  BY <1>17 DEF WorkerFail
<1>18. ASSUME NEW r \in Runs, Age(r) PROVE Kept(q)'
  BY <1>18 DEF Age
<1>19. CASE Sweep
  BY <1>19 DEF Sweep, Swept, Active
<1>20. CASE Crash
  BY <1>20 DEF Crash, Alive, Places
<1>21. ASSUME NEW r \in Runs, RequestRaises(r) PROVE Kept(q)'
  BY <1>21 DEF RequestRaises, Goto
<1>22. QED
  BY <1>1, <1>2, <1>3, <1>4, <1>5, <1>6, <1>7, <1>8, <1>9, <1>10, <1>11, <1>12, <1>13, <1>14,
     <1>15, <1>16, <1>17, <1>18, <1>19, <1>20, <1>21
     DEF Next, Starting, Cancelling, Executing, Browsing

(* What the task remembers stays true in every run of the system.          *)
THEOREM BookkeepingHolds == Spec => []Bookkeeping
<1>1. Init => Bookkeeping
  BY DEF Init, NewTask, Bookkeeping, MemoryTrue, WorkerPlaced, VerdictLast, FreshTask,
         Driving, Before
<1>2. TypeOK /\ Bookkeeping /\ [Next]_vars => Bookkeeping'
  BY BookkeepingStep
<1>3. QED
  BY <1>1, <1>2, TypeCorrect, PTL DEF Spec

-----------------------------------------------------------------------------
(* How the status of a run moves *)

Stays(q) == status'[q] = status[q]
Confirms(q) == status[q] = "STOPPING" => status'[q] \in {"STOPPING", "CANCELLED"}
Absorbs(q) == status[q] \in Terminal => status'[q] = status[q]
Succeeds(q) == status'[q] = "SUCCEEDED" /\ status[q] # "SUCCEEDED"
Moves(q) ==
  /\ Confirms(q) /\ Absorbs(q)
  /\ Succeeds(q) => Finish(q) /\ status[q] = "RUNNING" /\ task[q].passed

(* A step that leaves the status alone is an admissible move.              *)
LEMMA StaysMoves ==
  ASSUME NEW q \in Runs, Stays(q) PROVE Moves(q)
  BY DEF Stays, Moves, Confirms, Absorbs, Succeeds

(* A change of one row that starts from neither a terminal nor a stopping  *)
(* run, or that confirms a stop, and reports no success.                   *)
LEMMA SetStatusMoves ==
  ASSUME TypeOK, NEW q \in Runs, NEW r \in Runs, NEW s \in Statuses \ {"SUCCEEDED"},
         NEW h \in BOOLEAN, SetStatus(r, s, h), status[r] \notin Terminal,
         status[r] = "STOPPING" => s = "CANCELLED"
  PROVE  Moves(q)
  BY DEF SetStatus, Moves, Confirms, Absorbs, Succeeds, TypeOK, RowType

(* Confirming a stop is an admissible move.                                *)
LEMMA CompleteStoppingMoves ==
  ASSUME TypeOK, NEW q \in Runs, NEW r \in Runs, CompleteStopping(r) PROVE Moves(q)
  BY DEF CompleteStopping, row, SetStatus, Moves, Confirms, Absorbs, Succeeds, TypeOK,
         RowType, Terminal

(* Every step confirms stops only, leaves terminal runs alone, and reports *)
(* success only as the verdict of a task all of whose cases passed.        *)
LEMMA StatusStep ==
  ASSUME TypeOK, [Next]_vars, NEW q \in Runs PROVE Moves(q)
<1> USE DEF Terminal
<1>1. ASSUME UNCHANGED status PROVE Moves(q)
  BY <1>1, StaysMoves DEF Stays
<1>2. ASSUME NEW s \in Starters, NEW r \in Runs, StartInsert(s, r) PROVE Moves(q)
  BY <1>2 DEF StartInsert, Moves, Confirms, Absorbs, Succeeds, TypeOK, RowType
<1>3. ASSUME NEW c \in Cancellers, NEW r \in Runs, Cancel(c, r) PROVE Moves(q)
  BY <1>3 DEF Cancel, Moves, Confirms, Absorbs, Succeeds, TypeOK, RowType
<1>4. ASSUME NEW r \in Runs, Dispatch(r) PROVE Moves(q)
  BY <1>1, <1>4, SetStatusMoves DEF Dispatch, row, Statuses
<1>5. ASSUME NEW r \in Runs, Validate(r) PROVE Moves(q)
  BY <1>1, <1>5, SetStatusMoves DEF Validate, Refuse, row, Statuses, Active
<1>6. ASSUME NEW r \in Runs, Recheck(r) \/ Begin(r) PROVE Moves(q)
  BY <1>1, <1>6, SetStatusMoves DEF Recheck, Begin, Refuse, row, Statuses
<1>7. ASSUME NEW r \in Runs, CheckStop(r) PROVE Moves(q)
  BY <1>1, <1>7, CompleteStoppingMoves DEF CheckStop, Halt, row
<1>8. ASSUME NEW r \in Runs, RecordApi(r) PROVE Moves(q)
  BY <1>8, SetStatusMoves, CompleteStoppingMoves DEF RecordApi, Halt, Statuses, Active
<1>9. ASSUME NEW r \in Runs, RecordUnsupported(r) PROVE Moves(q)
  BY <1>1, <1>9, SetStatusMoves DEF RecordUnsupported, row, Statuses, Active
<1>10. ASSUME NEW r \in Runs, WorkerRecord(r) PROVE Moves(q)
  BY <1>1, <1>10, SetStatusMoves DEF WorkerRecord, row, Statuses, Active
<1>11. ASSUME NEW r \in Runs, AwaitWorker(r) PROVE Moves(q)
  BY <1>11, SetStatusMoves, CompleteStoppingMoves DEF AwaitWorker, Halt, Statuses, Active
<1>12. ASSUME NEW r \in Runs, Finish(r) PROVE Moves(q)
  <2>1. CASE status[r] = "RUNNING"
    <3>1. \A p \in Runs : p # r => Stays(p)
      BY <1>12, <2>1 DEF Finish, SetStatus, Stays, TypeOK, RowType
    <3>2. q = r => Moves(q)
      BY <1>12, <2>1 DEF Finish, SetStatus, Moves, Confirms, Absorbs, Succeeds, TypeOK, RowType
    <3>3. QED
      BY <3>1, <3>2, StaysMoves
  <2>2. CASE status[r] # "RUNNING"
    BY <1>12, <2>2, CompleteStoppingMoves DEF Finish
  <2>3. QED
    BY <2>1, <2>2
<1>13. CASE Sweep
  BY <1>13 DEF Sweep, Swept, Moves, Confirms, Absorbs, Succeeds
<1>14. QED
  <2>1. \A s \in Starters : Starting(s) => Moves(q)
    BY <1>1, <1>2 DEF Starting, StartLookup, StartDuplicate, row
  <2>2. \A c \in Cancellers : Cancelling(c) => Moves(q)
    BY <1>1, <1>3 DEF Cancelling, Look, row
  <2>3. \A r \in Runs : Executing(r) => Moves(q)
    BY <1>1, <1>4, <1>5, <1>6, <1>7, <1>8, <1>9, <1>11, <1>12
       DEF Executing, RequestRaises, SpawnWorker, PrepareTriage, Triage, EvaluateGate, row
  <2>4. \A r \in Runs : Browsing(r) \/ Age(r) => Moves(q)
    BY <1>1, <1>10 DEF Browsing, WorkerCheck, WorkerFail, Age, row
  <2>5. Crash \/ UNCHANGED vars => Moves(q)
    BY <1>1 DEF Crash, row, vars
  <2>6. QED
    BY <1>13, <2>1, <2>2, <2>3, <2>4, <2>5 DEF Next

(* Terminal states absorb.                                                 *)
THEOREM TerminalAbsorbs == Spec => TerminalAbsorbing
<1>1. TypeOK /\ [Next]_vars => [\A r \in Runs : status[r] \in Terminal => status'[r] = status[r]]_vars
  BY StatusStep DEF Moves, Absorbs
<1>2. QED
  BY <1>1, TypeCorrect, PTL DEF Spec, TerminalAbsorbing

-----------------------------------------------------------------------------
(* The evidence under a verdict *)

(* Only a task in the middle of a case, or its worker, stores a result; a  *)
(* run with a verdict has neither.                                         *)
LEMMA FrozenStep ==
  ASSUME TypeOK, Bookkeeping, [Next]_vars, NEW q \in Runs,
         status[q] \in {"SUCCEEDED", "FAILED"}
  PROVE  result'[q] = result[q]
<1>1. worker[q] = "none" /\ task[q].pc \in After
  BY DEF Bookkeeping, VerdictLast
<1>2. ASSUME UNCHANGED result PROVE result'[q] = result[q]
  BY <1>2
<1>3. ASSUME NEW r \in Runs, NEW o \in Outcomes, Record(r, o), r # q
      PROVE  result'[q] = result[q]
  BY <1>3 DEF Record, TypeOK, EvidenceType
<1>4. ASSUME NEW r \in Runs, RecordApi(r) PROVE result'[q] = result[q]
  <2>1. r # q
    BY <1>1, <1>4 DEF RecordApi, After
  <2>2. QED
    BY <1>2, <1>3, <1>4, <2>1 DEF RecordApi
<1>5. ASSUME NEW r \in Runs, RecordUnsupported(r) PROVE result'[q] = result[q]
  <2>1. r # q
    BY <1>1, <1>5 DEF RecordUnsupported, After
  <2>2. QED
    BY <1>2, <1>3, <1>5, <2>1 DEF RecordUnsupported, Outcomes
<1>6. ASSUME NEW r \in Runs, WorkerRecord(r) PROVE result'[q] = result[q]
  <2>1. r # q
    BY <1>1, <1>6 DEF WorkerRecord
  <2>2. QED
    BY <1>3, <1>6, <2>1 DEF WorkerRecord, Outcomes
<1>7. QED
  <2>1. \A s \in Starters : Starting(s) => UNCHANGED result
    BY DEF Starting, StartLookup, StartInsert, StartDuplicate
  <2>2. \A c \in Cancellers : Cancelling(c) => UNCHANGED result
    BY DEF Cancelling, Look, Cancel
  <2>3. \A r \in Runs : Executing(r) => RecordApi(r) \/ RecordUnsupported(r) \/ UNCHANGED result
    BY DEF Executing, Dispatch, Validate, Recheck, Begin, CheckStop, RequestRaises,
           SpawnWorker, AwaitWorker, Finish, PrepareTriage, Triage, EvaluateGate
  <2>4. \A r \in Runs : Browsing(r) \/ Age(r) => WorkerRecord(r) \/ UNCHANGED result
    BY DEF Browsing, WorkerCheck, WorkerFail, Age
  <2>5. Sweep \/ Crash \/ UNCHANGED vars => UNCHANGED result
    BY DEF Sweep, Crash, vars
  <2>6. QED
    BY <1>2, <1>4, <1>5, <1>6, <2>1, <2>2, <2>3, <2>4, <2>5 DEF Next

(* Nothing is stored under a verdict.                                      *)
THEOREM EvidenceIsFrozen == Spec => EvidenceFrozen
<1>1. TypeOK /\ Bookkeeping /\ [Next]_vars =>
        [\A r \in Runs : status[r] \in {"SUCCEEDED", "FAILED"} => result'[r] = result[r]]_vars
  BY FrozenStep
<1>2. QED
  BY <1>1, TypeCorrect, BookkeepingHolds, PTL DEF Spec, EvidenceFrozen

(* No run is reported SUCCEEDED without a passed result for every case.    *)
THEOREM NoFalseGreenHolds == Spec => []NoFalseGreen
<1>1. Init => NoFalseGreen
  BY DEF Init, NoFalseGreen
<1>2. ASSUME TypeOK, Bookkeeping, NoFalseGreen, [Next]_vars PROVE NoFalseGreen'
  <2> SUFFICES ASSUME NEW q \in Runs, status'[q] = "SUCCEEDED", NEW c \in Cases
               PROVE  result'[q][c] = "passed"
    BY DEF NoFalseGreen
  <2>1. CASE status[q] = "SUCCEEDED"
    BY <1>2, <2>1, FrozenStep DEF NoFalseGreen
  <2>2. CASE status[q] # "SUCCEEDED"
    <3>1. Finish(q) /\ status[q] = "RUNNING" /\ task[q].passed
      BY <1>2, <2>2, StatusStep DEF Moves, Succeeds
    <3>2. result[q][c] = "passed"
      BY <1>2, <3>1 DEF Finish, Bookkeeping, MemoryTrue, Driving
    <3>3. QED
      BY <3>1, <3>2 DEF Finish
  <2>3. QED
    BY <2>1, <2>2
<1>3. QED
  BY <1>1, <1>2, TypeCorrect, BookkeepingHolds, PTL DEF Spec

-----------------------------------------------------------------------------
(* A cancel that was accepted *)

(* The stop signal is set by Cancel alone.                                 *)
LEMMA SignalSource ==
  ASSUME [Next]_vars
  PROVE  UNCHANGED stopSignal \/ \E c \in Cancellers, r \in Runs : Cancel(c, r)
<1>1. \A s \in Starters : Starting(s) => UNCHANGED stopSignal
  BY DEF Starting, StartLookup, StartInsert, StartDuplicate, row
<1>2. \A c \in Cancellers, r \in Runs : Look(c, r) => UNCHANGED stopSignal
  BY DEF Look, row
<1>3. \A r \in Runs : Executing(r) => UNCHANGED stopSignal
  BY ZenonT(60)
     DEF Executing, Dispatch, Validate, Recheck, Begin, CheckStop, RecordApi,
         RequestRaises, RecordUnsupported, SpawnWorker, AwaitWorker, Finish, PrepareTriage, Triage,
         EvaluateGate, Refuse, Halt, CompleteStopping, SetStatus, row
<1>4. \A r \in Runs : Browsing(r) \/ Age(r) => UNCHANGED stopSignal
  BY DEF Browsing, WorkerCheck, WorkerRecord, WorkerFail, Age, SetStatus, row
<1>5. Sweep \/ Crash \/ UNCHANGED vars => UNCHANGED stopSignal
  BY DEF Sweep, Crash, row, vars
<1> QED
  BY <1>1, <1>2, <1>3, <1>4, <1>5 DEF Next, Cancelling

(* The stop signal is never taken back.                                    *)
LEMMA SignalStep ==
  ASSUME TypeOK, [Next]_vars, NEW q \in Runs, stopSignal[q] PROVE stopSignal'[q]
<1>1. ASSUME NEW c \in Cancellers, NEW r \in Runs, Cancel(c, r) PROVE stopSignal'[q]
  BY <1>1 DEF Cancel, TypeOK, RowType
<1> QED
  BY <1>1, SignalSource

(* Receipts are handed out by Cancel alone.                                *)
LEMMA ReceiptStep ==
  ASSUME [Next]_vars
  PROVE  UNCHANGED receipt \/ \E c \in Cancellers, r \in Runs : Cancel(c, r)
<1>1. \A s \in Starters : Starting(s) => UNCHANGED receipt
  BY DEF Starting, StartLookup, StartInsert, StartDuplicate
<1>2. \A c \in Cancellers, r \in Runs : Look(c, r) => UNCHANGED receipt
  BY DEF Look
<1>3. \A r \in Runs : Executing(r) => UNCHANGED receipt
  BY DEF Executing, Dispatch, Validate, Recheck, Begin, CheckStop, RecordApi,
         RequestRaises, RecordUnsupported, SpawnWorker, AwaitWorker, Finish, PrepareTriage, Triage,
         EvaluateGate
<1>4. \A r \in Runs : Browsing(r) \/ Age(r) => UNCHANGED receipt
  BY DEF Browsing, WorkerCheck, WorkerRecord, WorkerFail, Age
<1>5. Sweep \/ Crash \/ UNCHANGED vars => UNCHANGED receipt
  BY DEF Sweep, Crash, vars
<1>6. QED
  BY <1>1, <1>2, <1>3, <1>4, <1>5 DEF Next, Cancelling

(* An accepted cancel is never overtaken by a verdict or a timeout, and    *)
(* one caller only holds its receipt.                                      *)
THEOREM CancelWinsHolds == Spec => []CancelWins
<1>1. Init => CancelWins
  BY DEF Init, CancelWins
<1>2. ASSUME TypeOK, CancelWins, [Next]_vars PROVE CancelWins'
  <2>1. CASE UNCHANGED receipt
    <3> SUFFICES ASSUME NEW c \in Cancellers, receipt[c] # None
                 PROVE  /\ status'[receipt[c]] \in {"STOPPING", "CANCELLED"}
                        /\ stopSignal'[receipt[c]]
                        /\ \A d \in Cancellers : receipt[d] = receipt[c] => d = c
      BY <2>1 DEF CancelWins
    <3>1. receipt[c] \in Runs
      BY <1>2 DEF TypeOK, CommandType
    <3>2. status[receipt[c]] \in {"STOPPING", "CANCELLED"} /\ stopSignal[receipt[c]]
      BY <1>2 DEF CancelWins
    <3>3. status'[receipt[c]] \in {"STOPPING", "CANCELLED"}
      BY <1>2, <3>1, <3>2, StatusStep DEF Moves, Confirms, Absorbs, Terminal
    <3>4. stopSignal'[receipt[c]]
      BY <1>2, <3>1, <3>2, SignalStep
    <3>5. QED
      BY <1>2, <3>3, <3>4 DEF CancelWins
  <2>2. ASSUME NEW c \in Cancellers, NEW r \in Runs, Cancel(c, r) PROVE CancelWins'
    <3>1. \A d \in Cancellers : receipt[d] # r
      BY <1>2, <2>2, NoneAssumption DEF CancelWins, Cancel
    <3>2. /\ receipt'[c] = r
          /\ \A d \in Cancellers \ {c} : receipt'[d] = receipt[d]
      BY <1>2, <2>2 DEF Cancel, TypeOK, CommandType
    <3>3. status'[r] \in {"STOPPING", "CANCELLED"} /\ stopSignal'[r]
      BY <1>2, <2>2 DEF Cancel, TypeOK, RowType
    <3>4. \A q \in Runs \ {r} : status'[q] = status[q] /\ stopSignal'[q] = stopSignal[q]
      BY <1>2, <2>2 DEF Cancel, TypeOK, RowType
    <3>5. \A d \in Cancellers \ {c} : receipt[d] # None => receipt[d] \in Runs \ {r}
      BY <1>2, <3>1 DEF TypeOK, CommandType
    <3>6. QED
      BY <1>2, <3>1, <3>2, <3>3, <3>4, <3>5 DEF CancelWins
  <2>3. QED
    BY <1>2, <2>1, <2>2, ReceiptStep
<1>3. QED
  BY <1>1, <1>2, TypeCorrect, PTL DEF Spec

-----------------------------------------------------------------------------
(* What a canceller has read *)

(* A row that is written gets a new version.                               *)
Counted(q) ==
  status[q] # "absent" =>
    /\ status'[q] # "absent"
    /\ version'[q] > version[q] \/ (version'[q] = version[q] /\ status'[q] = status[q])

(* The helpers count the version up with every status they set.            *)
LEMMA SetStatusCounts ==
  ASSUME TypeOK, NEW q \in Runs, NEW r \in Runs, NEW s \in Statuses, NEW h \in BOOLEAN,
         SetStatus(r, s, h)
  PROVE  Counted(q)
  BY DEF SetStatus, Counted, TypeOK, RowType, Statuses, Active, Terminal

(* So does the confirmation of a stop, if there is one.                    *)
LEMMA CompleteStoppingCounts ==
  ASSUME TypeOK, NEW q \in Runs, NEW r \in Runs, CompleteStopping(r) PROVE Counted(q)
<1>1. CASE SetStatus(r, "CANCELLED", FALSE)
  BY <1>1, SetStatusCounts DEF Statuses, Terminal
<1>2. CASE UNCHANGED row
  BY <1>2 DEF row, Counted, TypeOK, RowType
<1> QED
  BY <1>1, <1>2 DEF CompleteStopping

(* No step changes the status of a run and not its version.                *)
LEMMA VersionStep ==
  ASSUME TypeOK, [Next]_vars, NEW q \in Runs PROVE Counted(q)
<1>1. ASSUME UNCHANGED <<status, version>> PROVE Counted(q)
  BY <1>1 DEF Counted, TypeOK, RowType
<1>2. ASSUME NEW s \in Starters, NEW r \in Runs, StartInsert(s, r) PROVE Counted(q)
  BY <1>2 DEF StartInsert, Counted, TypeOK, RowType
<1>3. ASSUME NEW c \in Cancellers, NEW r \in Runs, Cancel(c, r) PROVE Counted(q)
  BY <1>3 DEF Cancel, Counted, TypeOK, RowType
<1>4. ASSUME NEW r \in Runs, Dispatch(r) PROVE Counted(q)
  BY <1>1, <1>4, SetStatusCounts DEF Dispatch, row, Statuses
<1>5. ASSUME NEW r \in Runs, Validate(r) PROVE Counted(q)
  BY <1>1, <1>5, SetStatusCounts DEF Validate, Refuse, row, Statuses, Active, Terminal
<1>6. ASSUME NEW r \in Runs, Recheck(r) \/ Begin(r) PROVE Counted(q)
  BY <1>1, <1>6, SetStatusCounts DEF Recheck, Begin, Refuse, row, Statuses, Terminal
<1>7. ASSUME NEW r \in Runs, CheckStop(r) PROVE Counted(q)
  BY <1>1, <1>7, CompleteStoppingCounts DEF CheckStop, Halt, row
<1>8. ASSUME NEW r \in Runs, RecordApi(r) PROVE Counted(q)
  BY <1>8, SetStatusCounts, CompleteStoppingCounts DEF RecordApi, Halt, Statuses, Active
<1>9. ASSUME NEW r \in Runs, RecordUnsupported(r) PROVE Counted(q)
  BY <1>1, <1>9, SetStatusCounts DEF RecordUnsupported, row, Statuses, Active
<1>10. ASSUME NEW r \in Runs, WorkerRecord(r) PROVE Counted(q)
  BY <1>1, <1>10, SetStatusCounts DEF WorkerRecord, row, Statuses, Active
<1>11. ASSUME NEW r \in Runs, AwaitWorker(r) PROVE Counted(q)
  BY <1>11, SetStatusCounts, CompleteStoppingCounts DEF AwaitWorker, Halt, Statuses, Active
<1>12. ASSUME NEW r \in Runs, Finish(r) PROVE Counted(q)
  BY <1>12, SetStatusCounts, CompleteStoppingCounts DEF Finish, Statuses, Terminal
<1>13. ASSUME NEW r \in Runs, EvaluateGate(r) PROVE Counted(q)
  BY <1>1, <1>13 DEF EvaluateGate, row, Counted, TypeOK, RowType
<1>14. CASE Sweep
  <2>1. status'[q] = Swept(q)
    BY <1>14 DEF Sweep
  <2>2. version'[q] = IF Swept(q) # status[q] THEN version[q] + 1 ELSE version[q]
    BY <1>14 DEF Sweep
  <2>3. Swept(q) = "absent" => status[q] = "absent"
    BY DEF Swept
  <2> QED
    BY <2>1, <2>2, <2>3 DEF Counted, TypeOK, RowType
<1> QED
  <2>1. \A s \in Starters : Starting(s) => Counted(q)
    BY <1>1, <1>2 DEF Starting, StartLookup, StartDuplicate, row
  <2>2. \A c \in Cancellers : Cancelling(c) => Counted(q)
    BY <1>1, <1>3 DEF Cancelling, Look, row
  <2>3. \A r \in Runs : Executing(r) => Counted(q)
    BY <1>1, <1>4, <1>5, <1>6, <1>7, <1>8, <1>9, <1>11, <1>12, <1>13
       DEF Executing, RequestRaises, SpawnWorker, PrepareTriage, Triage, row
  <2>4. \A r \in Runs : Browsing(r) \/ Age(r) => Counted(q)
    BY <1>1, <1>10 DEF Browsing, WorkerCheck, WorkerFail, Age, row
  <2>5. Crash \/ UNCHANGED vars => Counted(q)
    BY <1>1 DEF Crash, row, vars
  <2> QED
    BY <1>14, <2>1, <2>2, <2>3, <2>4, <2>5 DEF Next

(* A view whose version is the row's says what the row says.               *)
ViewTrue(c) ==
  LET r == view[c].run IN
    r # None =>
      /\ status[r] # "absent" /\ view[c].version <= version[r]
      /\ view[c].version = version[r] => view[c].status = status[r]

(* Views are taken by Look alone.                                          *)
LEMMA ViewStep ==
  ASSUME [Next]_vars
  PROVE  UNCHANGED view \/ \E c \in Cancellers, r \in Runs : Look(c, r)
<1>1. \A s \in Starters : Starting(s) => UNCHANGED view
  BY DEF Starting, StartLookup, StartInsert, StartDuplicate
<1>2. \A c \in Cancellers, r \in Runs : Cancel(c, r) => UNCHANGED view
  BY DEF Cancel
<1>3. \A r \in Runs : Executing(r) => UNCHANGED view
  BY DEF Executing, Dispatch, Validate, Recheck, Begin, CheckStop, RecordApi,
         RequestRaises, RecordUnsupported, SpawnWorker, AwaitWorker, Finish, PrepareTriage, Triage,
         EvaluateGate
<1>4. \A r \in Runs : Browsing(r) \/ Age(r) => UNCHANGED view
  BY DEF Browsing, WorkerCheck, WorkerRecord, WorkerFail, Age
<1>5. Sweep \/ Crash \/ UNCHANGED vars => UNCHANGED view
  BY DEF Sweep, Crash, vars
<1> QED
  BY <1>1, <1>2, <1>3, <1>4, <1>5 DEF Next, Cancelling

(* What a canceller read stays true as long as the version is the same.    *)
LEMMA ViewsTrue == Spec => [](\A c \in Cancellers : ViewTrue(c))
<1>1. Init => \A c \in Cancellers : ViewTrue(c)
  BY DEF Init, NoView, ViewTrue
<1>2. ASSUME TypeOK, TypeOK', \A c \in Cancellers : ViewTrue(c), [Next]_vars
      PROVE  (\A c \in Cancellers : ViewTrue(c))'
  <2> TAKE c \in Cancellers
  <2>1. CASE view'[c] = view[c]
    <3>1. CASE view[c].run = None
      BY <2>1, <3>1 DEF ViewTrue
    <3>2. CASE view[c].run # None
      <4>1. view[c].run \in Runs /\ view[c].version \in Nat
        BY <1>2, <3>2 DEF TypeOK, CommandType
      <4>2. Counted(view[c].run)
        BY <1>2, <4>1, VersionStep
      <4>3. version[view[c].run] \in Nat /\ version'[view[c].run] \in Nat
        BY <1>2, <4>1 DEF TypeOK, RowType
      <4> QED
        BY <1>2, <2>1, <3>2, <4>1, <4>2, <4>3 DEF ViewTrue, Counted
    <3> QED
      BY <3>1, <3>2
  <2>2. ASSUME NEW r \in Runs, Look(c, r) PROVE ViewTrue(c)'
    BY <1>2, <2>2 DEF Look, row, ViewTrue, TypeOK, RowType, CommandType
  <2> QED
    BY <1>2, <2>1, <2>2, ViewStep DEF Look, TypeOK, CommandType
<1> QED
  BY <1>1, <1>2, TypeCorrect, PTL DEF Spec

(* An accepted cancel acts on the very state its caller had read.          *)
THEOREM CancelActsOnWhatItReadHolds == Spec => CancelActsOnWhatItRead
<1>1. TypeOK /\ (\A c \in Cancellers : ViewTrue(c)) /\ [Next]_vars =>
        [\A c \in Cancellers : receipt'[c] # receipt[c] =>
           status[receipt'[c]] = view[c].status]_vars
  <2> SUFFICES ASSUME TypeOK, \A c \in Cancellers : ViewTrue(c), [Next]_vars,
                      NEW c \in Cancellers, receipt'[c] # receipt[c]
               PROVE  status[receipt'[c]] = view[c].status
    OBVIOUS
  <2>1. PICK d \in Cancellers, r \in Runs : Cancel(d, r)
    BY ReceiptStep
  <2>2. d = c /\ receipt'[c] = r
    BY <2>1 DEF Cancel, TypeOK, CommandType
  <2> QED
    BY <2>1, <2>2, NoneAssumption DEF Cancel, ViewTrue
<1> QED
  BY <1>1, TypeCorrect, ViewsTrue, PTL DEF Spec, CancelActsOnWhatItRead

-----------------------------------------------------------------------------
(* The start command *)

(* A record names a run that is there; a request that goes on to the       *)
(* insert, or was answered, is about a key and a body.                     *)
Recorded ==
  /\ \A k \in Keys : record[k].run # None => status[record[k].run] # "absent"
  /\ \A k \in Keys : record[k].run = None <=> record[k].body = None
  /\ \A s \in Starters : start[s].pc \in {"insert", "replied"} =>
       start[s].key \in Keys /\ start[s].body \in Bodies

Started == StartOnce /\ Recorded

(* Requests and records are touched by the start command alone, and by the *)
(* process that dies with the requests it was serving.                     *)
LEMMA StartStep ==
  ASSUME [Next]_vars
  PROVE  \/ UNCHANGED <<record, start>>
         \/ \E s \in Starters : Starting(s)
         \/ Crash
<1>1. \A c \in Cancellers, r \in Runs : Look(c, r) \/ Cancel(c, r) => UNCHANGED <<record, start>>
  BY DEF Look, Cancel
<1>2. \A r \in Runs : Executing(r) => UNCHANGED <<record, start>>
  BY DEF Executing, Dispatch, Validate, Recheck, Begin, CheckStop, RecordApi,
         RequestRaises, RecordUnsupported, SpawnWorker, AwaitWorker, Finish, PrepareTriage, Triage,
         EvaluateGate
<1>3. \A r \in Runs : Browsing(r) \/ Age(r) => UNCHANGED <<record, start>>
  BY DEF Browsing, WorkerCheck, WorkerRecord, WorkerFail, Age
<1>4. Sweep \/ UNCHANGED vars => UNCHANGED <<record, start>>
  BY DEF Sweep, vars
<1> QED
  BY <1>1, <1>2, <1>3, <1>4 DEF Next, Cancelling

(* A run appears by the insert of a start command alone.                   *)
LEMMA AppearStep ==
  ASSUME TypeOK, [Next]_vars, NEW q \in Runs, status[q] = "absent", status'[q] # "absent",
         Bookkeeping
  PROVE  \E s \in Starters : StartInsert(s, q)
<1>1. task[q].pc = "none"
  BY DEF Bookkeeping, FreshTask
<1>2. worker[q] = "none"
  BY <1>1 DEF Bookkeeping, WorkerPlaced, TypeOK, ProcessType
<1>3. ASSUME UNCHANGED status PROVE FALSE
  BY <1>3
<1>4. ASSUME NEW s \in Starters, NEW r \in Runs, StartInsert(s, r) PROVE r = q
  BY <1>4 DEF StartInsert, TypeOK, RowType
<1>5. ASSUME NEW c \in Cancellers, NEW r \in Runs, Cancel(c, r) PROVE FALSE
  BY <1>5 DEF Cancel, TypeOK, RowType
<1>6. ASSUME NEW r \in Runs, NEW s \in Statuses, NEW h \in BOOLEAN, SetStatus(r, s, h), r # q
      PROVE  FALSE
  BY <1>6 DEF SetStatus, TypeOK, RowType
<1>7. ASSUME NEW r \in Runs, CompleteStopping(r) PROVE FALSE
  BY <1>7 DEF CompleteStopping, SetStatus, row, TypeOK, RowType
<1>8. ASSUME NEW r \in Runs, Executing(r) PROVE FALSE
  <2>1. r # q
    BY <1>1, <1>8 DEF Executing, Dispatch, Validate, Recheck, Begin, CheckStop, RecordApi,
         RequestRaises, RecordUnsupported, SpawnWorker, AwaitWorker, Finish, PrepareTriage, Triage,
         EvaluateGate
  <2>2. {"VALIDATING", "FAILED", "RUNNING", "SUCCEEDED"} \subseteq Statuses
    BY DEF Statuses, Active, Terminal
  <2>3. \/ UNCHANGED status \/ CompleteStopping(r)
        \/ \E s \in {"VALIDATING", "FAILED", "RUNNING", "SUCCEEDED"}, h \in BOOLEAN : SetStatus(r, s, h)
    <3>1. Dispatch(r) \/ Validate(r) \/ Recheck(r) \/ Begin(r) =>
            \/ UNCHANGED status
            \/ \E s \in {"VALIDATING", "FAILED", "RUNNING"}, h \in BOOLEAN : SetStatus(r, s, h)
      BY DEF Dispatch, Validate, Recheck, Begin, Refuse, row
    <3>2. CheckStop(r) \/ RecordApi(r) \/ RecordUnsupported(r) \/ AwaitWorker(r) =>
            UNCHANGED status \/ CompleteStopping(r) \/ SetStatus(r, "RUNNING", TRUE)
      BY DEF CheckStop, RecordApi, RecordUnsupported, AwaitWorker, Halt, row
    <3>3. Finish(r) =>
            \/ CompleteStopping(r)
            \/ SetStatus(r, "SUCCEEDED", FALSE) \/ SetStatus(r, "FAILED", FALSE)
      BY DEF Finish
    <3>4. RequestRaises(r) \/ SpawnWorker(r) \/ PrepareTriage(r) \/ Triage(r) \/ EvaluateGate(r) =>
            UNCHANGED status
      BY DEF RequestRaises, SpawnWorker, PrepareTriage, Triage, EvaluateGate, row
    <3> QED
      BY <1>8, <3>1, <3>2, <3>3, <3>4 DEF Executing
  <2> QED
    BY <1>3, <1>6, <1>7, <2>1, <2>2, <2>3
<1>9. ASSUME NEW r \in Runs, Browsing(r) \/ Age(r) PROVE FALSE
  <2>1. CASE WorkerRecord(r)
    <3>1. r # q
      BY <1>2, <2>1 DEF WorkerRecord
    <3> QED
      BY <1>3, <1>6, <2>1, <3>1 DEF WorkerRecord, row, Statuses, Active
  <2> QED
    BY <1>3, <1>9, <2>1 DEF Browsing, WorkerCheck, WorkerFail, Age, row
<1>10. CASE Sweep
  BY <1>10 DEF Sweep, Swept
<1> QED
  <2>1. \A s \in Starters : Starting(s) => StartInsert(s, q) \/ UNCHANGED status
    BY <1>4 DEF Starting, StartLookup, StartDuplicate, row
  <2>2. \A c \in Cancellers : Cancelling(c) => UNCHANGED status
    BY <1>5 DEF Cancelling, Look, row
  <2>3. Crash \/ UNCHANGED vars => UNCHANGED status
    BY DEF Crash, row, vars
  <2> QED
    BY <1>3, <1>8, <1>9, <1>10, <2>1, <2>2, <2>3 DEF Next

(* The three ways on of a start request keep its promise.                  *)
LEMMA StartLookupKept ==
  ASSUME TypeOK, Started, NEW s \in Starters, NEW k \in Keys, NEW b \in Bodies, StartLookup(s, k, b)
  PROVE  Started'
<1>1. /\ start'[s].key = k /\ start'[s].body = b
      /\ start'[s].pc = IF record[k].run = None THEN "insert"
                        ELSE IF record[k].body = b THEN "replied" ELSE "conflict"
      /\ start'[s].run = IF record[k].body = b THEN record[k].run ELSE None
      /\ \A p \in Starters : p # s => start'[p] = start[p]
      /\ UNCHANGED <<record, status>>
  BY DEF StartLookup, row, TypeOK, CommandType
<1>2. start'[s].pc = "replied" => record[k] = [run |-> start'[s].run, body |-> b]
  BY <1>1 DEF TypeOK, CommandType
<1>3. StartOnce'
  BY <1>1, <1>2 DEF Started, StartOnce
<1>4. Recorded'
  BY <1>1 DEF Started, Recorded
<1> QED
  BY <1>3, <1>4 DEF Started

LEMMA StartInsertKept ==
  ASSUME TypeOK, Started, NEW s \in Starters, NEW r \in Runs, StartInsert(s, r)
  PROVE  Started'
<1>1. start[s].key \in Keys /\ start[s].body \in Bodies
  BY DEF StartInsert, Started, Recorded
<1> DEFINE k == start[s].key
<1>2. /\ record'[k] = [run |-> r, body |-> start[s].body]
      /\ \A j \in Keys : j # k => record'[j] = record[j]
      /\ record[k].run = None /\ status[r] = "absent"
  BY <1>1 DEF StartInsert, TypeOK, CommandType
<1>3. /\ start'[s].pc = "replied" /\ start'[s].run = r
      /\ start'[s].key = k /\ start'[s].body = start[s].body
      /\ \A p \in Starters : p # s => start'[p] = start[p]
  BY DEF StartInsert, TypeOK, CommandType
<1>4. status'[r] = "PENDING" /\ \A q \in Runs : q # r => status'[q] = status[q]
  BY DEF StartInsert, TypeOK, RowType
<1>5. \A j \in Keys : record[j].run # r /\ record[j].run \in Runs \cup {None}
  BY <1>2, NoneAssumption DEF Started, Recorded, TypeOK, CommandType
<1>6. \A p \in Starters : p # s /\ start[p].pc = "replied" => start[p].key # k
  <2> SUFFICES ASSUME NEW p \in Starters, start[p].pc = "replied", start[p].key = k PROVE FALSE
    OBVIOUS
  <2>1. start[p].body \in Bodies /\ record[k] = [run |-> start[p].run, body |-> start[p].body]
    BY DEF Started, StartOnce, Recorded
  <2>2. record[k].body = None
    BY <1>1, <1>2 DEF Started, Recorded
  <2> QED
    BY <2>1, <2>2, NoneAssumption
<1>7. StartOnce'
  <2>1. \A p \in Starters : start'[p].pc = "replied" =>
          record'[start'[p].key] = [run |-> start'[p].run, body |-> start'[p].body]
    <3> TAKE p \in Starters
    <3>1. CASE p = s
      BY <1>2, <1>3, <3>1
    <3>2. CASE p # s
      BY <1>2, <1>3, <1>6, <3>2 DEF Started, StartOnce, Recorded
    <3> QED
      BY <3>1, <3>2
  <2>2. \A i, j \in Keys : record'[i].run # None /\ record'[i].run = record'[j].run => i = j
    BY <1>2, <1>5 DEF Started, StartOnce
  <2>3. \A q \in Runs : status'[q] # "absent" => \E j \in Keys : record'[j].run = q
    <3> SUFFICES ASSUME NEW q \in Runs, status'[q] # "absent" PROVE \E j \in Keys : record'[j].run = q
      OBVIOUS
    <3>1. CASE q = r
      BY <1>1, <1>2, <3>1
    <3>2. CASE q # r
      <4>1. PICK j \in Keys : record[j].run = q
        BY <1>4, <3>2 DEF Started, StartOnce
      <4>2. j # k
        BY <1>2, <4>1, NoneAssumption
      <4> QED
        BY <1>2, <4>1, <4>2
    <3> QED
      BY <3>1, <3>2
  <2> QED
    BY <2>1, <2>2, <2>3 DEF StartOnce
<1>8. Recorded'
  <2>1. \A j \in Keys : record'[j].run # None => status'[record'[j].run] # "absent"
    BY <1>2, <1>4, <1>5 DEF Started, Recorded
  <2>2. \A j \in Keys : record'[j].run = None <=> record'[j].body = None
    BY <1>1, <1>2, NoneAssumption DEF Started, Recorded
  <2>3. \A p \in Starters : start'[p].pc \in {"insert", "replied"} =>
          start'[p].key \in Keys /\ start'[p].body \in Bodies
    BY <1>1, <1>3 DEF Started, Recorded
  <2> QED
    BY <2>1, <2>2, <2>3 DEF Recorded
<1> QED
  BY <1>7, <1>8 DEF Started

(* A start is done once per key, for the body it was first given with, and *)
(* no run is there that no record accounts for.                            *)
THEOREM StartOnceHolds == Spec => []StartOnce
<1>1. Init => Started
  BY NoneAssumption DEF Init, NoRequest, Started, StartOnce, Recorded
<1>2. ASSUME TypeOK, Bookkeeping, Started, [Next]_vars PROVE Started'
  <2>1. ASSUME UNCHANGED record,
               \A s \in Starters : \/ start'[s] = start[s]
                                   \/ start'[s].pc \notin {"insert", "replied"},
               ~ \E s \in Starters, r \in Runs : StartInsert(s, r)
        PROVE  Started'
    <3>1. \A q \in Runs : status'[q] = "absent" <=> status[q] = "absent"
      BY <1>2, <2>1, AppearStep, VersionStep DEF Counted
    <3>2. \A k \in Keys : record[k].run \in Runs \cup {None}
      BY <1>2 DEF TypeOK, CommandType
    <3>3. StartOnce'
      BY <1>2, <2>1, <3>1, <3>2 DEF Started, StartOnce
    <3>4. Recorded'
      BY <1>2, <2>1, <3>1, <3>2 DEF Started, Recorded
    <3> QED
      BY <3>3, <3>4 DEF Started
  <2>2. ASSUME NEW s \in Starters, StartDuplicate(s), ~ \E p \in Starters, r \in Runs : StartInsert(p, r)
        PROVE  Started'
    BY <1>2, <2>1, <2>2 DEF StartDuplicate, TypeOK, CommandType
  <2>3. ASSUME Crash, ~ \E p \in Starters, r \in Runs : StartInsert(p, r) PROVE Started'
    BY <1>2, <2>1, <2>3 DEF Crash, TypeOK, CommandType
  <2>4. ASSUME UNCHANGED <<record, start>>, ~ \E p \in Starters, r \in Runs : StartInsert(p, r)
        PROVE  Started'
    BY <2>1, <2>4
  <2> QED
    BY <1>2, <2>2, <2>3, <2>4, StartStep, StartLookupKept, StartInsertKept DEF Starting
<1>3. Started => StartOnce
  BY DEF Started
<1> QED
  BY <1>1, <1>2, <1>3, TypeCorrect, BookkeepingHolds, PTL DEF Spec

-----------------------------------------------------------------------------
(* The gate *)

(* A set of cases is finite, and full marks meet every threshold.          *)
LEMMA FullMarks ==
  ASSUME NEW r \in Runs, \A c \in Cases : result[r][c] = "passed" PROVE PassRateMet(r)
<1>1. Rows(r) = Cases /\ RowsWith(r, "passed") = Cases
  BY DEF Rows, RowsWith
<1>2. IsFiniteSet(Cases) /\ Cardinality(Cases) = NumCases
  BY NumCasesAssumption, FS_Interval DEF Cases
<1>3. NumCases * 100 >= MinPassRate * NumCases
  <2>1. NumCases \in Nat /\ MinPassRate \in Nat /\ MinPassRate <= 100
    BY NumCasesAssumption, MinPassRateAssumption
  <2>2. \A n, m \in Nat : m <= 100 => n * 100 >= m * n
    OBVIOUS
  <2> QED
    BY <2>1, <2>2
<1> QED
  BY <1>1, <1>2, <1>3, NumCasesAssumption DEF PassRateMet

(* An evaluation is attached by EvaluateGate alone.                        *)
LEMMA GateStep ==
  ASSUME [Next]_vars
  PROVE  UNCHANGED gate \/ \E r \in Runs : EvaluateGate(r)
<1>1. \A s \in Starters : Starting(s) => UNCHANGED gate
  BY DEF Starting, StartLookup, StartInsert, StartDuplicate
<1>2. \A c \in Cancellers, r \in Runs : Look(c, r) \/ Cancel(c, r) => UNCHANGED gate
  BY DEF Look, Cancel
<1>3. \A r \in Runs : Executing(r) => UNCHANGED gate \/ EvaluateGate(r)
  BY DEF Executing, Dispatch, Validate, Recheck, Begin, CheckStop, RecordApi,
         RequestRaises, RecordUnsupported, SpawnWorker, AwaitWorker, Finish, PrepareTriage, Triage
<1>4. \A r \in Runs : Browsing(r) \/ Age(r) => UNCHANGED gate
  BY DEF Browsing, WorkerCheck, WorkerRecord, WorkerFail, Age
<1>5. Sweep \/ Crash \/ UNCHANGED vars => UNCHANGED gate
  BY DEF Sweep, Crash, vars
<1> QED
  BY <1>1, <1>2, <1>3, <1>4, <1>5 DEF Next, Cancelling

(* The gate speaks on a concluded run only, and never fails a run that     *)
(* SUCCEEDED: it reads, in a later transaction, the results of the verdict.*)
THEOREM GateOnVerdictHolds == Spec => []GateOnVerdict
<1>1. Init => GateOnVerdict
  BY DEF Init, GateOnVerdict
<1>2. ASSUME TypeOK, TypeOK', NoFalseGreen, GateOnVerdict, [Next]_vars PROVE GateOnVerdict'
  <2> SUFFICES ASSUME NEW q \in Runs, gate'[q] # "none"
               PROVE  /\ status'[q] \in {"SUCCEEDED", "FAILED"}
                      /\ status'[q] = "SUCCEEDED" => gate'[q] = "pass"
    BY DEF GateOnVerdict
  <2>1. CASE gate'[q] = gate[q]
    BY <1>2, <2>1, StatusStep DEF GateOnVerdict, Moves, Absorbs, Terminal
  <2>2. CASE gate'[q] # gate[q]
    <3>1. PICK r \in Runs : EvaluateGate(r)
      BY <1>2, <2>2, GateStep
    <3>2. r = q /\ status[q] \in {"SUCCEEDED", "FAILED"} /\ UNCHANGED status
          /\ gate'[q] = IF PassRateMet(q) THEN "pass" ELSE "fail"
      BY <1>2, <2>2, <3>1 DEF EvaluateGate, TypeOK, EvidenceType
    <3>3. status[q] = "SUCCEEDED" => PassRateMet(q)
      BY <1>2, FullMarks DEF NoFalseGreen
    <3> QED
      BY <3>2, <3>3
  <2> QED
    BY <2>1, <2>2
<1> QED
  BY <1>1, <1>2, TypeCorrect, NoFalseGreenHolds, PTL DEF Spec

-----------------------------------------------------------------------------
(* A task that returns *)

(* Who has the stop signal is being stopped, or cancelled.                 *)
Signalled == \A q \in Runs : stopSignal[q] => status[q] \in {"STOPPING", "CANCELLED"}

LEMMA SignalledHolds == Spec => []Signalled
<1>1. Init => Signalled
  BY DEF Init, Signalled
<1>2. ASSUME TypeOK, Signalled, [Next]_vars PROVE Signalled'
  <2> SUFFICES ASSUME NEW q \in Runs, stopSignal'[q] PROVE status'[q] \in {"STOPPING", "CANCELLED"}
    BY DEF Signalled
  <2>1. CASE stopSignal[q]
    BY <1>2, <2>1, StatusStep DEF Signalled, Moves, Confirms, Absorbs, Terminal
  <2>2. CASE ~stopSignal[q]
    <3>1. PICK c \in Cancellers, r \in Runs : Cancel(c, r)
      BY <1>2, <2>2, SignalSource
    <3> QED
      BY <1>2, <2>2, <3>1 DEF Cancel, TypeOK, RowType
  <2> QED
    BY <2>1, <2>2
<1> QED
  BY <1>1, <1>2, TypeCorrect, PTL DEF Spec

(* Where a task stands says how far its run can be.                        *)
Placed(q) ==
  LET over == Terminal \cup {"STOPPING"} IN
    /\ task[q].pc = "queued" => status[q] \in {"PENDING", "CANCELLED"}
    /\ task[q].pc = "validate" => status[q] \in {"VALIDATING"} \cup over
    /\ task[q].pc \in {"recheck", "begin"} \cup Driving => status[q] \in {"RUNNING"} \cup over
    /\ task[q].pc \in {"triage", "cluster", "gate", "done"} => status[q] \in over

(* Nobody but its task takes a run into VALIDATING or RUNNING, and nobody  *)
(* who is not its task leaves VALIDATING.                                  *)
MovedByOthers(q) ==
  \/ status'[q] = status[q]
  \/ status[q] = "PENDING" /\ status'[q] = "CANCELLED"
  \/ status[q] = "RUNNING" /\ status'[q] \in Terminal \cup {"STOPPING"}
  \/ status[q] = "STOPPING" /\ status'[q] = "CANCELLED"

LEMMA OthersPlaced ==
  ASSUME NEW q \in Runs, Placed(q), MovedByOthers(q), task'[q] = task[q] \/ task'[q].pc = "dead"
  PROVE  Placed(q)'
  BY DEF Placed, MovedByOthers, Terminal, Driving

(* The task itself goes on only as far as its run is.                      *)
LEMMA HaltPlaced ==
  ASSUME TypeOK, Signalled, NEW q \in Runs, NEW r \in Runs, Placed(q), Placed(r), Halt(r),
         task[r].pc \in Driving
  PROVE  Placed(q)'
<1>1. /\ task'[r].pc = "done" /\ status'[r] \in {status[r], "CANCELLED"}
      /\ \A p \in Runs \ {r} : task'[p] = task[p] /\ status'[p] = status[p]
  <2>1. task'[r] = [pc |-> "done", case |-> task[r].case, passed |-> task[r].passed]
    BY HaltEffect
  <2> QED
    BY <2>1, HaltEffect
<1>2. status[r] # "RUNNING"
  BY DEF Halt, Stopped, Signalled
<1> QED
  BY <1>1, <1>2 DEF Placed, Driving, Terminal

LEMMA TaskPlaced ==
  ASSUME TypeOK, Signalled, NEW q \in Runs, NEW r \in Runs, Placed(q), Placed(r), Executing(r)
  PROVE  Placed(q)'
<1>1. /\ task[r] \in [pc : Places, case : Cases, passed : BOOLEAN]
      /\ \A p \in Runs : p # q => task[p] \in [pc : Places, case : Cases, passed : BOOLEAN]
  BY DEF TypeOK, ProcessType
<1> USE DEF Placed, Driving, Terminal, TypeOK, RowType, ProcessType, row
<1>2. ASSUME Dispatch(r) PROVE Placed(q)'
  <2>1. CASE SetStatus(r, "VALIDATING", FALSE) /\ Goto(r, "validate")
    BY <2>1 DEF SetStatus, Goto
  <2>2. CASE status[r] = "CANCELLED" /\ UNCHANGED row /\ Goto(r, "done")
    BY <2>2 DEF Goto
  <2> QED
    BY <1>2, <2>1, <2>2 DEF Dispatch
<1>3. ASSUME Validate(r) PROVE Placed(q)'
  BY <1>3 DEF Validate, Refuse, SetStatus, Goto
<1>4. ASSUME Recheck(r) PROVE Placed(q)'
  BY <1>4 DEF Recheck, Refuse, SetStatus, Goto
<1>5. ASSUME Begin(r) PROVE Placed(q)'
  BY <1>5 DEF Begin, Refuse, SetStatus, Goto
<1>6. ASSUME CheckStop(r) PROVE Placed(q)'
  <2>1. CASE Halt(r)
    BY <1>6, <2>1, HaltPlaced DEF CheckStop
  <2>2. CASE UNCHANGED row /\ status[r] = "RUNNING" /\ \E p \in {"http", "spawn", "unsupported"} : Goto(r, p)
    BY <1>6, <2>2 DEF CheckStop, Goto
  <2> QED
    BY <1>6, <2>1, <2>2 DEF CheckStop
<1>7. ASSUME RecordApi(r) PROVE Placed(q)'
  <2>1. CASE Halt(r)
    BY <1>7, <2>1, HaltPlaced DEF RecordApi
  <2>2. CASE status[r] = "RUNNING" /\ SetStatus(r, "RUNNING", TRUE) /\ \E b \in BOOLEAN : NextCase(r, b)
    BY <1>7, <2>2 DEF RecordApi, SetStatus, NextCase
  <2> QED
    BY <1>7, <2>1, <2>2 DEF RecordApi
<1>raised. ASSUME RequestRaises(r) PROVE Placed(q)'
  BY <1>raised DEF RequestRaises, Goto
<1>8. ASSUME RecordUnsupported(r) PROVE Placed(q)'
  BY <1>8 DEF RecordUnsupported, SetStatus, NextCase
<1>9. ASSUME SpawnWorker(r) PROVE Placed(q)'
  BY <1>9 DEF SpawnWorker, Goto
<1>10. ASSUME AwaitWorker(r) PROVE Placed(q)'
  <2>1. CASE Halt(r)
    BY <1>10, <2>1, HaltPlaced DEF AwaitWorker
  <2>2. CASE status[r] = "RUNNING" /\ SetStatus(r, "RUNNING", TRUE) /\ \E b \in BOOLEAN : NextCase(r, b)
    BY <1>10, <2>2 DEF AwaitWorker, SetStatus, NextCase
  <2> QED
    BY <1>10, <2>1, <2>2 DEF AwaitWorker
<1>11. ASSUME Finish(r) PROVE Placed(q)'
  BY <1>11 DEF Finish, CompleteStopping, SetStatus, Goto
<1>12. ASSUME PrepareTriage(r) PROVE Placed(q)'
  <2>1. CASE status[r] \notin Terminal
    BY <1>12, <2>1 DEF PrepareTriage, Goto
  <2>2. CASE status[r] \in Terminal /\ (Goto(r, "gate") \/ Goto(r, "cluster"))
    BY <1>12, <2>2, ZenonT(40) DEF PrepareTriage, Goto
  <2> QED
    BY <1>12, <2>1, <2>2 DEF PrepareTriage
<1>13. ASSUME Triage(r) PROVE Placed(q)'
  BY <1>13 DEF Triage, Goto
<1>14. ASSUME EvaluateGate(r) PROVE Placed(q)'
  BY <1>14 DEF EvaluateGate, Goto
<1> QED
  BY <1>2, <1>3, <1>4, <1>5, <1>6, <1>7, <1>raised, <1>8, <1>9, <1>10, <1>11, <1>12,
     <1>13, <1>14
     DEF Executing

(* A task that returned by itself leaves its run ended or being stopped.   *)
THEOREM NothingAbandonedHolds == Spec => []NothingAbandoned
<1>1. Init => \A q \in Runs : Placed(q)
  BY DEF Init, NewTask, Placed, Driving
<1>2. ASSUME TypeOK, Signalled, \A q \in Runs : Placed(q), [Next]_vars
      PROVE  (\A q \in Runs : Placed(q))'
  <2> SUFFICES ASSUME NEW q \in Runs PROVE Placed(q)'
    OBVIOUS
  <2>1. ASSUME UNCHANGED <<status, task>> PROVE Placed(q)'
    BY <1>2, <2>1, OthersPlaced DEF MovedByOthers
  <2>2. \A s \in Starters : Starting(s) => Placed(q)'
    <3>1. ASSUME NEW s \in Starters, NEW r \in Runs, StartInsert(s, r) PROVE Placed(q)'
      <4>1. CASE q = r
        <5>1. status'[q] = "PENDING" /\ task'[q].pc = "queued"
          BY <1>2, <3>1, <4>1 DEF StartInsert, Goto, TypeOK, RowType, ProcessType
        <5> QED
          BY <5>1 DEF Placed, Driving
      <4>2. CASE q # r
        <5>1. status'[q] = status[q] /\ task'[q] = task[q]
          BY <1>2, <3>1, <4>2 DEF StartInsert, Goto, TypeOK, RowType, ProcessType
        <5> QED
          BY <1>2, <5>1, OthersPlaced DEF MovedByOthers
      <4> QED
        BY <4>1, <4>2
    <3> QED
      BY <2>1, <3>1 DEF Starting, StartLookup, StartDuplicate, row
  <2>3. \A c \in Cancellers : Cancelling(c) => Placed(q)'
    BY <1>2, <2>1, OthersPlaced
       DEF Cancelling, Look, Cancel, row, MovedByOthers, TypeOK, RowType
  <2>4. \A r \in Runs : Executing(r) => Placed(q)'
    BY <1>2, TaskPlaced
  <2>5. \A r \in Runs : Browsing(r) \/ Age(r) => Placed(q)'
    BY <1>2, <2>1, OthersPlaced
       DEF Browsing, WorkerCheck, WorkerRecord, WorkerFail, Age, SetStatus, row, MovedByOthers,
           TypeOK, RowType
  <2>6. Sweep => Placed(q)'
    BY <1>2, OthersPlaced DEF Sweep, Swept, MovedByOthers, Terminal
  <2>7. Crash => Placed(q)'
    BY <1>2, OthersPlaced DEF Crash, row, MovedByOthers, TypeOK, ProcessType, Places
  <2>8. UNCHANGED vars => Placed(q)'
    BY <2>1 DEF vars, row
  <2> QED
    BY <1>2, <2>2, <2>3, <2>4, <2>5, <2>6, <2>7, <2>8 DEF Next
<1>3. (\A q \in Runs : Placed(q)) => NothingAbandoned
  BY DEF Placed, NothingAbandoned
<1> QED
  BY <1>1, <1>2, <1>3, TypeCorrect, SignalledHolds, PTL DEF Spec
-----------------------------------------------------------------------------
(* TestRun implements RunContract, for every number of runs, keys, callers *)
(* and cases: what dispatcher, executor, browser worker, cancel command and*)
(* sweeper do to a run are the steps of its contract, or stutters.         *)

-----------------------------------------------------------------------------
(* A result is stored once *)

(* A case that is still to be driven has no result, and none is stored     *)
(* behind a worker that is still at work.                                  *)
Ahead(q) ==
  /\ task[q].pc \in Before => \A c \in Cases : result[q][c] = "none"
  /\ task[q].pc \in Driving \ {"final"} =>
       \A c \in Cases : c > task[q].case => result[q][c] = "none"
  /\ task[q].pc \in {"check", "http", "unsupported", "spawn"} => result[q][task[q].case] = "none"
  /\ worker[q] \in {"started", "browsing"} => result[q][task[q].case] = "none"

LEMMA AheadUntouched ==
  ASSUME NEW q \in Runs, Ahead(q), result'[q] = result[q],
         task'[q] = task[q] \/ (task'[q].pc \in After /\ task'[q].case = task[q].case),
         worker'[q] \in {worker[q], "none"}
  PROVE  Ahead(q)'
  BY DEF Ahead, Before, Driving, After

(* A case is done: the next one has no result yet.                         *)
LEMMA AheadNextCase ==
  ASSUME TypeOK, NEW r \in Runs, NEW b \in BOOLEAN, Ahead(r), NextCase(r, b),
         task[r].pc \in Driving \ {"final"}, worker'[r] = "none",
         \A c \in Cases : c # task[r].case => result'[r][c] = result[r][c]
  PROVE  Ahead(r)'
<1>1. task[r].case \in Cases /\ task[r].case \in Int /\ (\A c \in Cases : c \in Int) /\ NumCases \in Int
  BY NumCasesAssumption DEF TypeOK, ProcessType, Cases
<1>2. CASE task[r].case = NumCases
  <2>1. task'[r].pc = "final"
    BY <1>2, NextCaseEffect
  <2> QED
    BY <2>1 DEF Ahead, Before, Driving
<1>3. CASE task[r].case # NumCases
  <2>1. task'[r].pc = "check" /\ task'[r].case = task[r].case + 1
    BY <1>3, NextCaseEffect
  <2>2. \A c \in Cases : c > task[r].case => result[r][c] = "none"
    BY DEF Ahead
  <2>3. ASSUME NEW c \in Cases, c >= task[r].case + 1 PROVE result'[r][c] = "none"
    <3>1. c > task[r].case /\ c # task[r].case
      BY <1>1, <2>3
    <3> QED
      BY <2>2, <3>1
  <2>4. task'[r].case \in Cases
    BY <1>1, <1>3, <2>1 DEF Cases
  <2>5. result'[r][task'[r].case] = "none"
    BY <1>1, <2>1, <2>3, <2>4
  <2>6. \A c \in Cases : c > task'[r].case => result'[r][c] = "none"
    BY <1>1, <2>1, <2>3
  <2> QED
    BY <2>1, <2>5, <2>6 DEF Ahead, Before
<1> QED
  BY <1>2, <1>3

(* A task that moves, its case and its results as they are.                *)
LEMMA AheadGoto ==
  ASSUME TypeOK, NEW q \in Runs, NEW r \in Runs, NEW p \in Places, Ahead(q), Goto(r, p), FreshTask(r),
         result' = result, worker' = worker,
         \/ p \in After \cup {"final"}
         \/ task[r].pc \in Before /\ p \in Before \cup {"check"}
         \/ task[r].pc = "check" /\ p \in {"http", "unsupported", "spawn"}
  PROVE  Ahead(q)'
<1>1. task'[r] = [pc |-> p, case |-> task[r].case, passed |-> task[r].passed]
  BY GotoEffect
<1>2. q # r => task'[q] = task[q]
  BY GotoEffect
<1>3. CASE q # r
  BY <1>2, <1>3, AheadUntouched
<1>4. CASE q = r
  <2>1. task[r].case \in Cases
    BY DEF TypeOK, ProcessType
  <2>2. task'[r].pc = p /\ task'[r].case = task[r].case
    BY <1>1
  <2> QED
    BY <1>4, <2>1, <2>2 DEF Ahead, Before, Driving, After
<1> QED
  BY <1>3, <1>4

LEMMA AheadStep ==
  ASSUME TypeOK, Bookkeeping, NEW q \in Runs, Ahead(q), [Next]_vars PROVE Ahead(q)'
<1>0. \A r \in Runs : FreshTask(r) /\ WorkerPlaced(r)
  BY DEF Bookkeeping
<1>1. ASSUME UNCHANGED <<result, task, worker>> PROVE Ahead(q)'
  BY <1>1, AheadUntouched
<1>2. ASSUME NEW s \in Starters, NEW r \in Runs, StartInsert(s, r) PROVE Ahead(q)'
  <2>1. task[r].pc = "none"
    BY <1>0, <1>2 DEF StartInsert, FreshTask
  <2> QED
    BY <1>0, <1>2, <2>1, AheadGoto DEF StartInsert, Places, Before
<1>3. ASSUME NEW r \in Runs, Dispatch(r) \/ Validate(r) \/ Recheck(r) \/ Begin(r) PROVE Ahead(q)'
  BY <1>0, <1>3, AheadGoto DEF Dispatch, Validate, Recheck, Begin, Refuse, Places, Before, After
<1>4. ASSUME NEW r \in Runs, Halt(r), result' = result, worker'[r] = "none" \/ worker'[r] = worker[r],
             q # r => worker'[q] = worker[q]
      PROVE  Ahead(q)'
  <2>1. task'[r] = [pc |-> "done", case |-> task[r].case, passed |-> task[r].passed]
    BY <1>4, HaltEffect
  <2>2. q # r => task'[q] = task[q]
    BY <1>4, HaltEffect
  <2>3. task'[r].pc \in After /\ task'[r].case = task[r].case
    BY <2>1 DEF After
  <2> QED
    BY <1>4, <2>2, <2>3, AheadUntouched
<1>5. ASSUME NEW r \in Runs, CheckStop(r) PROVE Ahead(q)'
  <2>1. CASE Halt(r)
    BY <1>4, <1>5, <2>1 DEF CheckStop
  <2>2. ASSUME NEW p \in {"http", "unsupported", "spawn"}, Goto(r, p) PROVE Ahead(q)'
    BY <1>0, <1>5, <2>2, AheadGoto DEF CheckStop, Places
  <2> QED
    BY <1>5, <2>1, <2>2 DEF CheckStop
<1>6. ASSUME NEW r \in Runs, NEW b \in BOOLEAN, NextCase(r, b), task[r].pc \in Driving \ {"final"},
             worker'[r] = "none", q # r => worker'[q] = worker[q] /\ result'[q] = result[q],
             \A c \in Cases : c # task[r].case => result'[r][c] = result[r][c]
      PROVE  Ahead(q)'
  <2>1. q # r => task'[q] = task[q]
    BY <1>6, NextCaseEffect
  <2> QED
    BY <1>6, <2>1, AheadNextCase, AheadUntouched
<1>7. ASSUME NEW r \in Runs, NEW o \in Outcomes, Record(r, o)
      PROVE  /\ q # r => result'[q] = result[q]
             /\ \A c \in Cases : c # task[r].case => result'[r][c] = result[r][c]
  BY <1>7 DEF Record, TypeOK, EvidenceType, ProcessType
<1>8. ASSUME NEW r \in Runs, RecordApi(r) PROVE Ahead(q)'
  <2>1. worker[r] = "none" /\ worker' = worker
    BY <1>0, <1>8 DEF RecordApi, WorkerPlaced
  <2>2. CASE Halt(r) /\ UNCHANGED result
    BY <1>4, <2>1, <2>2
  <2>3. ASSUME NEW o \in Outcomes, Record(r, o), NextCase(r, o = "passed") PROVE Ahead(q)'
    BY <1>6, <1>7, <1>8, <2>1, <2>3 DEF RecordApi, Driving
  <2> QED
    BY <1>8, <2>2, <2>3 DEF RecordApi
<1>9. ASSUME NEW r \in Runs, RecordUnsupported(r) PROVE Ahead(q)'
  <2>1. worker[r] = "none" /\ worker' = worker /\ task[r].pc \in Driving \ {"final"}
    BY <1>0, <1>9 DEF RecordUnsupported, WorkerPlaced, Driving
  <2>2. CASE Record(r, "incomplete") /\ NextCase(r, FALSE)
    BY <1>6, <1>7, <2>1, <2>2 DEF Outcomes
  <2>3. CASE NextCase(r, TRUE) /\ UNCHANGED result
    BY <1>6, <2>1, <2>3
  <2> QED
    BY <1>9, <2>2, <2>3 DEF RecordUnsupported
<1>10. ASSUME NEW r \in Runs, SpawnWorker(r) PROVE Ahead(q)'
  <2>1. task'[r] = [pc |-> "await", case |-> task[r].case, passed |-> task[r].passed]
    BY <1>10, GotoEffect DEF SpawnWorker, Places
  <2>2. q # r => task'[q] = task[q]
    BY <1>10, GotoEffect DEF SpawnWorker, Places
  <2>3. task'[r].pc = "await" /\ task'[r].case = task[r].case
    BY <2>1
  <2>4. q # r => worker'[q] = worker[q]
    BY <1>10 DEF SpawnWorker, TypeOK, ProcessType
  <2> QED
    BY <1>10, <2>2, <2>3, <2>4 DEF SpawnWorker, Ahead, Before, Driving
<1>11. ASSUME NEW r \in Runs, AwaitWorker(r) PROVE Ahead(q)'
  <2>1. worker'[r] = "none" /\ (q # r => worker'[q] = worker[q]) /\ result' = result
    BY <1>11 DEF AwaitWorker, TypeOK, ProcessType
  <2>2. CASE Halt(r)
    BY <1>4, <2>1, <2>2
  <2>3. CASE NextCase(r, worker[r] = "exit0" /\ result[r][task[r].case] = "passed")
    BY <1>6, <1>11, <2>1, <2>3 DEF AwaitWorker, Driving
  <2> QED
    BY <1>11, <2>2, <2>3 DEF AwaitWorker
<1>12. ASSUME NEW r \in Runs,
              RequestRaises(r) \/ Finish(r) \/ PrepareTriage(r) \/ Triage(r) \/ EvaluateGate(r)
       PROVE  Ahead(q)'
  <2>1. /\ UNCHANGED <<result, worker>>
        /\ \E p \in {"triage", "cluster", "gate", "done", "raised"} : Goto(r, p)
    BY <1>12 DEF RequestRaises, Finish, PrepareTriage, Triage, EvaluateGate
  <2> QED
    BY <1>0, <2>1, AheadGoto DEF Places, After
<1>13. ASSUME NEW r \in Runs, WorkerCheck(r) \/ WorkerFail(r) PROVE Ahead(q)'
  BY <1>13 DEF WorkerCheck, WorkerFail, Ahead, TypeOK, ProcessType
<1>14. ASSUME NEW r \in Runs, WorkerRecord(r) PROVE Ahead(q)'
  <2>1. task[r].pc \in {"await", "dead"} /\ task' = task
    BY <1>0, <1>14 DEF WorkerRecord, WorkerPlaced
  <2>2. /\ q # r => result'[q] = result[q] /\ worker'[q] = worker[q]
        /\ \A c \in Cases : c # task[r].case => result'[r][c] = result[r][c]
        /\ worker'[r] = "exit0"
    BY <1>7, <1>14 DEF WorkerRecord, Outcomes, TypeOK, ProcessType
  <2>3. task[r].case \in Int /\ Cases \subseteq Int
    BY NumCasesAssumption DEF TypeOK, ProcessType, Cases
  <2> QED
    BY <2>1, <2>2, <2>3, AheadUntouched DEF Ahead, Before, Driving
<1>15. CASE Crash
  <2>1. task'[q] = task[q] \/ (task'[q].pc = "dead" /\ task'[q].case = task[q].case)
    BY <1>15 DEF Crash, TypeOK, ProcessType
  <2> QED
    BY <1>15, <2>1, AheadUntouched DEF Crash, After
<1> QED
  <2>1. \A s \in Starters : Starting(s) => Ahead(q)'
    BY <1>1, <1>2 DEF Starting, StartLookup, StartDuplicate
  <2>2. \A c \in Cancellers : Cancelling(c) => Ahead(q)'
    BY <1>1 DEF Cancelling, Look, Cancel
  <2>3. \A r \in Runs : Executing(r) => Ahead(q)'
    BY <1>3, <1>5, <1>8, <1>9, <1>10, <1>11, <1>12 DEF Executing
  <2>4. \A r \in Runs : Browsing(r) \/ Age(r) => Ahead(q)'
    BY <1>1, <1>13, <1>14 DEF Browsing, Age
  <2>5. Sweep \/ UNCHANGED vars => Ahead(q)'
    BY <1>1 DEF Sweep, vars
  <2> QED
    BY <1>15, <2>1, <2>2, <2>3, <2>4, <2>5 DEF Next

LEMMA AheadHolds == Spec => [](\A q \in Runs : Ahead(q))
<1>1. Init => \A q \in Runs : Ahead(q)
  BY DEF Init, NewTask, Ahead, Driving, Before
<1>2. TypeOK /\ Bookkeeping /\ (\A q \in Runs : Ahead(q)) /\ [Next]_vars => (\A q \in Runs : Ahead(q))'
  BY AheadStep
<1> QED
  BY <1>1, <1>2, TypeCorrect, BookkeepingHolds, PTL DEF Spec

-----------------------------------------------------------------------------
(* The refinement *)

Shown == [r \in Runs |-> ContractState(r)]

(* Every step touches the status and the results of one run at most, but   *)
(* for the sweeper's; what is added to the results hides none that is there.*)
OneRun(r) ==
  /\ \A q \in Runs : q # r => status'[q] = status[q] /\ result'[q] = result[q]
  /\ \A c \in Cases : result[r][c] # "none" => result'[r][c] = result[r][c]

(* What the contract sees of such a step.                                  *)
LEMMA OneRunShown ==
  ASSUME TypeOK, NEW r \in Runs, OneRun(r)
  PROVE  /\ Contract!Adds(r)
         /\ \A to : ContractState(r)' = to => Shown' = [Shown EXCEPT ![r] = to]
         /\ Shown[r] = ContractState(r)
<1>1. Contract!Adds(r)
  BY DEF OneRun, Contract!Adds
<1>2. \A q \in Runs : q # r => ContractState(q)' = ContractState(q)
  BY DEF OneRun, ContractState
<1>3. Shown' = [q \in Runs |-> ContractState(q)']
  BY DEF Shown
<1> QED
  BY <1>1, <1>2, <1>3 DEF Shown

(* A step that leaves the contract's view of the run, and all results,     *)
(* as they are.                                                            *)
LEMMA Stutters ==
  ASSUME TypeOK, NEW r \in Runs, OneRun(r), ContractState(r)' = ContractState(r), UNCHANGED result
  PROVE  UNCHANGED Contract!vars
<1>1. Shown' = [Shown EXCEPT ![r] = Shown[r]]
  BY OneRunShown
<1>2. Shown' = Shown
  BY <1>1 DEF Shown
<1> QED
  BY <1>2 DEF Contract!vars, Shown

LEMMA StatusKept ==
  ASSUME TypeOK, UNCHANGED <<status, result>> PROVE UNCHANGED Contract!vars
<1>1. \A r \in Runs : ContractState(r)' = ContractState(r)
  BY DEF ContractState
<1>2. Shown' = Shown
  BY <1>1 DEF Shown
<1> QED
  BY <1>2 DEF Contract!vars, Shown

(* A result is added, and the run not ended by it.                         *)
LEMMA Reports ==
  ASSUME TypeOK, NEW r \in Runs, OneRun(r), ContractState(r)' = ContractState(r),
         status[r] \notin {"absent", "SUCCEEDED", "FAILED"}
  PROVE  [Contract!Next]_Contract!vars
<1>1. Shown' = [Shown EXCEPT ![r] = Shown[r]]
  BY OneRunShown
<1>2. Shown' = Shown
  BY <1>1 DEF Shown
<1>3. Shown[r] \notin {"absent", "succeeded", "failed"}
  BY DEF Shown, ContractState, TypeOK, RowType, Statuses, Active, Terminal
<1>4. Contract!Report(r)
  BY <1>2, <1>3, OneRunShown DEF Contract!Report, Contract!Verdicts, Shown
<1> QED
  BY <1>4 DEF Contract!Next

(* The end of a run, or the stop of one, as the contract has it.           *)
LEMMA ConfirmShown ==
  ASSUME TypeOK, NEW r \in Runs, OneRun(r), status[r] = "STOPPING", status'[r] = "CANCELLED"
  PROVE  [Contract!Next]_Contract!vars
<1>1. ContractState(r) = "stopping" /\ ContractState(r)' = "cancelled"
  BY DEF ContractState
<1>2. Contract!Confirm(r)
  BY <1>1, OneRunShown DEF Contract!Confirm, Contract!Move, Shown
<1> QED
  BY <1>2 DEF Contract!Next

LEMMA FailureShown ==
  ASSUME TypeOK, NEW r \in Runs, OneRun(r), status[r] \in {"PENDING", "VALIDATING", "RUNNING"},
         status'[r] = "FAILED"
  PROVE  [Contract!Next]_Contract!vars
<1>1. ContractState(r) = "open" /\ ContractState(r)' = "failed"
  BY DEF ContractState
<1>2. Contract!Fail(r)
  BY <1>1, OneRunShown DEF Contract!Fail, Contract!Move, Shown
<1> QED
  BY <1>2 DEF Contract!Next

LEMMA SuccessShown ==
  ASSUME TypeOK, NEW r \in Runs, OneRun(r), status[r] = "RUNNING", status'[r] = "SUCCEEDED",
         \A c \in Cases : result'[r][c] = "passed"
  PROVE  [Contract!Next]_Contract!vars
<1>1. ContractState(r) = "open" /\ ContractState(r)' = "succeeded"
  BY DEF ContractState
<1>2. Contract!Succeed(r)
  BY <1>1, OneRunShown DEF Contract!Succeed, Contract!Move, Shown
<1> QED
  BY <1>2 DEF Contract!Next

-----------------------------------------------------------------------------
(* The actions *)

LEMMA SetStatusOneRun ==
  ASSUME TypeOK, NEW r \in Runs, NEW s \in Statuses, NEW h \in BOOLEAN, SetStatus(r, s, h)
  PROVE  status'[r] = s /\ \A q \in Runs : q # r => status'[q] = status[q]
  BY DEF SetStatus, TypeOK, RowType

(* A confirmed stop, or nothing.                                           *)
LEMMA CompleteStoppingShown ==
  ASSUME TypeOK, NEW r \in Runs, CompleteStopping(r), UNCHANGED result
  PROVE  [Contract!Next]_Contract!vars
<1>1. CASE status[r] = "STOPPING"
  <2>1. SetStatus(r, "CANCELLED", FALSE) /\ "CANCELLED" \in Statuses
    BY <1>1 DEF CompleteStopping, Statuses, Terminal
  <2>2. status'[r] = "CANCELLED" /\ OneRun(r)
    BY <2>1, SetStatusOneRun DEF OneRun
  <2> QED
    BY <1>1, <2>2, ConfirmShown
<1>2. CASE status[r] # "STOPPING"
  BY <1>2, StatusKept DEF CompleteStopping, row
<1> QED
  BY <1>1, <1>2

(* A run that fails before its first case.                                 *)
LEMMA RefuseShown ==
  ASSUME TypeOK, NEW r \in Runs, Refuse(r), status[r] \in {"VALIDATING", "RUNNING"}, UNCHANGED result
  PROVE  [Contract!Next]_Contract!vars
<1>1. status'[r] = "FAILED" /\ OneRun(r)
  BY SetStatusOneRun DEF Refuse, OneRun, Statuses, Terminal
<1> QED
  BY <1>1, FailureShown

(* A run that is accepted, dispatched, validated: open before and after.   *)
LEMMA OpenShown ==
  ASSUME TypeOK, NEW r \in Runs, NEW s \in {"VALIDATING", "RUNNING"}, NEW h \in BOOLEAN,
         SetStatus(r, s, h), status[r] \in {"PENDING", "VALIDATING", "RUNNING"}
  PROVE  /\ \A q \in Runs : q # r => status'[q] = status[q]
         /\ ContractState(r)' = ContractState(r)
<1>1. s \in Statuses
  BY DEF Statuses, Active
<1>2. status'[r] = s /\ \A q \in Runs : q # r => status'[q] = status[q]
  BY <1>1, SetStatusOneRun
<1> QED
  BY <1>2 DEF ContractState

(* A result is stored where there was none.                                *)
LEMMA RecordOneRun ==
  ASSUME TypeOK, NEW r \in Runs, NEW o \in Outcomes, Record(r, o),
         result[r][task[r].case] = "none", \A q \in Runs : q # r => status'[q] = status[q]
  PROVE  OneRun(r)
  BY DEF Record, OneRun, TypeOK, EvidenceType, ProcessType

LEMMA ExecutingShown ==
  ASSUME TypeOK, Bookkeeping, \A q \in Runs : Ahead(q), NEW r \in Runs, Executing(r)
  PROVE  [Contract!Next]_Contract!vars
<1>1. ASSUME UNCHANGED <<status, result>> PROVE [Contract!Next]_Contract!vars
  BY <1>1, StatusKept
<1>2. ASSUME NEW s \in {"VALIDATING", "RUNNING"}, NEW h \in BOOLEAN, SetStatus(r, s, h),
             status[r] \in {"PENDING", "VALIDATING", "RUNNING"}, UNCHANGED result
      PROVE  [Contract!Next]_Contract!vars
  <2>1. OneRun(r) /\ ContractState(r)' = ContractState(r)
    BY <1>2, OpenShown DEF OneRun
  <2> QED
    BY <1>2, <2>1, Stutters
<1>3. ASSUME NEW o \in Outcomes, Record(r, o), SetStatus(r, "RUNNING", TRUE), status[r] = "RUNNING",
             task[r].pc \in {"http", "unsupported"}
      PROVE  [Contract!Next]_Contract!vars
  <2>1. /\ \A q \in Runs : q # r => status'[q] = status[q]
        /\ ContractState(r)' = ContractState(r)
    BY <1>3, OpenShown
  <2>2. OneRun(r)
    BY <1>3, <2>1, RecordOneRun DEF Ahead
  <2> QED
    BY <1>3, <2>1, <2>2, Reports
<1>4. ASSUME Dispatch(r) PROVE [Contract!Next]_Contract!vars
  BY <1>1, <1>2, <1>4 DEF Dispatch, row
<1>5. ASSUME Validate(r) PROVE [Contract!Next]_Contract!vars
  BY <1>1, <1>2, <1>5, RefuseShown DEF Validate, row
<1>6. ASSUME Recheck(r) \/ Begin(r) PROVE [Contract!Next]_Contract!vars
  BY <1>1, <1>6, RefuseShown DEF Recheck, Begin, row
<1>7. ASSUME CheckStop(r) PROVE [Contract!Next]_Contract!vars
  BY <1>1, <1>7, CompleteStoppingShown DEF CheckStop, Halt, row
<1>8. ASSUME RecordApi(r) PROVE [Contract!Next]_Contract!vars
  BY <1>3, <1>8, CompleteStoppingShown DEF RecordApi, Halt
<1>9. ASSUME RecordUnsupported(r) PROVE [Contract!Next]_Contract!vars
  BY <1>1, <1>3, <1>9 DEF RecordUnsupported, Outcomes, row
<1>10. ASSUME AwaitWorker(r) PROVE [Contract!Next]_Contract!vars
  BY <1>2, <1>10, CompleteStoppingShown DEF AwaitWorker, Halt
<1>11. ASSUME Finish(r) PROVE [Contract!Next]_Contract!vars
  <2>1. CASE status[r] # "RUNNING"
    BY <1>11, <2>1, CompleteStoppingShown DEF Finish
  <2>2. CASE status[r] = "RUNNING" /\ task[r].passed
    <3>1. SetStatus(r, "SUCCEEDED", FALSE) /\ "SUCCEEDED" \in Statuses /\ UNCHANGED result
      BY <1>11, <2>2 DEF Finish, Statuses, Terminal
    <3>2. status'[r] = "SUCCEEDED" /\ OneRun(r)
      BY <3>1, SetStatusOneRun DEF OneRun
    <3>3. \A c \in Cases : result'[r][c] = "passed"
      BY <1>11, <2>2, <3>1 DEF Finish, Bookkeeping, MemoryTrue, Driving
    <3> QED
      BY <2>2, <3>2, <3>3, SuccessShown
  <2>3. CASE status[r] = "RUNNING" /\ ~task[r].passed
    <3>1. SetStatus(r, "FAILED", FALSE) /\ "FAILED" \in Statuses /\ UNCHANGED result
      BY <1>11, <2>3 DEF Finish, Statuses, Terminal
    <3>2. status'[r] = "FAILED" /\ OneRun(r)
      BY <3>1, SetStatusOneRun DEF OneRun
    <3> QED
      BY <2>3, <3>2, FailureShown
  <2> QED
    BY <2>1, <2>2, <2>3
<1>12. ASSUME RequestRaises(r) \/ SpawnWorker(r) \/ PrepareTriage(r) \/ Triage(r) \/ EvaluateGate(r)
       PROVE  [Contract!Next]_Contract!vars
  BY <1>1, <1>12 DEF RequestRaises, SpawnWorker, PrepareTriage, Triage, EvaluateGate, row
<1> QED
  BY <1>4, <1>5, <1>6, <1>7, <1>8, <1>9, <1>10, <1>11, <1>12 DEF Executing

(* A worker that stores its result: on a run that is open or being stopped,*)
(* cancelled or timed out, but never under a verdict.                      *)
LEMMA WorkerRecordShown ==
  ASSUME TypeOK, Bookkeeping, \A q \in Runs : Ahead(q), NEW r \in Runs, WorkerRecord(r)
  PROVE  [Contract!Next]_Contract!vars
<1>1. PICK o \in Outcomes : Record(r, o)
  BY DEF WorkerRecord, Outcomes
<1>2. status[r] \notin {"absent", "SUCCEEDED", "FAILED"}
  BY DEF WorkerRecord, Bookkeeping, WorkerPlaced, VerdictLast, FreshTask
<1>3. (\A q \in Runs : q # r => status'[q] = status[q]) /\ ContractState(r)' = ContractState(r)
  <2>1. CASE status[r] = "RUNNING"
    BY <2>1, OpenShown DEF WorkerRecord
  <2>2. CASE status[r] # "RUNNING"
    BY <2>2 DEF WorkerRecord, row, ContractState
  <2> QED
    BY <2>1, <2>2
<1>4. OneRun(r)
  BY <1>1, <1>3, RecordOneRun DEF WorkerRecord, Ahead
<1> QED
  BY <1>2, <1>3, <1>4, Reports

LEMMA StartInsertShown ==
  ASSUME TypeOK, NEW s \in Starters, NEW r \in Runs, StartInsert(s, r)
  PROVE  [Contract!Next]_Contract!vars
<1>1. OneRun(r) /\ status[r] = "absent" /\ status'[r] = "PENDING" /\ UNCHANGED result
  BY DEF StartInsert, OneRun, TypeOK, RowType
<1>2. ContractState(r) = "absent" /\ ContractState(r)' = "open"
  BY <1>1 DEF ContractState
<1>3. Contract!Accept(r)
  BY <1>1, <1>2, OneRunShown DEF Contract!Accept, Contract!Move, Shown
<1> QED
  BY <1>3 DEF Contract!Next

LEMMA CancelShown ==
  ASSUME TypeOK, NEW c \in Cancellers, NEW r \in Runs, Cancel(c, r)
  PROVE  [Contract!Next]_Contract!vars
<1>1. /\ OneRun(r) /\ UNCHANGED result
      /\ \/ status[r] = "PENDING" /\ status'[r] = "CANCELLED"
         \/ status[r] = "RUNNING" /\ status'[r] = "STOPPING"
  <2>1. /\ status' = [status EXCEPT ![r] = IF @ = "RUNNING" THEN "STOPPING" ELSE "CANCELLED"]
        /\ UNCHANGED result /\ status[r] \in {"PENDING", "RUNNING"}
    BY DEF Cancel
  <2>2. \A q \in Runs : q # r => status'[q] = status[q]
    BY <2>1 DEF TypeOK, RowType
  <2>3. status'[r] = IF status[r] = "RUNNING" THEN "STOPPING" ELSE "CANCELLED"
    BY <2>1 DEF TypeOK, RowType
  <2> QED
    BY <2>1, <2>2, <2>3 DEF OneRun
<1>2. ContractState(r) = "open" /\ ContractState(r)' \in {"cancelled", "stopping"}
  BY <1>1 DEF ContractState
<1>3. Contract!AcceptCancel(r)
  BY <1>1, <1>2, OneRunShown DEF Contract!AcceptCancel, Contract!Move, Shown
<1> QED
  BY <1>3 DEF Contract!Next

(* The sweeper times no run out that is asked to stop.                     *)
LEMMA SweepShown ==
  ASSUME TypeOK, Signalled, Sweep PROVE [Contract!Next]_Contract!vars
<1>1. \A r \in Runs : status'[r] = Swept(r)
  BY DEF Sweep
<1>2. \A r \in Runs : \/ status'[r] = status[r]
                      \/ status[r] = "STOPPING" /\ status'[r] = "CANCELLED"
                      \/ status[r] = "RUNNING" /\ status'[r] = "TIMEOUT"
  BY <1>1 DEF Swept, Signalled
<1>3. Shown' = [r \in Runs |-> Shown'[r]] /\ UNCHANGED result
  BY DEF Shown, Sweep
<1>4. \A r \in Runs : \/ Shown'[r] = Shown[r]
                      \/ Shown[r] = "stopping" /\ Shown'[r] = "cancelled"
                      \/ Shown[r] = "open" /\ Shown'[r] = "timeout"
  <2> TAKE r \in Runs
  <2>1. Shown[r] = ContractState(r) /\ Shown'[r] = ContractState(r)'
    BY DEF Shown
  <2> QED
    BY <1>2, <2>1 DEF ContractState
<1>5. Contract!Housekeep
  BY <1>3, <1>4 DEF Contract!Housekeep, Shown
<1> QED
  BY <1>5 DEF Contract!Next

(* Dispatcher, executor, worker, cancel command and sweeper together keep  *)
(* the contract of a run: one of four ends, which lasts; a stop excludes   *)
(* every other end; success only with a passed result for every case, and  *)
(* no result is replaced or comes under a verdict.                         *)
THEOREM KeepsContractHolds == Spec => KeepsContract
<1>1. Init => Contract!Init
  BY DEF Init, Contract!Init, ContractState
<1>2. TypeOK /\ Bookkeeping /\ Signalled /\ (\A q \in Runs : Ahead(q)) /\ [Next]_vars
        => [Contract!Next]_Contract!vars
  <2> SUFFICES ASSUME TypeOK, Bookkeeping, Signalled, \A q \in Runs : Ahead(q), [Next]_vars
               PROVE  [Contract!Next]_Contract!vars
    OBVIOUS
  <2>1. ASSUME UNCHANGED <<status, result>> PROVE [Contract!Next]_Contract!vars
    BY <2>1, StatusKept
  <2>2. \A s \in Starters : Starting(s) => [Contract!Next]_Contract!vars
    BY <2>1, StartInsertShown DEF Starting, StartLookup, StartDuplicate, row
  <2>3. \A c \in Cancellers : Cancelling(c) => [Contract!Next]_Contract!vars
    BY <2>1, CancelShown DEF Cancelling, Look, row
  <2>4. \A r \in Runs : Executing(r) => [Contract!Next]_Contract!vars
    BY ExecutingShown
  <2>5. \A r \in Runs : Browsing(r) \/ Age(r) => [Contract!Next]_Contract!vars
    BY <2>1, WorkerRecordShown DEF Browsing, WorkerCheck, WorkerFail, Age, row
  <2>6. Sweep => [Contract!Next]_Contract!vars
    BY SweepShown
  <2>7. Crash \/ UNCHANGED vars => [Contract!Next]_Contract!vars
    BY <2>1 DEF Crash, row, vars
  <2> QED
    BY <2>2, <2>3, <2>4, <2>5, <2>6, <2>7 DEF Next
<1> QED
  BY <1>1, <1>2, TypeCorrect, BookkeepingHolds, SignalledHolds, AheadHolds, PTL
     DEF Spec, KeepsContract, Contract!Spec
=============================================================================
