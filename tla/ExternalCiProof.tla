-------------------------- MODULE ExternalCiProof --------------------------
(***************************************************************************)
(* Proofs about ExternalCi for every number of webhook deliveries.         *)
(***************************************************************************)
EXTENDS ExternalCi, TLAPS

RunType ==
  /\ status \in Statuses
  /\ ci \in Summaries
  /\ rows \in [outcome : {"none", "passed", "failed"}, partial : BOOLEAN]
TaskType == task \in [Tasks -> [pc : Places, reply : Replies, found : Builds \cup {"none"}]]

(* A failed summary, and every patch of a summary, is a summary.           *)
LEMMA SummaryType ==
  /\ NoSummary \in Summaries
  /\ \A c \in Summaries :
       /\ \A x \in {"pending", "triggered"} : [c EXCEPT !.trigger = x] \in Summaries
       /\ [c EXCEPT !.trigger = "pending", !.unknown = TRUE] \in Summaries
       /\ \A b \in Builds : [c EXCEPT !.build = b] \in Summaries
       /\ \A x \in {"collecting", "done", "failed"} : [c EXCEPT !.collect = x] \in Summaries
<1>1. NoSummary \in Summaries
  BY DEF NoSummary, Summaries
<1>2. ASSUME NEW c \in Summaries
      PROVE  /\ \A x \in {"pending", "triggered"} : [c EXCEPT !.trigger = x] \in Summaries
             /\ [c EXCEPT !.trigger = "pending", !.unknown = TRUE] \in Summaries
             /\ \A b \in Builds : [c EXCEPT !.build = b] \in Summaries
             /\ \A x \in {"collecting", "done", "failed"} : [c EXCEPT !.collect = x] \in Summaries
  BY DEF Summaries
<1> QED
  BY <1>1, <1>2

(* Collecting a report keeps the columns in their ranges.                  *)
LEMMA CollectType ==
  ASSUME RunType, NEW end \in {"SUCCEEDED", "FAILED", "CANCELLED"}, Collect(end)
  PROVE  RunType'
<1>1. CASE ci.collect = "done"
  BY <1>1 DEF Collect, RunType
<1>2. CASE ci.collect # "done"
  <2>1. ci' \in Summaries
    BY <1>2, SummaryType DEF Collect, CollectUnaccounted, CollectNothing, CollectPartly, CollectWhole, Conclude, RunType
  <2>2. status' \in Statuses
    BY <1>2 DEF Collect, CollectUnaccounted, CollectNothing, CollectPartly, CollectWhole, Conclude,
                RunType, Statuses, Terminal
  <2>3. rows' \in [outcome : {"none", "passed", "failed"}, partial : BOOLEAN]
    <3>1. \A a, b : Worse(a, b) \in {"passed", "failed"}
      BY DEF Worse
    <3>2. \/ rows' = rows
          \/ \E a, b : \E partial \in BOOLEAN :
               rows' = [outcome |-> Worse(a, b), partial |-> partial]
      BY <1>2 DEF Collect, CollectUnaccounted, CollectNothing, CollectPartly, CollectWhole, Conclude
    <3> QED
      BY <3>1, <3>2 DEF RunType
  <2> QED
    BY <2>1, <2>2, <2>3 DEF RunType
<1> QED
  BY <1>1, <1>2

(* Moving an executor keeps its type.                                      *)
LEMMA GotoType ==
  ASSUME TaskType, NEW t \in Tasks, NEW p \in Places, Goto(t, p)
  PROVE  TaskType'
  BY DEF TaskType, Goto

(* Every variable of ExternalCi stays in its range.                        *)
THEOREM TypeCorrect == Spec => []TypeOK
<1>1. Init => TypeOK
  <2> HAVE Init
  <2>1. \A p \in {"idle"} : Delivered(p) \in [pc     : {"idle", "seen", "done", "lost"},
                                              kind   : {"STARTED", "COMPLETED"},
                                              build  : Builds,
                                              status : Statuses,
                                              ci     : Summaries]
    BY SummaryType DEF Delivered, Builds, Statuses
  <2>2. delivery \in [Deliveries -> [pc     : {"idle", "seen", "done", "lost"},
                                      kind   : {"STARTED", "COMPLETED"},
                                      build  : Builds,
                                      status : Statuses,
                                      ci     : Summaries]]
    BY <2>1 DEF Init
  <2>3. TaskType
    BY DEF Init, TaskType, Places, Replies
  <2> QED
    BY <2>2, <2>3, SummaryType DEF Init, TypeOK, TaskType, Statuses
<1>2. ASSUME TypeOK, [Next]_vars PROVE TypeOK'
  <2>0. RunType /\ TaskType
    BY <1>2 DEF TypeOK, RunType, TaskType
  <2> USE <1>2 DEF TypeOK
  <2>1. CASE UNCHANGED vars
    BY <2>1 DEF vars
  <2>2. CASE Jenkins
    BY <2>2 DEF Jenkins, JenkinsStart, JenkinsEnd
  <2>3. CASE Dispatch
    <3>1. TaskType'
      BY <2>0, <2>3, GotoType, NumDeliveriesAssumption DEF Dispatch, Tasks, Places
    <3> QED
      BY <2>3, <3>1 DEF Dispatch, Statuses, TaskType
  <2>4. CASE Validate
    <3>1. TaskType'
      BY <2>0, <2>4, GotoType, NumDeliveriesAssumption DEF Validate, RefuseJob, Tasks, Places
    <3>2. UNCHANGED <<stopSignal, rows, own, posts, delivery, collector>>
      BY <2>4 DEF Validate
    <3>3. status' \in {status, "FAILED"} /\ ci' \in {ci, NoSummary}
      BY <2>4 DEF Validate, RefuseJob
    <3>4. status' \in Statuses /\ ci' \in Summaries
      BY <3>3, SummaryType DEF Statuses, Terminal
    <3> QED
      BY <3>1, <3>2, <3>4 DEF TaskType
  <2>5. ASSUME NEW t \in Tasks, Executing(t) PROVE TypeOK'
    <3>1. CASE Resume(t)
      <4>1. TaskType'
        BY <2>0, <3>1, GotoType DEF Resume, Places
      <4> QED
        BY <3>1, <4>1 DEF Resume, TaskType
    <3>2. CASE Unconfigured(t)
      <4>1. TaskType'
        BY <2>0, <3>2, GotoType DEF Unconfigured, Places
      <4>2. UNCHANGED <<stopSignal, rows, own, posts, delivery, collector>>
        BY <3>2 DEF Unconfigured
      <4>3. status' \in {status, "FAILED"} /\ ci' \in {ci, NoSummary}
        BY <3>2 DEF Unconfigured
      <4>4. status' \in Statuses /\ ci' \in Summaries
        BY <4>3, SummaryType DEF Statuses, Terminal
      <4> QED
        BY <4>1, <4>2, <4>4 DEF TaskType
    <3>3. CASE Enter(t)
      <4>1. TaskType'
        BY <2>0, <3>3, GotoType DEF Enter, Places
      <4>2. status' \in Statuses /\ ci' \in Summaries
        BY <3>3, SummaryType DEF Enter, CompleteStopping, Statuses, Terminal
      <4> QED
        BY <3>3, <4>1, <4>2 DEF Enter, TaskType
    <3>4. CASE Post(t)
      <4>1. task' \in [Tasks -> [pc : Places, reply : Replies, found : Builds \cup {"none"}]]
        BY <3>4 DEF Post, Places
      <4> QED
        BY <3>4, <4>1 DEF Post
    <3>5. CASE Answer(t)
      <4>1. TaskType'
        BY <2>0, <3>5, GotoType DEF Answer, Places, Replies, TaskType
      <4>2. status' \in Statuses /\ ci' \in Summaries
        BY <3>5, SummaryType DEF Answer, CompleteStopping, Statuses, Terminal, Replies
      <4> QED
        BY <3>5, <4>1, <4>2 DEF Answer, TaskType
    <3>6. CASE LookAgain(t)
      <4>1. TaskType'
        BY <2>0, <3>6, GotoType DEF LookAgain, Places
      <4> QED
        BY <3>6, <4>1 DEF LookAgain, TaskType, CompleteStopping, Statuses, Terminal
    <3>7. CASE Resolve(t)
      <4>1. TaskType'
        BY <2>0, <3>7, GotoType DEF Resolve, Places
      <4>2. status' \in Statuses /\ ci' \in Summaries
        <5>1. ci.build \in Builds \cup {"none"}
          BY DEF Summaries
        <5>2. Resolved # "none" => Resolved \in Builds
          BY <5>1 DEF Resolved, Builds
        <5>3. CASE UNCHANGED <<status, ci>>
          BY <5>3
        <5>4. CASE Resolved # "none" /\ status' = "RUNNING" /\ ci' = [ci EXCEPT !.build = Resolved]
          <6>1. [ci EXCEPT !.build = Resolved] \in Summaries
            BY <5>2, <5>4, SummaryType
          <6> QED
            BY <5>4, <6>1 DEF Statuses
        <5> QED
          BY <3>7, <5>3, <5>4 DEF Resolve
      <4> QED
        BY <3>7, <4>1, <4>2 DEF Resolve, TaskType
    <3>8. CASE Poll(t)
      <4>1. TaskType'
        BY <2>0, <3>8 DEF Poll, Places, Goto, TaskType
      <4> QED
        BY <3>8, <4>1 DEF Poll, TaskType
    <3>9. CASE Final(t)
      <4>1. TaskType'
        BY <2>0, <3>9, GotoType DEF Final, Places
      <4>2. RunType'
        BY <2>0, <3>9, CollectType DEF Final, RunType
      <4> QED
        BY <3>9, <4>1, <4>2 DEF Final, TaskType, RunType
    <3> QED
      BY <2>5, <3>1, <3>2, <3>3, <3>4, <3>5, <3>6, <3>7, <3>8, <3>9 DEF Executing
  <2>6. ASSUME NEW d \in Deliveries, Observe(d) PROVE TypeOK'
    BY <2>6 DEF Observe
  <2>7. ASSUME NEW d \in Deliveries, Record(d) PROVE TypeOK'
    <3>1. TaskType'
      BY <2>0, <2>7, GotoType DEF Record, Places, Tasks, Deliveries, TaskType
    <3>2. delivery' \in [Deliveries -> [pc     : {"idle", "seen", "done", "lost"},
                                        kind   : {"STARTED", "COMPLETED"},
                                        build  : Builds,
                                        status : Statuses,
                                        ci     : Summaries]]
      BY <2>7, SummaryType DEF Record, Delivered, Builds, Statuses
    <3>3. ci' \in Summaries /\ status' \in Statuses
      BY <2>7, SummaryType DEF Record, Statuses
    <3> QED
      BY <2>7, <3>1, <3>2, <3>3 DEF Record, TaskType
  <2>8. CASE Cancel
    BY <2>8 DEF Cancel, Statuses, Terminal
  <2>9. CASE CollectorLook
    BY <2>9 DEF CollectorLook
  <2>10. CASE CollectorCollect
    <3>1. RunType'
      BY <2>0, <2>10, CollectType DEF CollectorCollect, RunType
    <3> QED
      BY <2>10, <3>1 DEF CollectorCollect, RunType
  <2>11. CASE Sweep
    BY <2>11 DEF Sweep, Statuses, Terminal
  <2>12. CASE Crash
    <3>1. task' \in [Tasks -> [pc : Places, reply : Replies, found : Builds \cup {"none"}]]
      BY <2>12 DEF Crash, Places
    <3>2. delivery' \in [Deliveries -> [pc     : {"idle", "seen", "done", "lost"},
                                        kind   : {"STARTED", "COMPLETED"},
                                        build  : Builds,
                                        status : Statuses,
                                        ci     : Summaries]]
      BY <2>12, SummaryType DEF Crash, Delivered, Builds, Statuses
    <3> QED
      BY <2>12, <3>1, <3>2 DEF Crash
  <2> QED
    BY <2>1, <2>2, <2>3, <2>4, <2>5, <2>6, <2>7, <2>8, <2>9, <2>10, <2>11, <2>12 DEF Next
<1> QED
  BY <1>1, <1>2, PTL DEF Spec

-----------------------------------------------------------------------------
(* Why Jenkins is asked once.  The first executor asks, and only on its    *)
(* way from "enter"; by the time a delivery has found the run, its intent  *)
(* is recorded, or the run FAILED without it; and what a delivery writes   *)
(* back is never older than the intent.                                    *)
Recorded == ci.trigger # "none" \/ status = "FAILED"
Once ==
  /\ posts = 0 \/ (posts = 1 /\ task[0].pc \notin {"queued", "validate", "enter", "post"})
  /\ \A d \in Deliveries :
       /\ task[d].pc \notin {"post", "answer"}
       /\ task[d].pc # "none" => Recorded
       /\ delivery[d].pc = "seen" => delivery[d].ci.trigger # "none"

(* Collecting changes neither the intent nor a run that FAILED.            *)
LEMMA CollectRecorded ==
  ASSUME RunType, NEW end, Collect(end), Recorded, status # "FAILED"
  PROVE  Recorded'
  BY DEF Collect, CollectUnaccounted, CollectNothing, CollectPartly, CollectWhole, Conclude, RunType, Summaries, Recorded

(* An intent is never unrecorded.                                          *)
LEMMA RecordedStep ==
  ASSUME TypeOK, Once, Recorded, [Next]_vars
  PROVE  Recorded'
<1>0. RunType
  BY DEF TypeOK, RunType
<1>1. CASE UNCHANGED vars
  BY <1>1 DEF vars, Recorded
<1>2. CASE Jenkins \/ CollectorLook \/ Crash
  BY <1>2 DEF Jenkins, CollectorLook, Crash, Recorded
<1>3. CASE Dispatch \/ Validate \/ Cancel \/ Sweep
  BY <1>3 DEF Dispatch, Validate, RefuseJob, Cancel, Sweep, Recorded
<1>4. ASSUME NEW t \in Tasks, Executing(t) PROVE Recorded'
  <2>1. CASE Resume(t) \/ Post(t) \/ Poll(t) \/ LookAgain(t) \/ Unconfigured(t)
    BY <2>1 DEF Resume, Post, Poll, LookAgain, Unconfigured, CompleteStopping, Recorded
  <2>2. CASE Enter(t)
    BY <2>2 DEF Enter, CompleteStopping, Recorded, TypeOK, Summaries
  <2>3. CASE Answer(t)
    BY <2>3, ZenonT(40) DEF Answer, CompleteStopping, Recorded, TypeOK, Summaries, Replies
  <2>4. CASE Resolve(t)
    BY <2>4 DEF Resolve, Recorded, TypeOK, Summaries
  <2>5. CASE Final(t)
    BY <1>0, <2>5, CollectRecorded DEF Final, Recorded, Terminal
  <2> QED
    BY <1>4, <2>1, <2>2, <2>3, <2>4, <2>5 DEF Executing
<1>5. ASSUME NEW d \in Deliveries, Observe(d) \/ Record(d) PROVE Recorded'
  BY <1>5 DEF Observe, Record, Recorded, Once, TypeOK, Summaries
<1>6. CASE CollectorCollect
  BY <1>0, <1>6, CollectRecorded DEF CollectorCollect, Recorded, Terminal
<1> QED
  BY <1>1, <1>2, <1>3, <1>4, <1>5, <1>6 DEF Next

(* Moving an executor moves no other, and it only.                         *)
LEMMA GotoEffect ==
  ASSUME TaskType, NEW t \in Tasks, NEW p, Goto(t, p)
  PROVE  \A u \in Tasks : task'[u].pc = IF u = t THEN p ELSE task[u].pc
  BY DEF TaskType, Goto

(* A step of an executor keeps the reasons why Jenkins is asked once.      *)
LEMMA ExecutingOnce ==
  ASSUME TypeOK, Once, NEW t \in Tasks, Executing(t), Recorded => Recorded'
  PROVE  Once'
<1>0. TaskType /\ 0 \in Tasks /\ Deliveries \subseteq Tasks /\ 0 \notin Deliveries /\ posts \in Nat
  BY NumDeliveriesAssumption DEF TypeOK, TaskType, Tasks, Deliveries
<1> DEFINE Settled(u) == u # 0 => Recorded
<1>1. ASSUME NEW p, p \notin {"queued", "validate", "enter", "post", "answer"}, Goto(t, p),
             task[t].pc # "none", UNCHANGED <<posts, delivery>>
      PROVE  Once'
  BY <1>0, <1>1, GotoEffect DEF Once, Tasks, Deliveries
<1>2. CASE Resume(t)
  <2>1. UNCHANGED posts /\ t # 0 /\ task'[0].pc = task[0].pc
    BY <1>0, <1>2, GotoEffect DEF Resume
  <2>2. \A d \in Deliveries : task'[d].pc = task[d].pc \/ (d = t /\ task'[d].pc \in {"enter", "done"})
    BY <1>0, <1>2, GotoEffect DEF Resume
  <2> QED
    BY <1>0, <1>2, <2>1, <2>2 DEF Resume, Once
<1>3. CASE Enter(t)
  <2>1. CASE t = 0
    <3>1. posts = 0 /\ UNCHANGED <<posts, delivery>>
      BY <1>3, <2>1 DEF Enter, Once
    <3>2. \A d \in Deliveries : task'[d] = task[d]
      BY <1>0, <1>3, <2>1 DEF Enter, Goto, TaskType
    <3> QED
      BY <1>0, <3>1, <3>2 DEF Once
  <2>2. CASE t # 0
    <3>1. t \in Deliveries /\ Recorded
      BY <1>3, <2>2 DEF Enter, Once, Tasks, Deliveries
    <3>2. \E p \in {"done", "look"} : Goto(t, p)
      BY <1>3, <3>1 DEF Enter, Recorded
    <3> QED
      BY <1>1, <1>3, <3>2 DEF Enter
  <2> QED
    BY <2>1, <2>2
<1>4. CASE Post(t)
  <2>1. t = 0 /\ posts = 0 /\ posts' = 1 /\ UNCHANGED delivery
    BY <1>4 DEF Post, Once, Tasks, Deliveries
  <2>2. task'[0].pc = "answer" /\ \A d \in Deliveries : task'[d] = task[d]
    BY <1>0, <1>4, <2>1 DEF Post, TaskType
  <2> QED
    BY <1>0, <2>1, <2>2 DEF Once
<1>5. CASE Answer(t)
  BY <1>1, <1>5 DEF Answer, TypeOK, Replies
<1>6. CASE LookAgain(t) \/ Unconfigured(t) \/ Resolve(t) \/ Final(t)
  BY <1>1, <1>6 DEF LookAgain, Unconfigured, Resolve, Final
<1>7. CASE Poll(t)
  <2>1. \A u \in Tasks : task'[u].pc = IF u = t THEN task'[t].pc ELSE task[u].pc
    BY <1>0, <1>7 DEF Poll, Goto, TaskType
  <2>2. task'[t].pc \in {"done", "final"} /\ task[t].pc = "poll" /\ UNCHANGED <<posts, delivery>>
    BY <1>0, <1>7 DEF Poll, Goto, TaskType
  <2> QED
    BY <1>0, <2>1, <2>2 DEF Once
<1> QED
  BY <1>2, <1>3, <1>4, <1>5, <1>6, <1>7 DEF Executing

(* Jenkins is asked for a build of the run at most once.                   *)
THEOREM PostedOnceHolds == Spec => []PostedOnce
<1>1. Init => Once
  <2> HAVE Init
  <2>1. \A d \in Deliveries : d \in Tasks /\ d # 0
    BY NumDeliveriesAssumption DEF Tasks, Deliveries
  <2>2. \A d \in Deliveries : task[d].pc = "none"
    BY <2>1 DEF Init
  <2>3. \A d \in Deliveries : delivery[d].pc = "idle"
    BY DEF Init, Delivered
  <2>4. posts = 0
    BY DEF Init
  <2> QED
    BY <2>2, <2>3, <2>4 DEF Once
<1>2. ASSUME TypeOK, Once, [Next]_vars PROVE Once'
  <2>0. /\ Recorded => Recorded'
        /\ TaskType /\ 0 \in Tasks /\ Deliveries \subseteq Tasks /\ 0 \notin Deliveries
    BY <1>2, RecordedStep, NumDeliveriesAssumption DEF TypeOK, TaskType, Tasks, Deliveries
  <2>1. CASE UNCHANGED vars
    BY <1>2, <2>1 DEF vars, Once, Recorded
  <2>2. CASE Jenkins \/ Cancel \/ CollectorLook \/ CollectorCollect \/ Sweep
    BY <1>2, <2>0, <2>2 DEF Jenkins, Cancel, CollectorLook, CollectorCollect, Sweep, Once
  <2>3. CASE Dispatch
    <3>1. \A d \in Deliveries : task'[d] = task[d]
      BY <2>0, <2>3 DEF Dispatch, Goto, TaskType
    <3> QED
      BY <1>2, <2>0, <2>3, <3>1 DEF Dispatch, Once
  <2>4. CASE Validate
    <3>1. \A d \in Deliveries : task'[d] = task[d]
      BY <2>0, <2>4 DEF Validate, RefuseJob, Goto, TaskType
    <3> QED
      BY <1>2, <2>0, <2>4, <3>1 DEF Validate, RefuseJob, Once
  <2>5. ASSUME NEW t \in Tasks, Executing(t) PROVE Once'
    BY <1>2, <2>0, <2>5, ExecutingOnce
  <2>6. ASSUME NEW d \in Deliveries, Observe(d) PROVE Once'
    BY <1>2, <2>0, <2>6 DEF Observe, Once, TypeOK
  <2>7. ASSUME NEW d \in Deliveries, Record(d) PROVE Once'
    <3>1. Recorded' /\ UNCHANGED posts
      BY <1>2, <2>7 DEF Record, Recorded, Once, TypeOK, Summaries
    <3>2. /\ task'[0] = task[0]
          /\ \A e \in Deliveries : task'[e].pc = task[e].pc \/ task'[e].pc = "queued"
      BY <2>0, <2>7 DEF Record, Goto, TaskType
    <3>3. \A e \in Deliveries : delivery'[e].pc = "seen" => delivery'[e] = delivery[e]
      BY <1>2, <2>7 DEF Record, Delivered, TypeOK
    <3> QED
      BY <1>2, <3>1, <3>2, <3>3 DEF Once
  <2>8. CASE Crash
    <3>1. /\ UNCHANGED posts
          /\ \A u \in Tasks : task'[u].pc = task[u].pc \/ (task[u].pc # "none" /\ task'[u].pc = "dead")
          /\ \A d \in Deliveries : delivery'[d].pc = "seen" => delivery'[d] = delivery[d]
      BY <2>0, <2>8 DEF Crash, Alive, Delivered, TaskType
    <3> QED
      BY <1>2, <2>0, <3>1 DEF Once
  <2> QED
    BY <1>2, <2>1, <2>2, <2>3, <2>4, <2>5, <2>6, <2>7, <2>8 DEF Next
<1>3. Once => PostedOnce
  BY DEF Once, PostedOnce
<1> QED
  BY <1>1, <1>2, <1>3, TypeCorrect, PTL DEF Spec

-----------------------------------------------------------------------------
(* What is collected adds to the worst that was collected before.          *)
LEMMA CollectWorsens ==
  ASSUME NEW end, Collect(end)
  PROVE  UNCHANGED rows \/ (\E read, partial : rows' = [outcome |-> Worse(rows.outcome, read),
                                                        partial |-> partial])
<1>1. CASE ci.collect = "done"
  BY <1>1 DEF Collect
<1>2. CASE ci.collect # "done"
  BY <1>2 DEF Collect, CollectUnaccounted, CollectNothing, CollectPartly, CollectWhole, Conclude
<1> QED
  BY <1>1, <1>2

(* Results are changed by collecting alone.                                *)
LEMMA RowsStep ==
  ASSUME [Next]_vars
  PROVE  UNCHANGED rows \/ (\E end : Collect(end))
<1>1. ASSUME NEW t \in Tasks, Executing(t) PROVE UNCHANGED rows \/ (\E end : Collect(end))
  <2>1. CASE Final(t)
    BY <2>1 DEF Final
  <2>2. CASE ~Final(t)
    BY <1>1, <2>2 DEF Executing, Resume, Unconfigured, Enter, Post, Answer, LookAgain, Resolve, Poll
  <2> QED
    BY <2>1, <2>2
<1>2. ASSUME NEW d \in Deliveries, Observe(d) \/ Record(d) PROVE UNCHANGED rows
  BY <1>2 DEF Observe, Record
<1>3. CASE CollectorCollect
  BY <1>3 DEF CollectorCollect
<1>4. CASE Jenkins \/ Dispatch \/ Validate \/ Cancel \/ CollectorLook \/ Sweep \/ Crash
  BY <1>4 DEF Jenkins, Dispatch, Validate, RefuseJob, Cancel, CollectorLook, Sweep, Crash
<1>5. CASE UNCHANGED vars
  BY <1>5 DEF vars
<1> QED
  BY <1>1, <1>2, <1>3, <1>4, <1>5 DEF Next

(* No step loses a result or turns a failed one into a passed one.         *)
THEOREM EvidenceWorsensHolds == Spec => EvidenceWorsens
<1>1. ASSUME [Next]_vars
      PROVE  /\ rows.outcome # "none" => rows'.outcome # "none"
             /\ rows.outcome = "failed" => rows'.outcome = "failed"
  <2>1. UNCHANGED rows \/ (\E read, partial : rows' = [outcome |-> Worse(rows.outcome, read),
                                                      partial |-> partial])
    BY <1>1, RowsStep, CollectWorsens
  <2> QED
    BY <2>1 DEF Worse
<1> QED
  BY <1>1, PTL DEF Spec, EvidenceWorsens

-----------------------------------------------------------------------------
(* A report turns a run that has not ended otherwise into a success only   *)
(* if it is whole, of a finished build, and passes.                        *)
LEMMA CollectBacked ==
  ASSUME RunType, NEW end, Collect(end), status # "SUCCEEDED", UNCHANGED own
  PROVE  SuccessBacked'
<1> SUFFICES ASSUME status' = "SUCCEEDED" PROVE SuccessBacked'
  BY DEF SuccessBacked
<1>1. /\ ci.build # "none" /\ Finished(ci.build) /\ ReportPasses(ci.build)
      /\ rows' = [outcome |-> Worse(rows.outcome, "passed"), partial |-> FALSE]
  BY DEF Collect, CollectUnaccounted, CollectNothing, CollectPartly, CollectWhole, Conclude
<1>2. PICK b \in Builds : Finished(b) /\ ReportPasses(b)
  BY <1>1 DEF RunType, Summaries
<1>3. Finished(b)' /\ ReportPasses(b)'
  BY <1>2 DEF Finished, ReportPasses, EndOf
<1>4. rows'.outcome # "none" /\ ~rows'.partial
  BY <1>1 DEF Worse
<1> QED
  BY <1>3, <1>4 DEF SuccessBacked

(* A success that is reported already stays backed.                        *)
LEMMA StaysBacked ==
  ASSUME SuccessBacked, UNCHANGED rows, status' = "SUCCEEDED" => status = "SUCCEEDED",
         UNCHANGED own \/ ~Finished("own")
  PROVE  SuccessBacked'
<1> SUFFICES ASSUME status' = "SUCCEEDED" PROVE SuccessBacked'
  BY DEF SuccessBacked
<1>1. PICK b \in Builds : Finished(b) /\ ReportPasses(b)
  BY DEF SuccessBacked
<1>2. Finished(b)' /\ ReportPasses(b)'
  BY <1>1 DEF Finished, ReportPasses, EndOf, Builds
<1> QED
  BY <1>2 DEF SuccessBacked

(* A run is SUCCEEDED only on a whole report of a finished build that      *)
(* passes.                                                                 *)
THEOREM SuccessIsBacked == Spec => []SuccessBacked
<1>1. Init => SuccessBacked
  BY DEF Init, SuccessBacked
<1>2. ASSUME TypeOK, SuccessBacked, [Next]_vars PROVE SuccessBacked'
  <2>0. RunType
    BY <1>2 DEF TypeOK, RunType
  <2>1. CASE UNCHANGED vars
    BY <1>2, <2>1, StaysBacked DEF vars
  <2>2. CASE Jenkins
    BY <1>2, <2>2, StaysBacked DEF Jenkins, JenkinsStart, JenkinsEnd, Finished, EndOf, Ends
  <2>3. CASE Dispatch \/ Validate \/ Cancel \/ CollectorLook \/ Sweep \/ Crash
    BY <1>2, <2>3, StaysBacked DEF Dispatch, Validate, RefuseJob, Cancel, CollectorLook, Sweep, Crash
  <2>4. ASSUME NEW t \in Tasks, Executing(t) PROVE SuccessBacked'
    <3>1. CASE Resume(t) \/ Unconfigured(t) \/ Enter(t) \/ LookAgain(t) \/ Resolve(t) \/ Poll(t)
      BY <1>2, <3>1, StaysBacked
         DEF Resume, Unconfigured, Enter, LookAgain, Resolve, Poll, CompleteStopping
    <3>2. CASE Answer(t)
      BY <1>2, <3>2, StaysBacked DEF Answer, CompleteStopping, TypeOK, Replies
    <3>3. CASE Post(t)
      BY <1>2, <3>3, StaysBacked DEF Post, Finished, EndOf, Ends
    <3>4. CASE Final(t)
      <4>1. CASE UNCHANGED <<status, rows>>
        BY <1>2, <3>4, <4>1, StaysBacked DEF Final
      <4>2. CASE ~UNCHANGED <<status, rows>>
        BY <2>0, <3>4, <4>2, CollectBacked DEF Final, Terminal
      <4> QED
        BY <4>1, <4>2
    <3> QED
      BY <2>4, <3>1, <3>2, <3>3, <3>4 DEF Executing
  <2>5. ASSUME NEW d \in Deliveries, Observe(d) \/ Record(d) PROVE SuccessBacked'
    BY <1>2, <2>5, StaysBacked DEF Observe, Record
  <2>6. CASE CollectorCollect
    <3>1. CASE UNCHANGED <<status, rows>>
      BY <1>2, <2>6, <3>1, StaysBacked DEF CollectorCollect
    <3>2. CASE ~UNCHANGED <<status, rows>>
      BY <2>0, <2>6, <3>2, CollectBacked DEF CollectorCollect, Terminal
    <3> QED
      BY <3>1, <3>2
  <2> QED
    BY <1>2, <2>1, <2>2, <2>3, <2>4, <2>5, <2>6 DEF Next
<1> QED
  BY <1>1, <1>2, TypeCorrect, PTL DEF Spec

-----------------------------------------------------------------------------
(* Who moves a run that has ended                                          *)

(* A run is stopped or cancelled, and collected for that, because somebody *)
(* asked for it, and the signal is never taken back.                       *)
StopAsked ==
  /\ status \in {"STOPPING", "CANCELLED"} => stopSignal
  /\ collector \in {"queued", "collect"} => stopSignal

LEMMA CollectEnds ==
  ASSUME NEW end, Collect(end)
  PROVE  status' \in {status, end, "FAILED"} /\ (end = "CANCELLED" => status' \in {status, "CANCELLED"})
  BY DEF Collect, CollectUnaccounted, CollectNothing, CollectPartly, CollectWhole, Conclude

LEMMA ExecutingAsked ==
  ASSUME TypeOK, StopAsked, NEW t \in Tasks, Executing(t)
  PROVE  UNCHANGED <<stopSignal, collector>> /\ StopAsked'
<1>1. CASE Resume(t) \/ Post(t) \/ Poll(t)
  BY <1>1 DEF Resume, Post, Poll, StopAsked
<1>2. CASE Unconfigured(t) \/ Enter(t)
  BY <1>2 DEF Unconfigured, Enter, CompleteStopping, StopAsked
<1>3. CASE Answer(t)
  <2>1. UNCHANGED <<stopSignal, collector>>
    BY <1>3 DEF Answer
  <2>2. CASE stopSignal
    BY <2>1, <2>2 DEF StopAsked
  <2>3. CASE ~stopSignal
    <3>1. status' \in {status, "WAITING_EXTERNAL", "FAILED"}
      BY <1>3, <2>3 DEF Answer, TypeOK, Replies
    <3> QED
      BY <2>1, <2>3, <3>1 DEF StopAsked
  <2> QED
    BY <2>2, <2>3, <2>1
<1>4. CASE LookAgain(t) \/ Resolve(t)
  BY <1>4 DEF LookAgain, Resolve, CompleteStopping, StopAsked
<1>5. CASE Final(t)
  <2>1. UNCHANGED <<stopSignal, collector>>
    BY <1>5 DEF Final
  <2>2. status' \in {status, "FAILED", "SUCCEEDED"}
    BY <1>5, CollectEnds DEF Final
  <2> QED
    BY <2>1, <2>2 DEF StopAsked
<1> QED
  BY <1>1, <1>2, <1>3, <1>4, <1>5 DEF Executing

LEMMA StopAskedInductive == Spec => []StopAsked
<1>1. Init => StopAsked
  BY DEF Init, StopAsked
<1>2. TypeOK /\ StopAsked /\ [Next]_vars => StopAsked'
  <2> SUFFICES ASSUME TypeOK, StopAsked, [Next]_vars PROVE StopAsked'
    OBVIOUS
  <2>1. CASE UNCHANGED vars
    BY <2>1 DEF vars, StopAsked
  <2>2. CASE \E t \in Tasks : Executing(t)
    BY <2>2, ExecutingAsked
  <2>3. CASE Jenkins \/ Dispatch \/ Validate
    BY <2>3 DEF Jenkins, Dispatch, Validate, RefuseJob, StopAsked
  <2>4. CASE \E d \in Deliveries : Observe(d) \/ Record(d)
    BY <2>4 DEF Observe, Record, StopAsked
  <2>5. CASE Cancel \/ CollectorLook
    BY <2>5 DEF Cancel, CollectorLook, StopAsked
  <2>6. CASE CollectorCollect
    BY <2>6, CollectEnds DEF CollectorCollect, StopAsked
  <2>7. CASE Sweep \/ Crash
    BY <2>7 DEF Sweep, Crash, StopAsked
  <2> QED
    BY <2>1, <2>2, <2>3, <2>4, <2>5, <2>6, <2>7 DEF Next
<1> QED
  BY <1>1, <1>2, TypeCorrect, PTL DEF Spec

(* As long as the run has not been handed to its executor, nothing else    *)
(* holds it: no trigger that a delivery or a collector could look for.     *)
Unhandled ==
  /\ ci.trigger = "none"
  /\ collector \notin {"queued", "collect"}
  /\ \A d \in Deliveries : task[d].pc = "none" /\ delivery[d].pc # "seen"
  /\ task[0].pc = "validate" => status = "VALIDATING"
Unshared == task[0].pc \in {"queued", "validate"} => Unhandled

(* An executor that moves is not one that waits to be handed the run.      *)
LEMMA ExecutingHandled ==
  ASSUME TypeOK, Unshared, NEW t \in Tasks, Executing(t)
  PROVE  Unshared'
<1>0. 0 \in Tasks /\ TaskType /\ \A u \in Tasks : u # 0 => u \in Deliveries
  BY NumDeliveriesAssumption DEF TypeOK, TaskType, Tasks, Deliveries
<1>1. ~(task[0].pc \in {"queued", "validate"})
  <2>1. task[t].pc # "none" /\ (t = 0 => task[0].pc \notin {"queued", "validate"})
    BY DEF Executing, Resume, Unconfigured, Enter, Post, Answer, LookAgain, Resolve, Poll, Final
  <2> QED
    BY <1>0, <2>1 DEF Unshared, Unhandled
<1>2. \A u \in Tasks : task'[u].pc \in {"queued", "validate"} => task'[u].pc = task[u].pc
  <2>1. CASE \E p \in Places \ {"queued", "validate"} : Goto(t, p)
    BY <1>0, <2>1, GotoEffect
  <2>2. CASE Post(t) \/ Poll(t)
    BY <1>0, <2>2 DEF Post, Poll, Goto, TaskType
  <2>3. CASE ~(Post(t) \/ Poll(t))
    <3>1. CASE Resume(t) \/ Unconfigured(t) \/ Enter(t)
      BY <2>1, <3>1 DEF Resume, Unconfigured, Enter, Places
    <3>2. CASE Answer(t)
      BY <2>1, <3>2 DEF Answer, Places, TypeOK, Replies
    <3>3. CASE LookAgain(t) \/ Resolve(t) \/ Final(t)
      BY <2>1, <3>3 DEF LookAgain, Resolve, Final, Places
    <3> QED
      BY <2>3, <3>1, <3>2, <3>3 DEF Executing
  <2> QED
    BY <2>2, <2>3
<1> QED
  <2>1. task'[0].pc \notin {"queued", "validate"}
    BY <1>0, <1>1, <1>2
  <2> QED
    BY <2>1 DEF Unshared

LEMMA UnsharedInductive == Spec => []Unshared
<1>1. Init => Unshared
  <2> SUFFICES ASSUME Init PROVE Unhandled
    BY DEF Unshared
  <2>1. ci.trigger = "none" /\ collector = "none"
    BY DEF Init, NoSummary
  <2>2. 0 \in Tasks /\ \A d \in Deliveries : d \in Tasks /\ d # 0
    BY NumDeliveriesAssumption DEF Tasks, Deliveries
  <2>3. \A t \in Tasks : task[t].pc = IF t = 0 THEN "queued" ELSE "none"
    BY DEF Init
  <2>4. \A d \in Deliveries : delivery[d].pc = "idle"
    BY DEF Init, Delivered
  <2> QED
    BY <2>1, <2>2, <2>3, <2>4 DEF Unhandled
<1>2. TypeOK /\ Unshared /\ [Next]_vars => Unshared'
  <2> SUFFICES ASSUME TypeOK, Unshared, [Next]_vars PROVE Unshared'
    OBVIOUS
  <2>0. 0 \in Tasks /\ TaskType /\ Deliveries \subseteq Tasks /\ 0 \notin Deliveries
    BY NumDeliveriesAssumption DEF TypeOK, TaskType, Tasks, Deliveries
  <2>1. CASE UNCHANGED vars
    BY <2>1 DEF vars, Unshared, Unhandled
  <2>2. CASE \E t \in Tasks : Executing(t)
    BY <2>2, ExecutingHandled
  <2>3. CASE Jenkins \/ CollectorLook
    BY <2>3 DEF Jenkins, CollectorLook, Unshared, Unhandled
  <2>4. CASE Dispatch \/ Validate
    <3>1. task[0].pc \in {"queued", "validate"} /\ UNCHANGED <<delivery, collector>>
      BY <2>4 DEF Dispatch, Validate
    <3>2. \E p \in {"validate", "enter", "done"} : Goto(0, p) /\ (p = "validate" => status' = "VALIDATING" /\ UNCHANGED ci)
      BY <2>4 DEF Dispatch, Validate, RefuseJob
    <3>3. \A d \in Deliveries : task'[d].pc = task[d].pc
      BY <2>0, <3>2, GotoEffect
    <3>4. task'[0].pc = "validate" => status' = "VALIDATING" /\ UNCHANGED ci
      BY <2>0, <3>2, GotoEffect
    <3>5. task'[0].pc # "queued"
      BY <2>0, <3>2, GotoEffect
    <3> QED
      BY <3>1, <3>3, <3>4, <3>5 DEF Unshared, Unhandled
  <2>5. ASSUME NEW d \in Deliveries, Observe(d) PROVE Unshared'
    BY <2>5 DEF Observe, Unshared, Unhandled
  <2>6. ASSUME NEW d \in Deliveries, Record(d) PROVE Unshared'
    <3>1. task'[0].pc = task[0].pc
      BY <2>0, <2>6, GotoEffect DEF Record
    <3> QED
      BY <2>6, <3>1 DEF Record, Unshared, Unhandled
  <2>7. CASE Cancel \/ Sweep
    BY <2>7 DEF Cancel, Sweep, Unshared, Unhandled
  <2>8. CASE CollectorCollect
    BY <2>8 DEF CollectorCollect, Unshared, Unhandled
  <2>9. CASE Crash
    <3>1. \A t \in Tasks : task'[t].pc \in {task[t].pc, "dead"} /\ (task[t].pc = "none" => task'[t].pc = "none")
      BY <2>0, <2>9 DEF Crash, TaskType, Alive
    <3>2. \A d \in Deliveries : delivery'[d].pc # "seen"
      BY <2>9 DEF Crash, Delivered
    <3> QED
      BY <2>0, <2>9, <3>1, <3>2 DEF Crash, Unshared, Unhandled
  <2> QED
    BY <2>1, <2>2, <2>3, <2>4, <2>5, <2>6, <2>7, <2>8, <2>9 DEF Next
<1> QED
  BY <1>1, <1>2, TypeCorrect, PTL DEF Spec

(* An executor that finds the run ended leaves it, but for the one that    *)
(* brings the answer of Jenkins and has looked at the stop signal only.    *)
LEMMA ExecutingMoves ==
  ASSUME TypeOK, StopAsked, NEW t \in Tasks, Executing(t), status \in Terminal, status' # status
  PROVE  LateAnswer(t)
<1>1. Answer(t)
  BY DEF Executing, Resume, Unconfigured, Enter, Post, LookAgain, Resolve, Poll, Final,
         CompleteStopping, Terminal
<1>2. ~stopSignal
  BY <1>1 DEF Answer, CompleteStopping, Terminal
<1>3. \E place \in {"done", "look"} : Goto(t, place)
  BY <1>1 DEF Answer, TypeOK, Replies
<1>4. task'[t].pc # "answer"
  BY <1>3, GotoEffect DEF TypeOK, TaskType
<1> QED
  BY <1>1, <1>2, <1>4 DEF StopAsked, Answer, LateAnswer

(* An external run that has ended is moved by late writers only: the end   *)
(* is reopened by a delivery that had read the run as waiting, or by the   *)
(* answer to the trigger, which finds a cancelled run cancelled.           *)
THEOREM OnlyLateWritersMoveHolds == Spec => OnlyLateWritersMove
<1>1. TypeOK /\ StopAsked /\ Unshared /\ [Next]_vars
        => [status' # status /\ status \in Terminal => LateWrite]_vars
  <2> SUFFICES ASSUME TypeOK, StopAsked, Unshared, Next, status \in Terminal, status' # status
               PROVE  LateWrite
    OBVIOUS
  <2>1. CASE \E t \in Tasks : Executing(t)
    BY <2>1, ExecutingMoves DEF LateWrite
  <2>2. ASSUME NEW d \in Deliveries, Record(d) PROVE LateWrite
    <3>1. delivery'[d].pc = "done"
      BY <2>2 DEF Record, Delivered, TypeOK
    <3> QED
      BY <2>2, <3>1 DEF Record, LateStart, LateWrite
  <2>3. CASE CollectorCollect
    BY <2>3, CollectEnds DEF CollectorCollect, StopAsked, Terminal
  <2>4. ~(Jenkins \/ Dispatch \/ Validate \/ Cancel \/ CollectorLook \/ Sweep \/ Crash)
    BY DEF Unshared, Unhandled, Jenkins, Dispatch, Validate, Cancel, CollectorLook, Sweep, Crash, Terminal
  <2>5. \A d \in Deliveries : ~Observe(d)
    BY DEF Observe
  <2> QED
    BY <2>1, <2>2, <2>3, <2>4, <2>5 DEF Next
<1> QED
  BY <1>1, TypeCorrect, StopAskedInductive, UnsharedInductive, PTL DEF Spec, OnlyLateWritersMove
=============================================================================
