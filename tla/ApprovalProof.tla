--------------------------- MODULE ApprovalProof ---------------------------
(***************************************************************************)
(* Proofs about Approval and the releases and cases it is composed with,   *)
(* for any number of users, targets, requests, edits, events and retries.  *)
(***************************************************************************)
EXTENDS Approval, SequenceTheorems, FiniteSetTheorems, TLAPS

-----------------------------------------------------------------------------
(* Requests *)

(* What is done to one request leaves the others.                          *)
LEMMA PutEffect ==
  ASSUME TypeOK, NEW i \in DOMAIN appr, NEW x \in Requests, appr' = [appr EXCEPT ![i] = x]
  PROVE  /\ appr' \in Seq(Requests) /\ DOMAIN appr' = DOMAIN appr
         /\ \A j \in DOMAIN appr : appr'[j] = IF j = i THEN x ELSE appr[j]
<1>1. appr \in Seq(Requests) /\ DOMAIN appr = 1..Len(appr)
  BY LenProperties DEF TypeOK
<1>2. i \in 1..Len(appr)
  BY <1>1
<1>3. /\ appr' \in Seq(Requests) /\ Len(appr') = Len(appr)
      /\ \A j \in 1..Len(appr) : appr'[j] = IF j = i THEN x ELSE appr[j]
  BY <1>1, <1>2, ExceptSeq
<1>4. DOMAIN appr' = 1..Len(appr')
  BY <1>3, LenProperties
<1> QED
  BY <1>1, <1>3, <1>4

(* An element that is appended leaves the others.                          *)
LEMMA AppendEffect ==
  ASSUME NEW S, NEW s \in Seq(S), NEW x \in S
  PROVE  /\ Append(s, x) \in Seq(S)
         /\ DOMAIN Append(s, x) = DOMAIN s \cup {Len(s) + 1}
         /\ Append(s, x)[Len(s) + 1] = x
         /\ Len(s) + 1 \notin DOMAIN s
         /\ \A j \in DOMAIN s : Append(s, x)[j] = s[j]
<1>1. DOMAIN s = 1..Len(s) /\ Len(s) \in Nat
  BY LenProperties
<1>2. /\ Append(s, x) \in Seq(S) /\ Len(Append(s, x)) = Len(s) + 1
      /\ \A j \in 1..Len(s) : Append(s, x)[j] = s[j]
      /\ Append(s, x)[Len(s) + 1] = x
  BY AppendProperties
<1>3. DOMAIN Append(s, x) = 1..(Len(s) + 1)
  BY <1>2, LenProperties
<1> QED
  BY <1>1, <1>2, <1>3

LEMMA RequestTypes ==
  ASSUME NEW r \in Requests
  PROVE  /\ r.init \in Users /\ r.approver \in Users /\ r.target \in Targets /\ r.tv \in Nat
         /\ [r EXCEPT !.late = TRUE] \in Requests /\ Expired(r) \in Requests
         /\ \A status \in Statuses, res \in {"none", "ok", "failed"}, u \in Users :
              Decided(r, status, res, u) \in Requests
  BY DEF Requests, Expired, Statuses, Decided

LEMMA NewType ==
  ASSUME NEW u \in Users, NEW t \in Targets, NEW approver \in Users, NEW fit \in BOOLEAN,
         NEW tv \in Nat, NEW shown \in Nat, NEW byRun \in BOOLEAN
  PROVE  New(u, t, approver, fit, tv, shown, byRun) \in Requests
  BY DEF New, Requests, Statuses

(* One request more, held by nobody.                                       *)
LEMMA AskedEffect ==
  ASSUME TypeOK, NEW before \in Seq(Requests), DOMAIN before = DOMAIN appr, NEW x \in Requests,
         appr' = Append(before, x), busy' = Append(busy, NoOne)
  PROVE  /\ appr' \in Seq(Requests) /\ busy' \in [DOMAIN appr' -> Users \cup {NoOne}]
         /\ DOMAIN appr' = DOMAIN appr \cup {Len(appr) + 1} /\ Len(appr) + 1 \notin DOMAIN appr
         /\ appr'[Len(appr) + 1] = x /\ busy'[Len(appr) + 1] = NoOne
         /\ \A j \in DOMAIN appr : appr'[j] = before[j] /\ busy'[j] = busy[j]
<1> DEFINE S == Users \cup {NoOne}
<1>1. /\ appr \in Seq(Requests) /\ DOMAIN appr = 1..Len(appr) /\ Len(appr) \in Nat
      /\ DOMAIN before = 1..Len(before) /\ Len(before) \in Nat
  BY LenProperties DEF TypeOK
<1>2. Len(before) = Len(appr)
  BY <1>1
<1>3. busy \in Seq(S) /\ Len(busy) = Len(appr) /\ DOMAIN busy = DOMAIN appr
  <2>1. busy \in [1..Len(appr) -> S]
    BY <1>1 DEF TypeOK
  <2> HIDE DEF S
  <2>2. busy \in Seq(S)
    <3>1. Seq(S) = UNION {[1..n -> S] : n \in Nat}
      BY SeqDef
    <3> QED
      BY <1>1, <2>1, <3>1
  <2>3. DOMAIN busy = 1..Len(busy) /\ Len(busy) \in Nat
    BY <2>2, LenProperties
  <2> QED
    BY <1>1, <2>1, <2>2, <2>3
<1>4. /\ appr' \in Seq(Requests) /\ DOMAIN appr' = DOMAIN appr \cup {Len(appr) + 1}
      /\ appr'[Len(appr) + 1] = x /\ Len(appr) + 1 \notin DOMAIN appr
      /\ \A j \in DOMAIN appr : appr'[j] = before[j]
  BY <1>2, AppendEffect
<1>5. /\ busy' \in Seq(S) /\ DOMAIN busy' = DOMAIN appr \cup {Len(appr) + 1}
      /\ busy'[Len(appr) + 1] = NoOne
      /\ \A j \in DOMAIN appr : busy'[j] = busy[j]
  <2>1. NoOne \in S
    OBVIOUS
  <2> QED
    BY <1>3, <2>1, AppendEffect
<1>6. busy' \in [DOMAIN appr' -> S]
  BY <1>4, <1>5, LenProperties
<1> QED
  BY <1>4, <1>5, <1>6

-----------------------------------------------------------------------------
(* Release tasks *)

Before == {"absent", "DRAFT", "PENDING_CONFIRM"}
Behind == {"SUBMITTED", "FAILED_RETRYABLE", "READY"}

(* What NoPhantomRelease says of one task and what the release system has  *)
Kept(r, e) ==
  /\ r.item = "created" => e.exists
  /\ r.status = "FAILED_RETRYABLE" => r.item = "none"
  /\ r.status \in {"SUBMITTED", "READY"} => r.item # "none" \/ r.retries > 0

(* What a step may do to a task and its item; granted: a request about the *)
(* task was approved and carried out in it.                                *)
TaskStep(t, granted) ==
  /\ task'[t] \in Tasks /\ ext'[t] \in Items
  /\ Kept(task[t], ext[t]) => Kept(task'[t], ext'[t])
  /\ task[t].status \in {"READY", "CANCELLED"} => task'[t].status = task[t].status
  /\ task'[t].status \in Behind => task[t].status \in Behind \/ granted
  /\ task'[t].status \in Before => task[t].status \in Before
  /\ task'[t].item # "none" /\ task[t].item = "none" => task[t].status = "SUBMITTED" \/ granted
  /\ task'[t].item # "none" /\ task'[t].status \in Before => task[t].item # "none"

LEMMA TaskRows ==
  ASSUME NEW r \in Tasks
  PROVE  /\ r.status \in TaskStatuses /\ r.item \in {"none", "created", "stub"}
         /\ r.retries \in 0..MaxRetries /\ r.retries \in Nat
  BY ReleaseAssumption DEF Tasks

LEMMA ToRow ==
  ASSUME NEW r \in Tasks, NEW s \in TaskStatuses
  PROVE  To(r, s) \in Tasks /\ To(r, s).item = r.item /\ To(r, s).status = s /\ To(r, s).retries = r.retries
  BY DEF Tasks, To

LEMMA NotedRow ==
  ASSUME NEW r \in Tasks, NEW a \in {"created", "stub"}
  PROVE  /\ [r EXCEPT !.item = a] \in Tasks /\ [r EXCEPT !.item = a].item = a
         /\ [r EXCEPT !.item = a].status = r.status /\ [r EXCEPT !.item = a].retries = r.retries
  BY DEF Tasks

LEMMA PrepareItemRow ==
  ASSUME NEW r \in Tasks, NEW answer \in Answers
  PROVE  /\ PrepareItem(r, answer) \in Tasks /\ PrepareItem(r, answer).retries = r.retries
         /\ r.item # "none" => PrepareItem(r, answer) = r
         /\ r.item = "none" /\ answer \in {"created", "stub"} =>
              PrepareItem(r, answer).item = answer /\ PrepareItem(r, answer).status = r.status
         /\ r.item = "none" /\ answer \notin {"created", "stub"} =>
              /\ PrepareItem(r, answer).item = "none"
              /\ PrepareItem(r, answer).status = IF r.status = "SUBMITTED" THEN "FAILED_RETRYABLE" ELSE r.status
<1>1. "FAILED_RETRYABLE" \in TaskStatuses
  BY DEF TaskStatuses
<1>2. CASE r.item # "none"
  BY <1>2 DEF PrepareItem
<1>3. CASE r.item = "none" /\ answer \in {"created", "stub"}
  <2> DEFINE x == [r EXCEPT !.item = answer]
  <2>1. PrepareItem(r, answer) = x
    BY <1>3 DEF PrepareItem
  <2>2. x \in Tasks /\ x.item = answer /\ x.status = r.status /\ x.retries = r.retries
    BY <1>3, NotedRow
  <2> HIDE DEF x
  <2> QED
    BY <1>3, <2>1, <2>2
<1>4. CASE r.item = "none" /\ answer \notin {"created", "stub"}
  <2>1. PrepareItem(r, answer) = IF r.status = "SUBMITTED" THEN To(r, "FAILED_RETRYABLE") ELSE r
    BY <1>4 DEF PrepareItem
  <2> QED
    BY <1>1, <1>4, <2>1, ToRow
<1> QED
  BY <1>2, <1>3, <1>4

LEMMA AskedItem ==
  ASSUME NEW e \in Items, NEW answer \in Answers
  PROVE  /\ Asked(e, answer) \in Items
         /\ e.exists => Asked(e, answer).exists
         /\ answer = "created" => Asked(e, answer).exists
  BY DEF Asked, Items

LEMMA Unmoved ==
  ASSUME ReleaseTypeOK, NEW t \in Targets, task'[t] = task[t], ext'[t] = ext[t]
  PROVE  TaskStep(t, FALSE)
  BY DEF ReleaseTypeOK, TaskStep, Kept

(* The steps of Release do nothing else to any task.                       *)
LEMMA ReleaseSteps ==
  ASSUME ReleaseTypeOK, ReleaseNext, NEW q \in Targets
  PROVE  TaskStep(q, FALSE) /\ jobs' \subseteq Jobs /\ task' \in [Targets -> Tasks] /\ ext' \in [Targets -> Items]
<1>1. task \in [Targets -> Tasks] /\ ext \in [Targets -> Items] /\ jobs \subseteq Jobs
  BY DEF ReleaseTypeOK
<1>2. \A t \in Targets : task[t] \in Tasks /\ ext[t] \in Items
  BY <1>1
<1>3. {"absent", "DRAFT", "PENDING_CONFIRM", "SUBMITTED", "READY", "FAILED_RETRYABLE", "CANCELLED"} \subseteq TaskStatuses
  BY DEF TaskStatuses
<1> DEFINE Goal == TaskStep(q, FALSE) /\ jobs' \subseteq Jobs /\ task' \in [Targets -> Tasks] /\ ext' \in [Targets -> Items]
<1>4. TaskStep(q, FALSE) /\ jobs' \subseteq Jobs /\ task' \in [Targets -> Tasks] /\ ext' \in [Targets -> Items] => Goal
  OBVIOUS
<1> HIDE DEF Goal
<1>5. \A t \in Targets : <<"advance", t>> \in Jobs /\ <<"prepare", t>> \in Jobs
  BY DEF Jobs
<1>6. ASSUME NEW t \in Targets, NEW x \in Tasks, NEW e \in Items, task' = [task EXCEPT ![t] = x],
              ext' = [ext EXCEPT ![t] = e], jobs' \subseteq Jobs,
              task'[t] = x /\ ext'[t] = e => TaskStep(t, FALSE)
       PROVE  Goal
  <2>1. task' \in [Targets -> Tasks] /\ ext' \in [Targets -> Items] /\ task'[t] = x /\ ext'[t] = e
    BY <1>1, <1>6
  <2>2. CASE q # t
    BY <1>4, <1>1, <1>6, <2>1, <2>2, Unmoved
  <2> QED
    BY <1>4, <1>6, <2>1, <2>2
<1>7. ASSUME NEW t \in Targets, NEW x \in Tasks, NEW e \in Items,
             task' = [task EXCEPT ![t] = x], ext' = [ext EXCEPT ![t] = e], jobs' \subseteq Jobs,
             e.exists = ext[t].exists, x.item = task[t].item, x.retries >= task[t].retries,
             \/ x.status = task[t].status
             \/ /\ task[t].status \notin {"READY", "CANCELLED"} /\ x.status # "FAILED_RETRYABLE"
                /\ x.status = "READY" => task[t].status = "SUBMITTED"
                /\ x.status = "SUBMITTED" => x.retries > 0
                /\ x.status \in Behind => task[t].status \in Behind
                /\ x.status \in Before => task[t].status \in Before
      PROVE  Goal
  <2>1. x.retries \in Nat /\ task[t].retries \in Nat /\ task[t] \in Tasks
    BY <1>2, <1>7, TaskRows
  <2>2. ASSUME task'[t] = x, ext'[t] = e PROVE TaskStep(t, FALSE)
    <3>1. Kept(task[t], ext[t]) => Kept(task'[t], ext'[t])
      BY <1>7, <2>1, <2>2 DEF Kept
    <3> QED
      BY <1>7, <2>2, <3>1 DEF TaskStep, Before, Behind
  <2> QED
    BY <1>7, <1>6, <2>2
<1>8. \A t \in Targets : ext = [ext EXCEPT ![t] = ext[t]]
  BY <1>1
<1>9. ASSUME NEW t \in Targets, CreateTask(t) PROVE Goal
  <2>1. task' = [task EXCEPT ![t] = To(task[t], "DRAFT")] /\ ext' = ext /\ task[t].status = "absent"
    BY <1>9 DEF CreateTask
  <2>2. jobs' \subseteq Jobs
    BY <1>1, <1>5, <1>9 DEF CreateTask
  <2> DEFINE x == To(task[t], "DRAFT")
  <2>3. x \in Tasks /\ x.status = "DRAFT" /\ x.item = task[t].item /\ x.retries = task[t].retries
        /\ x.retries \in Nat
    BY <1>2, <1>3, ToRow, TaskRows
  <2>4. task' = [task EXCEPT ![t] = x] /\ ext' = [ext EXCEPT ![t] = ext[t]]
        /\ x.retries >= task[t].retries /\ ext[t] \in Items
    BY <1>1, <1>2, <2>1, <2>3
  <2>5. task[t].status \notin {"READY", "CANCELLED"} /\ x.status \notin Behind /\ task[t].status \in Before
    BY <2>1, <2>3 DEF Before, Behind
  <2> HIDE DEF x
  <2> QED
    BY <1>7, <2>2, <2>3, <2>4, <2>5
<1>10. ASSUME UNCHANGED <<task, ext>>, jobs' \subseteq Jobs PROVE Goal
  BY <1>4, <1>1, <1>10, Unmoved
<1>11. ASSUME NEW t \in Targets, ReplayCreate(t) \/ ReplayRetry(t) PROVE Goal
  <2>1. UNCHANGED <<task, ext>> /\ (jobs' = jobs \cup {<<"advance", t>>} \/ jobs' = jobs \cup {<<"prepare", t>>})
    BY <1>11 DEF ReplayCreate, ReplayRetry
  <2>2. jobs' \subseteq Jobs
    <3>1. <<"advance", t>> \in Jobs /\ <<"prepare", t>> \in Jobs
      BY <1>5
    <3>2. CASE jobs' = jobs \cup {<<"advance", t>>}
      BY <1>1, <3>1, <3>2
    <3>3. CASE jobs' = jobs \cup {<<"prepare", t>>}
      BY <1>1, <3>1, <3>3
    <3> QED
      BY <2>1, <3>2, <3>3
  <2> QED
    BY <1>10, <2>1, <2>2
<1>12. ASSUME NEW t \in Targets, Advance(t) PROVE Goal
  <2> DEFINE x == IF task[t].status = "DRAFT" THEN To(task[t], "PENDING_CONFIRM") ELSE task[t]
  <2>1. task' = [task EXCEPT ![t] = x] /\ ext' = ext /\ jobs' \subseteq Jobs
    BY <1>1, <1>12 DEF Advance
  <2>2. x \in Tasks /\ x.item = task[t].item /\ x.retries >= task[t].retries /\
          (x.status = task[t].status \/ (task[t].status = "DRAFT" /\ x.status = "PENDING_CONFIRM"))
    <3>1. To(task[t], "PENDING_CONFIRM") \in Tasks /\ To(task[t], "PENDING_CONFIRM").item = task[t].item
          /\ To(task[t], "PENDING_CONFIRM").status = "PENDING_CONFIRM"
          /\ To(task[t], "PENDING_CONFIRM").retries = task[t].retries
      BY <1>2, <1>3, ToRow
    <3>2. task[t].retries \in Nat
      BY <1>2, TaskRows
    <3> QED
      BY <1>2, <3>1, <3>2
  <2> HIDE DEF x
  <2> QED
    BY <1>2, <1>7, <1>8, <2>1, <2>2 DEF Before, Behind
<1>13. ASSUME NEW t \in Targets, RetryTask(t) PROVE Goal
  <2> DEFINE y == To(task[t], "SUBMITTED")
             x == [y EXCEPT !.retries = task[t].retries + 1]
  <2>1. task' = [task EXCEPT ![t] = x] /\ ext' = ext
    BY <1>13 DEF RetryTask, Retried
  <2>7. jobs' \subseteq Jobs
    BY <1>1, <1>5, <1>13 DEF RetryTask
  <2>2. y \in Tasks /\ y.status = "SUBMITTED" /\ y.item = task[t].item
    BY <1>2, <1>3, ToRow
  <2>3. task[t].retries + 1 \in 0..MaxRetries /\ task[t].retries \in Nat
    <3>1. task[t].retries \in 0..MaxRetries /\ task[t].retries < MaxRetries
      BY <1>2, <1>13 DEF Tasks, RetryTask
    <3> QED
      BY <3>1, ReleaseAssumption
  <2> HIDE DEF y
  <2>4. \A n \in 0..MaxRetries : /\ [y EXCEPT !.retries = n] \in Tasks
                                /\ [y EXCEPT !.retries = n].status = "SUBMITTED"
                                /\ [y EXCEPT !.retries = n].item = y.item
                                /\ [y EXCEPT !.retries = n].retries = n
    BY <2>2 DEF Tasks
  <2>5. x \in Tasks /\ x.status = "SUBMITTED" /\ x.item = task[t].item
        /\ x.retries >= task[t].retries /\ x.retries > 0
    BY <2>2, <2>3, <2>4
  <2>6. task[t].status = "FAILED_RETRYABLE"
    BY <1>13 DEF RetryTask
  <2> HIDE DEF x
  <2> QED
    BY <1>2, <1>7, <1>8, <2>1, <2>5, <2>6, <2>7 DEF Before, Behind
<1>14. ASSUME NEW t \in Targets, NEW answer \in Answers, PrepareAfterRetry(t, answer) PROVE Goal
  <2> DEFINE x == PrepareItem(task[t], answer)
             e == IF Calls(task[t]) THEN Asked(ext[t], answer) ELSE ext[t]
  <2>1. jobs' \subseteq Jobs
    BY <1>1, <1>14 DEF PrepareAfterRetry
  <2>2. CASE task[t].status # "SUBMITTED"
    BY <1>10, <1>14, <2>1, <2>2 DEF PrepareAfterRetry
  <2>3. CASE task[t].status = "SUBMITTED"
    <3>1. task' = [task EXCEPT ![t] = x] /\ ext' = [ext EXCEPT ![t] = e]
      BY <1>1, <1>14, <2>3 DEF PrepareAfterRetry
    <3>2. /\ x \in Tasks /\ x.retries = task[t].retries
          /\ task[t].item # "none" => x = task[t]
          /\ task[t].item = "none" => \/ x.item = answer /\ answer \in {"created", "stub"} /\ x.status = "SUBMITTED"
                                      \/ x.item = "none" /\ x.status = "FAILED_RETRYABLE"
      BY <1>2, <2>3, PrepareItemRow
    <3>3. /\ e \in Items /\ (ext[t].exists => e.exists)
          /\ answer = "created" /\ task[t].item = "none" => e.exists
      BY <1>2, AskedItem DEF Calls
    <3> HIDE DEF x, e
    <3>5. ASSUME task'[t] = x, ext'[t] = e PROVE TaskStep(t, FALSE)
      <4>1. Kept(task[t], ext[t]) => Kept(task'[t], ext'[t])
        BY <2>3, <3>2, <3>3, <3>5 DEF Kept
      <4> QED
        BY <2>3, <3>2, <3>3, <3>5, <4>1 DEF TaskStep, Before, Behind
    <3> QED
      BY <1>6, <2>1, <3>1, <3>2, <3>3, <3>5
  <2> QED
    BY <2>2, <2>3
<1>15. ASSUME NEW t \in Targets, PrepareDies(t) PROVE Goal
  <2> DEFINE e == Asked(ext[t], "lost")
  <2>1. task' = [task EXCEPT ![t] = task[t]] /\ ext' = [ext EXCEPT ![t] = e] /\ jobs' \subseteq Jobs
    BY <1>1, <1>15 DEF PrepareDies
  <2>2. e \in Items /\ (ext[t].exists => e.exists)
    BY <1>2, AskedItem DEF Answers
  <2> HIDE DEF e
  <2>4. ASSUME task'[t] = task[t], ext'[t] = e PROVE TaskStep(t, FALSE)
    BY <1>2, <2>2, <2>4 DEF TaskStep, Kept
  <2> QED
    BY <1>2, <1>6, <2>1, <2>2, <2>4
<1>16. ASSUME NEW t \in Targets, CancelTask(t) PROVE Goal
  <2>1. task[t].status \in {"PENDING_CONFIRM", "FAILED_RETRYABLE"} /\ task' = [task EXCEPT ![t] = To(task[t], "CANCELLED")]
    BY <1>16 DEF CancelTask
  <2> DEFINE x == To(task[t], "CANCELLED")
  <2>2. x \in Tasks /\ x.status = "CANCELLED" /\ x.item = task[t].item /\ x.retries = task[t].retries
        /\ x.retries \in Nat
    BY <1>2, <1>3, ToRow, TaskRows
  <2>3. task' = [task EXCEPT ![t] = x] /\ ext' = [ext EXCEPT ![t] = ext[t]] /\ jobs' \subseteq Jobs
        /\ x.retries >= task[t].retries /\ ext[t] \in Items
    BY <1>1, <1>2, <1>16, <2>1, <2>2 DEF CancelTask
  <2>4. task[t].status \notin {"READY", "CANCELLED"} /\ x.status \notin Behind \cup Before
    BY <2>1, <2>2 DEF Before, Behind
  <2> HIDE DEF x
  <2> QED
    BY <1>7, <2>2, <2>3, <2>4
<1>17. ASSUME NEW t \in Targets, Observe(t) PROVE Goal
  <2> DEFINE x == CASE task[t].status = "SUBMITTED" -> To(task[t], "READY")
                    [] task[t].status = "CANCELLED" -> [task[t] EXCEPT !.late = 1, !.missed = @ + 1]
                    [] OTHER -> task[t]
             n == ext[t].told + 1
             e == [ext[t] EXCEPT !.told = n]
  <2>1. task' = [task EXCEPT ![t] = x] /\ ext' = [ext EXCEPT ![t] = e] /\ jobs' \subseteq Jobs
        /\ ext[t].told < MaxEvents
    BY <1>1, <1>17 DEF Observe
  <2>2. x \in Tasks /\ x.item = task[t].item /\ x.retries = task[t].retries /\ x.retries \in Nat /\
          (x.status = task[t].status \/ (task[t].status = "SUBMITTED" /\ x.status = "READY"))
    <3>1. task[t].missed + 1 \in Nat /\ task[t].retries \in Nat
      BY <1>2, TaskRows DEF Tasks
    <3>2. \A m \in Nat : /\ [task[t] EXCEPT !.late = 1, !.missed = m] \in Tasks
                         /\ [task[t] EXCEPT !.late = 1, !.missed = m].item = task[t].item
                         /\ [task[t] EXCEPT !.late = 1, !.missed = m].retries = task[t].retries
                         /\ [task[t] EXCEPT !.late = 1, !.missed = m].status = task[t].status
      BY <1>2 DEF Tasks
    <3>3. CASE task[t].status = "CANCELLED"
      BY <3>1, <3>2, <3>3
    <3>4. CASE task[t].status = "SUBMITTED"
      BY <1>2, <1>3, <3>1, <3>4, ToRow
    <3>5. CASE task[t].status \notin {"CANCELLED", "SUBMITTED"}
      BY <1>2, <3>1, <3>5
    <3> QED
      BY <3>3, <3>4, <3>5
  <2>3. e \in Items /\ e.exists = ext[t].exists
    <3>1. n \in 0..MaxEvents
      BY <1>2, <2>1, ReleaseAssumption DEF Items
    <3> HIDE DEF n
    <3> QED
      BY <1>2, <3>1 DEF Items
  <2>4. x.retries >= task[t].retries
    BY <2>2
  <2> HIDE DEF x, e
  <2> QED
    BY <1>7, <2>1, <2>2, <2>3, <2>4 DEF Before, Behind
<1>18. ASSUME Restart PROVE Goal
  BY <1>10, <1>18 DEF Restart
<1> QED
  BY <1>9, <1>11, <1>12, <1>13, <1>14, <1>15, <1>16, <1>17, <1>18
     DEF ReleaseNext, ReleaseStep, Goal

-----------------------------------------------------------------------------
(* Test cases *)

CaseStep(c) ==
  /\ case'[c] \in CaseRows
  /\ case[c].status # "absent" => case'[c].ver >= case[c].ver
  /\ case'[c].status = "absent" => case'[c] = case[c]
  /\ case'[c].heals = IF case[c].status = "absent" /\ case'[c].status # "absent" THEN 0
                      ELSE case[c].heals

LEMMA NoCaseRow == NoCase \in CaseRows /\ NoCase.heals = 0 /\ NoCase.ver = 0 /\ NoCase.status = "absent"
  BY DEF NoCase, CaseRows

LEMMA CaseFields ==
  ASSUME NEW r \in CaseRows
  PROVE  /\ r.ver \in Nat /\ r.last \in Nat /\ r.cur \in Nat /\ r.heals \in Nat
         /\ r.reviewed \in SUBSET Nat /\ r.valid \in BOOLEAN
         /\ r.status \in {"absent", "DRAFT", "PENDING_REVIEW", "ACTIVE"}
  BY DEF CaseRows

(* A row that is derived from another, and what it keeps of it.            *)
Derived(x, r) == x \in CaseRows /\ x.ver = r.ver /\ x.heals = r.heals

LEMMA DerivedRows ==
  ASSUME NEW r \in CaseRows
  PROVE  /\ Derived(Extended(r), r) /\ Extended(r).status = r.status
         /\ Derived([r EXCEPT !.status = "PENDING_REVIEW"], r)
         /\ [r EXCEPT !.status = "PENDING_REVIEW"].status = "PENDING_REVIEW"
         /\ Derived([r EXCEPT !.status = "DRAFT"], r)
         /\ [r EXCEPT !.status = "DRAFT"].status = "DRAFT"
         /\ Derived([r EXCEPT !.status = "ACTIVE", !.reviewed = @ \cup {r.cur}], r)
         /\ [r EXCEPT !.status = "ACTIVE", !.reviewed = @ \cup {r.cur}].status = "ACTIVE"
         /\ \A n \in Nat : Derived([r EXCEPT !.cur = n], r) /\ [r EXCEPT !.cur = n].status = r.status
         /\ Derived([r EXCEPT !.valid = FALSE], r) /\ [r EXCEPT !.valid = FALSE].status = r.status
<1>1. r.cur + 1 \in Nat /\ r.reviewed \cup {r.cur} \in SUBSET Nat
  BY CaseFields
<1>2. \A n \in Nat : /\ Derived([r EXCEPT !.last = n, !.cur = n], r)
                     /\ [r EXCEPT !.last = n, !.cur = n].status = r.status
                     /\ Derived([r EXCEPT !.cur = n], r) /\ [r EXCEPT !.cur = n].status = r.status
  BY DEF CaseRows, Derived
<1>3. Extended(r) = [r EXCEPT !.last = r.cur + 1, !.cur = r.cur + 1]
  BY DEF Extended
<1>4. Derived(Extended(r), r) /\ Extended(r).status = r.status
  <2> DEFINE n == r.cur + 1
  <2>1. Extended(r) = [r EXCEPT !.last = n, !.cur = n] /\ n \in Nat
    BY <1>1, <1>3
  <2> HIDE DEF n
  <2>2. Derived([r EXCEPT !.last = n, !.cur = n], r) /\ [r EXCEPT !.last = n, !.cur = n].status = r.status
    BY <1>2, <2>1
  <2> QED
    BY <2>1, <2>2
<1>5. \A R \in SUBSET Nat : /\ Derived([r EXCEPT !.status = "ACTIVE", !.reviewed = R], r)
                            /\ [r EXCEPT !.status = "ACTIVE", !.reviewed = R].status = "ACTIVE"
  BY DEF CaseRows, Derived
<1>6. /\ Derived([r EXCEPT !.status = "ACTIVE", !.reviewed = @ \cup {r.cur}], r)
      /\ [r EXCEPT !.status = "ACTIVE", !.reviewed = @ \cup {r.cur}].status = "ACTIVE"
  BY <1>1, <1>5
<1>7. /\ Derived([r EXCEPT !.status = "PENDING_REVIEW"], r)
      /\ [r EXCEPT !.status = "PENDING_REVIEW"].status = "PENDING_REVIEW"
      /\ Derived([r EXCEPT !.status = "DRAFT"], r)
      /\ [r EXCEPT !.status = "DRAFT"].status = "DRAFT"
      /\ Derived([r EXCEPT !.valid = FALSE], r) /\ [r EXCEPT !.valid = FALSE].status = r.status
  BY DEF CaseRows, Derived
<1> QED
  BY <1>2, <1>4, <1>6, <1>7

LEMMA HealedRow ==
  ASSUME NEW r \in CaseRows
  PROVE  /\ Healed(r) \in CaseRows /\ Healed(r).ver = r.ver + 1 /\ Healed(r).heals = r.heals + 1
         /\ Healed(r).status = r.status
<1> DEFINE x == Extended(r)
<1>1. x \in CaseRows /\ x.ver = r.ver /\ x.heals = r.heals /\ x.status = r.status
  BY DerivedRows DEF Derived
<1>2. x.ver + 1 \in Nat /\ x.heals + 1 \in Nat /\ x.reviewed \cup {r.cur + 1} \in SUBSET Nat
  BY <1>1, CaseFields
<1>3. Healed(r) = [x EXCEPT !.ver = x.ver + 1, !.heals = x.heals + 1, !.reviewed = x.reviewed \cup {r.cur + 1}]
  BY DEF Healed
<1> HIDE DEF x
<1> DEFINE n == x.ver + 1
           h == x.heals + 1
           R == x.reviewed \cup {r.cur + 1}
<1>4. Healed(r) = [x EXCEPT !.ver = n, !.heals = h, !.reviewed = R] /\ n \in Nat /\ h \in Nat /\ R \in SUBSET Nat
  <2>1. r.cur + 1 \in Nat
    BY CaseFields
  <2> QED
    BY <1>2, <1>3, <2>1
<1>5. n = r.ver + 1 /\ h = r.heals + 1
  BY <1>1
<1> HIDE DEF n, h, R
<1>6. /\ [x EXCEPT !.ver = n, !.heals = h, !.reviewed = R] \in CaseRows
      /\ [x EXCEPT !.ver = n, !.heals = h, !.reviewed = R].ver = n
      /\ [x EXCEPT !.ver = n, !.heals = h, !.reviewed = R].heals = h
      /\ [x EXCEPT !.ver = n, !.heals = h, !.reviewed = R].status = x.status
  BY <1>1, <1>4 DEF CaseRows
<1> QED
  BY <1>1, <1>4, <1>5, <1>6

LEMMA CasesSteps ==
  ASSUME CasesTypeOK, CasesNext, NEW q \in CaseIds
  PROVE  CaseStep(q) /\ CasesTypeOK'
<1> DEFINE Goal == CaseStep(q) /\ CasesTypeOK'
<1>1. case \in [CaseIds -> CaseRows] /\ \A c \in CaseIds : case[c] \in CaseRows
  BY DEF CasesTypeOK
<1>2. ASSUME NEW c \in CaseIds, NEW x \in CaseRows, case' = [case EXCEPT ![c] = x], x.status # "absent",
             case[c].status # "absent" => x.ver >= case[c].ver, x.heals = IF case[c].status = "absent" THEN 0 ELSE case[c].heals
      PROVE  Goal
  <2>1. CasesTypeOK'
    BY <1>1, <1>2 DEF CasesTypeOK
  <2>2. case'[q] = IF q = c THEN x ELSE case[q]
    BY <1>1, <1>2
  <2>3. CASE q = c
    BY <1>2, <2>1, <2>2, <2>3 DEF CaseStep
  <2>4. CASE q # c
    <3>1. case[q].ver \in Nat
      BY <1>1, CaseFields
    <3> QED
      BY <1>1, <2>1, <2>2, <2>4, <3>1 DEF CaseStep
  <2> QED
    BY <2>3, <2>4
<1>3. ASSUME NEW c \in CaseIds, NEW x, Derived(x, case[c]), x.status # "absent", Edit(c, x) PROVE Goal
  <2> DEFINE y == [x EXCEPT !.ver = x.ver + 1]
  <2>1. case' = [case EXCEPT ![c] = y] /\ case[c].status # "absent"
    BY <1>3 DEF Edit
  <2>2. x \in CaseRows /\ x.ver = case[c].ver /\ x.heals = case[c].heals /\ x.ver \in Nat
    BY <1>1, <1>3, CaseFields DEF Derived
  <2>3. \A n \in Nat : /\ [x EXCEPT !.ver = n] \in CaseRows /\ [x EXCEPT !.ver = n].ver = n
                       /\ [x EXCEPT !.ver = n].heals = x.heals /\ [x EXCEPT !.ver = n].status = x.status
    BY <2>2 DEF CaseRows
  <2>4. x.ver + 1 \in Nat /\ x.ver + 1 >= case[c].ver
    BY <2>2
  <2>5. y \in CaseRows /\ y.ver >= case[c].ver /\ y.heals = case[c].heals /\ y.status # "absent"
    BY <1>3, <2>2, <2>3, <2>4
  <2> HIDE DEF y
  <2> QED
    BY <1>2, <2>1, <2>5
<1>4. ASSUME NEW c \in CaseIds, Drafted(c) PROVE Goal
  <2> DEFINE x == [NoCase EXCEPT !.status = "DRAFT", !.ver = 1, !.last = 1, !.cur = 1]
  <2>1. case' = [case EXCEPT ![c] = x] /\ case[c].status = "absent"
    BY <1>4 DEF Drafted
  <2>2. x \in CaseRows /\ x.ver = 1 /\ x.heals = 0 /\ x.status = "DRAFT"
    BY NoCaseRow DEF CaseRows
  <2> HIDE DEF x
  <2> QED
    BY <1>2, <2>1, <2>2
<1> HIDE DEF Goal
<1>5. ASSUME NEW c \in CaseIds, PatchDraft(c) \/ SubmitReview(c) PROVE Goal
  <2>1. CASE PatchDraft(c)
    <3>1. Edit(c, Extended(case[c])) /\ case[c].status = "DRAFT"
      BY <2>1 DEF PatchDraft
    <3>2. Derived(Extended(case[c]), case[c]) /\ Extended(case[c]).status = "DRAFT"
      BY <1>1, <3>1, DerivedRows
    <3> QED
      BY <1>3, <3>1, <3>2
  <2>2. CASE SubmitReview(c)
    <3> DEFINE x == [case[c] EXCEPT !.status = "PENDING_REVIEW"]
    <3>1. Edit(c, x)
      BY <2>2 DEF SubmitReview
    <3>2. Derived(x, case[c]) /\ x.status = "PENDING_REVIEW"
      BY <1>1, DerivedRows
    <3> HIDE DEF x
    <3> QED
      BY <1>3, <3>1, <3>2
  <2> QED
    BY <1>5, <2>1, <2>2
<1>6. ASSUME NEW c \in CaseIds, NEW approve \in BOOLEAN, Review(c, approve) PROVE Goal
  <2> DEFINE x == [case[c] EXCEPT !.status = "ACTIVE", !.reviewed = @ \cup {case[c].cur}]
             y == [case[c] EXCEPT !.status = "DRAFT"]
  <2>1. Edit(c, IF approve THEN x ELSE y)
    BY <1>6 DEF Review
  <2>2. Derived(x, case[c]) /\ x.status = "ACTIVE" /\ Derived(y, case[c]) /\ y.status = "DRAFT"
    BY <1>1, DerivedRows
  <2> HIDE DEF x, y
  <2>3. CASE approve
    BY <1>3, <2>1, <2>2, <2>3
  <2>4. CASE ~approve
    BY <1>3, <2>1, <2>2, <2>4
  <2> QED
    BY <2>3, <2>4
<1>7. ASSUME NEW c \in CaseIds, NEW seq \in 1..case[c].last, Rollback(c, seq) PROVE Goal
  <2> DEFINE x == [case[c] EXCEPT !.cur = seq]
  <2>1. Edit(c, x) /\ case[c].status # "absent"
    BY <1>7 DEF Rollback, Edit
  <2>2. seq \in Nat
    BY <1>1, CaseFields
  <2>3. Derived(x, case[c]) /\ x.status = case[c].status
    BY <1>1, <2>2, DerivedRows
  <2> HIDE DEF x
  <2> QED
    BY <1>3, <2>1, <2>3
<1>8. ASSUME NEW c \in CaseIds, Invalidate(c) PROVE Goal
  <2> DEFINE x == [case[c] EXCEPT !.valid = FALSE]
  <2>1. Edit(c, x) /\ case[c].status # "absent"
    BY <1>8 DEF Invalidate, Edit
  <2>2. Derived(x, case[c]) /\ x.status = case[c].status
    BY <1>1, DerivedRows
  <2> HIDE DEF x
  <2> QED
    BY <1>3, <2>1, <2>2
<1>9. Goal
  BY <1>4, <1>5, <1>6, <1>7, <1>8 DEF CasesNext, CreateDraft, DraftFromTrajectory
<1> QED
  BY <1>9 DEF Goal

-----------------------------------------------------------------------------
(* What a step does to the requests *)

(* A request is not decided yet while it is pending, or held; who holds it *)
(* is not who asked; and who decided it is not, either.                    *)
Sound(i) ==
  /\ appr[i].status = "PENDING" => appr[i].res = "none"
  /\ busy[i] # NoOne => appr[i].status = "PENDING" /\ busy[i] # appr[i].init
  /\ appr[i].res # "none" => appr[i].init # appr[i].approver

AllSound == \A i \in DOMAIN appr : Sound(i)

RequestTypeOK ==
  /\ appr \in Seq(Requests)
  /\ busy \in [DOMAIN appr -> Users \cup {NoOne}]

(* A request is left alone, or expires.                                    *)
Left(j) ==
  /\ appr'[j].init = appr[j].init /\ appr'[j].target = appr[j].target
  /\ appr'[j].approver = appr[j].approver /\ appr'[j].tv = appr[j].tv
  /\ appr'[j].res = appr[j].res /\ appr'[j].shown = appr[j].shown
  /\ appr'[j].status \in {appr[j].status, "EXPIRED"}

(* Requests may come, and none is decided.                                 *)
NoVerdict ==
  /\ RequestTypeOK' /\ AllSound' /\ kind' = kind
  /\ DOMAIN appr \subseteq DOMAIN appr'
  /\ \A j \in DOMAIN appr : Left(j)
  /\ \A j \in DOMAIN appr' \ DOMAIN appr :
       /\ appr'[j].status = "PENDING" /\ appr'[j].res = "none"
       /\ appr'[j].shown \in {0} \cup DOMAIN evals[appr'[j].target]
       /\ \/ \E i \in DOMAIN appr : appr'[j].target = appr[i].target
          \/ kind = "env_register" => env'[appr'[j].target] # "absent"

(* One request is decided.                                                 *)
Verdict(i, status, res) ==
  /\ RequestTypeOK' /\ AllSound' /\ kind' = kind
  /\ DOMAIN appr' = DOMAIN appr
  /\ appr[i].status = "PENDING" /\ appr[i].res = "none"
  /\ \A j \in DOMAIN appr : j # i => appr'[j] = appr[j]
  /\ appr'[i].target = appr[i].target /\ appr'[i].tv = appr[i].tv
  /\ appr'[i].status = status /\ appr'[i].res = res /\ appr'[i].shown = appr[i].shown

(* The evaluation a request names exists.                                  *)
Named == \A i \in DOMAIN appr : appr[i].shown \in {0} \cup DOMAIN evals[appr[i].target]

LEMMA Alone ==
  ASSUME TypeOK, AllSound, UNCHANGED <<appr, kind>>,
         busy' = busy \/ \E i \in DOMAIN appr : busy' = [busy EXCEPT ![i] = NoOne]
  PROVE  NoVerdict
<1>1. busy' \in [DOMAIN appr -> Users \cup {NoOne}] /\ \A j \in DOMAIN appr : busy'[j] \in {busy[j], NoOne}
  BY DEF TypeOK
<1>2. AllSound'
  BY <1>1 DEF AllSound, Sound
<1> QED
  BY <1>1, <1>2 DEF NoVerdict, RequestTypeOK, TypeOK, Left

LEMMA Held ==
  ASSUME TypeOK, AllSound, UNCHANGED <<appr, kind>>, NEW i \in DOMAIN appr, NEW u \in Users,
         busy' = [busy EXCEPT ![i] = u], appr[i].status = "PENDING", u # appr[i].init
  PROVE  NoVerdict
<1>1. busy' \in [DOMAIN appr -> Users \cup {NoOne}]
      /\ \A j \in DOMAIN appr : busy'[j] = IF j = i THEN u ELSE busy[j]
  BY DEF TypeOK
<1>2. AllSound'
  BY <1>1 DEF AllSound, Sound
<1> QED
  BY <1>1, <1>2 DEF NoVerdict, RequestTypeOK, TypeOK, Left

LEMMA Touched ==
  ASSUME TypeOK, AllSound, UNCHANGED <<busy, kind>>, NEW i \in DOMAIN appr, NEW x \in Requests,
         appr' = [appr EXCEPT ![i] = x],
         \/ x = [appr[i] EXCEPT !.late = TRUE]
         \/ x = Expired(appr[i]) /\ busy[i] = NoOne
  PROVE  NoVerdict
<1>1. /\ appr' \in Seq(Requests) /\ DOMAIN appr' = DOMAIN appr
      /\ \A j \in DOMAIN appr : appr'[j] = IF j = i THEN x ELSE appr[j]
  BY PutEffect
<1>2. appr[i] \in Requests
  <2>1. DOMAIN appr = 1..Len(appr)
    BY LenProperties DEF TypeOK
  <2> QED
    BY <2>1, ElementOfSeq DEF TypeOK
<1>3. /\ x.init = appr[i].init /\ x.target = appr[i].target /\ x.approver = appr[i].approver
      /\ x.tv = appr[i].tv /\ x.res = appr[i].res /\ x.shown = appr[i].shown
      /\ x.status = appr[i].status \/ (x.status = "EXPIRED" /\ busy[i] = NoOne)
  BY <1>2 DEF Requests, Expired
<1>4. \A j \in DOMAIN appr : Left(j)
  BY <1>1, <1>3 DEF Left
<1>5. AllSound'
  BY <1>1, <1>3 DEF AllSound, Sound
<1> QED
  BY <1>1, <1>4, <1>5 DEF NoVerdict, RequestTypeOK, TypeOK

LEMMA Asks ==
  ASSUME TypeOK, AllSound, UNCHANGED kind, NEW before \in Seq(Requests), NEW x \in Requests,
         DOMAIN before = DOMAIN appr,
         \A j \in DOMAIN appr : before[j] = appr[j] \/ (before[j] = Expired(appr[j]) /\ busy[j] = NoOne),
         appr' = Append(before, x), busy' = Append(busy, NoOne),
         x.status = "PENDING", x.res = "none", x.shown \in {0} \cup DOMAIN evals[x.target],
         \/ \E i \in DOMAIN appr : x.target = appr[i].target
         \/ kind = "env_register" => env'[x.target] # "absent"
  PROVE  NoVerdict
<1>1. /\ RequestTypeOK'
      /\ DOMAIN appr' = DOMAIN appr \cup {Len(appr) + 1} /\ Len(appr) + 1 \notin DOMAIN appr
      /\ appr'[Len(appr) + 1] = x /\ busy'[Len(appr) + 1] = NoOne
      /\ \A j \in DOMAIN appr : appr'[j] = before[j] /\ busy'[j] = busy[j]
  BY AskedEffect DEF RequestTypeOK
<1>2. \A j \in DOMAIN appr : appr[j] \in Requests
  <2>1. DOMAIN appr = 1..Len(appr)
    BY LenProperties DEF TypeOK
  <2> QED
    BY <2>1, ElementOfSeq DEF TypeOK
<1>3. \A j \in DOMAIN appr : Left(j) /\ Sound(j)'
  <2> TAKE j \in DOMAIN appr
  <2>0. Sound(j) /\ appr'[j] = before[j] /\ busy'[j] = busy[j]
    BY <1>1 DEF AllSound
  <2>1. CASE before[j] = appr[j]
    BY <2>0, <2>1 DEF Left, Sound
  <2>2. CASE before[j] = Expired(appr[j]) /\ busy[j] = NoOne
    <3>1. /\ Expired(appr[j]).init = appr[j].init /\ Expired(appr[j]).target = appr[j].target
          /\ Expired(appr[j]).approver = appr[j].approver /\ Expired(appr[j]).tv = appr[j].tv
          /\ Expired(appr[j]).res = appr[j].res /\ Expired(appr[j]).status = "EXPIRED"
          /\ Expired(appr[j]).shown = appr[j].shown
      BY <1>2 DEF Requests, Expired
    <3> QED
      BY <2>0, <2>2, <3>1 DEF Left, Sound
  <2> QED
    BY <2>1, <2>2
<1>4. AllSound'
  BY <1>1, <1>3 DEF AllSound, Sound
<1> QED
  BY <1>1, <1>3, <1>4 DEF NoVerdict

LEMMA Settles ==
  ASSUME TypeOK, AllSound, NEW i \in DOMAIN appr, NEW status \in Statuses \ {"PENDING"},
         NEW res \in {"none", "ok", "failed"}, Settle(i, status, res)
  PROVE  Verdict(i, status, res) /\ UNCHANGED <<owners, stale>>
<1> DEFINE x == Decided(appr[i], status, res, busy[i])
<1>1. DOMAIN appr = 1..Len(appr) /\ appr[i] \in Requests
  <2>1. DOMAIN appr = 1..Len(appr)
    BY LenProperties DEF TypeOK
  <2> QED
    BY <2>1, ElementOfSeq DEF TypeOK
<1>2. busy[i] \in Users /\ busy[i] # NoOne /\ appr' = [appr EXCEPT ![i] = x]
      /\ busy' = [busy EXCEPT ![i] = NoOne] /\ UNCHANGED <<kind, owners, stale>>
  BY DEF Settle, TypeOK
<1>3. x \in Requests
  BY <1>1, <1>2, RequestTypes
<1>4. x.init = appr[i].init /\ x.target = appr[i].target /\ x.tv = appr[i].tv
      /\ x.status = status /\ x.res = res /\ x.approver = busy[i] /\ x.shown = appr[i].shown
  BY <1>1 DEF Requests, Decided
<1> HIDE DEF x
<1>5. /\ appr' \in Seq(Requests) /\ DOMAIN appr' = DOMAIN appr
      /\ \A j \in DOMAIN appr : appr'[j] = IF j = i THEN x ELSE appr[j]
  BY <1>2, <1>3, PutEffect
<1>6. busy' \in [DOMAIN appr -> Users \cup {NoOne}]
      /\ \A j \in DOMAIN appr : busy'[j] = IF j = i THEN NoOne ELSE busy[j]
  BY <1>2 DEF TypeOK
<1>7. appr[i].status = "PENDING" /\ appr[i].res = "none" /\ busy[i] # appr[i].init
  BY <1>2 DEF AllSound, Sound
<1>8. AllSound'
  BY <1>4, <1>5, <1>6, <1>7 DEF AllSound, Sound
<1> QED
  BY <1>2, <1>4, <1>5, <1>6, <1>7, <1>8 DEF Verdict, RequestTypeOK

-----------------------------------------------------------------------------
(* The steps of Approval, by what they do to requests and objects *)

TasksCalm == \A t \in Targets : TaskStep(t, FALSE)
OthersCalm(i) == \A t \in Targets : t # appr[i].target => TaskStep(t, FALSE)

Calm == NoVerdict /\ UNCHANGED <<env, case, evals>> /\ jira'.refs = jira.refs /\ TasksCalm

Registered ==
  /\ NoVerdict /\ UNCHANGED <<case, evals, jira>> /\ TasksCalm
  /\ kind = "env_register"
  /\ \E t \in Targets : env[t] = "absent" /\ env' = [env EXCEPT ![t] = "PENDING_APPROVAL"]

Disabled ==
  /\ NoVerdict /\ UNCHANGED <<case, evals, jira>> /\ TasksCalm
  /\ \E t \in Targets : env[t] = "ACTIVE" /\ env' = [env EXCEPT ![t] = "DISABLED"]

Evaluated ==
  /\ NoVerdict /\ UNCHANGED <<env, case, jira>> /\ TasksCalm
  /\ \E t \in Targets : evals' = [evals EXCEPT ![t] = Append(@, 0)]

CasesMoved ==
  /\ NoVerdict /\ UNCHANGED <<env, evals, jira>> /\ TasksCalm
  /\ kind = "heal_apply" /\ \A c \in CaseIds : CaseStep(c)

(* Decided without success.                                                *)
NotGranted(i) ==
  /\ \E status \in Statuses, res \in {"none", "failed"} :
       /\ Verdict(i, status, res)
       /\ status = "APPROVED" /\ kind = "env_register" => env[appr[i].target] # "PENDING_APPROVAL"
  /\ UNCHANGED <<env, case, evals>> /\ jira'.refs = jira.refs
  /\ OthersCalm(i) /\ TaskStep(appr[i].target, appr'[i].res # "none")

Succeeds(i) == Verdict(i, "EXECUTED", "ok") /\ OthersCalm(i)

GrantedRelease(i) ==
  /\ Succeeds(i) /\ kind = "release_push"
  /\ UNCHANGED <<env, case, evals, jira>>
  /\ TaskStep(appr[i].target, TRUE)
  /\ task[appr[i].target].status = "PENDING_CONFIRM"
  /\ task[appr[i].target].item # "none" \/ task'[appr[i].target].status \notin Before

GrantedEnv(i) ==
  /\ Succeeds(i) /\ TaskStep(appr[i].target, FALSE) /\ kind = "env_register"
  /\ UNCHANGED <<case, evals, jira>>
  /\ env[appr[i].target] = "PENDING_APPROVAL"
  /\ env' = [env EXCEPT ![appr[i].target] = "ACTIVE"]

GrantedHeal(i) ==
  /\ Succeeds(i) /\ TaskStep(appr[i].target, FALSE) /\ kind = "heal_apply"
  /\ UNCHANGED <<env, evals, jira>>
  /\ Healable(case[appr[i].target], appr[i].tv)
  /\ case' = [case EXCEPT ![appr[i].target] = Healed(@)]

GrantedWaiver(i) ==
  /\ Succeeds(i) /\ TaskStep(appr[i].target, FALSE) /\ kind = "gate_waiver"
  /\ UNCHANGED <<env, case, jira>>
  /\ \E e \in DOMAIN evals[appr[i].target] :
       /\ evals[appr[i].target][e] = 0
       /\ evals' = [evals EXCEPT ![appr[i].target] = [evals[appr[i].target] EXCEPT ![e] = i]]

GrantedJira(i) ==
  /\ Succeeds(i) /\ TaskStep(appr[i].target, FALSE) /\ kind = "jira_write"
  /\ UNCHANGED <<env, case, evals>>
  /\ jira'.refs = jira.refs \cup {i}

GrantedOther(i) ==
  /\ Succeeds(i) /\ TaskStep(appr[i].target, FALSE) /\ kind = "kill_switch_restore"
  /\ UNCHANGED <<env, case, evals, jira>>

Stepped ==
  \/ Calm \/ Registered \/ Disabled \/ Evaluated \/ CasesMoved
  \/ \E i \in DOMAIN appr :
       \/ NotGranted(i) \/ GrantedRelease(i) \/ GrantedEnv(i) \/ GrantedHeal(i)
       \/ GrantedWaiver(i) \/ GrantedJira(i) \/ GrantedOther(i)

LEMMA Places ==
  ASSUME TypeOK
  PROVE  /\ DOMAIN appr = 1..Len(appr) /\ Len(appr) \in Nat
         /\ \A i \in DOMAIN appr : appr[i] \in Requests /\ appr[i].target \in Targets
<1>1. DOMAIN appr = 1..Len(appr) /\ Len(appr) \in Nat
  BY LenProperties DEF TypeOK
<1>2. \A i \in DOMAIN appr : appr[i] \in Requests
  BY <1>1, ElementOfSeq DEF TypeOK
<1> QED
  BY <1>1, <1>2 DEF Requests

LEMMA CalmTasks == ASSUME TypeOK, UNCHANGED <<task, ext>> PROVE TasksCalm
  BY Unmoved DEF TasksCalm, TypeOK

(* A step that decides nothing and leaves the objects alone.               *)
LEMMA CalmStep ==
  ASSUME TypeOK, NoVerdict, UNCHANGED <<task, jobs, ext, objects>>, owners' \subseteq Users,
         stale' \subseteq DOMAIN appr
  PROVE  TypeOK' /\ Stepped
<1>1. Calm
  BY CalmTasks DEF Calm, objects
<1>2. TypeOK'
  BY DEF TypeOK, NoVerdict, RequestTypeOK, ReleaseTypeOK, CasesTypeOK, objects
<1> QED
  BY <1>1, <1>2 DEF Stepped

(* Requests that come.                                                     *)
LEMMA NewRequest ==
  ASSUME TypeOK, AllSound, UNCHANGED <<kind, owners, stale, task, jobs, ext>>,
         NEW u \in Users, NEW t \in Targets, NEW approver \in Users,
         NEW fit \in BOOLEAN, NEW tv \in Nat, NEW shown \in Nat, NEW byRun \in BOOLEAN,
         Ask(New(u, t, approver, fit, tv, shown, byRun)),
         shown \in {0} \cup DOMAIN evals[t],
         kind = "env_register" => env'[t] # "absent"
  PROVE  NoVerdict
<1> DEFINE x == New(u, t, approver, fit, tv, shown, byRun)
<1>1. x \in Requests /\ x.status = "PENDING" /\ x.res = "none" /\ x.target = t /\ x.shown = shown
  BY NewType DEF New
<1>2. appr' = Append(appr, x) /\ busy' = Append(busy, NoOne)
  BY DEF Ask
<1> HIDE DEF x
<1> QED
  BY <1>1, <1>2, Asks DEF TypeOK

LEMMA RequestSteps ==
  ASSUME TypeOK, AllSound, Named,
         \/ \E u \in Users, t \in Targets : Preview(u, t)
         \/ \E i \in DOMAIN appr :
              \/ Lapse(i) \/ Expire(i) \/ ReadOverdue(i) \/ WriteExpired(i)
              \/ \E u \in Users : Lock(u, i) \/ Resubmit(u, i)
         \/ \E u \in Users : Demote(u)
         \/ UNCHANGED vars
  PROVE  TypeOK' /\ Stepped
<1> DEFINE Goal == TypeOK' /\ Stepped
<1> HIDE DEF Goal
<1>1. ASSUME NoVerdict, UNCHANGED <<task, jobs, ext, objects>>, owners' \subseteq Users,
             stale' \subseteq DOMAIN appr
      PROVE  Goal
  BY <1>1, CalmStep DEF Goal
<1>2. owners \subseteq Users /\ stale \subseteq DOMAIN appr
  BY DEF TypeOK
<1>3. ASSUME NEW u \in Users, NEW t \in Targets, Preview(u, t) PROVE Goal
  <2>1. PICK approver \in Candidates(u), fit \in Payloads, byRun \in BOOLEAN, tv \in VersionsFor(t) :
          \E shown \in ShownBy(t, byRun) : Ask(New(u, t, approver, fit, tv, shown, byRun))
    BY <1>3 DEF Preview
  <2>2. PICK shown \in ShownBy(t, byRun) : Ask(New(u, t, approver, fit, tv, shown, byRun))
    BY <2>1
  <2>3. UNCHANGED <<task, jobs, ext, kind, owners, stale, objects>>
        /\ (kind = "env_register" => env'[t] # "absent")
    BY <1>3 DEF Preview, MayAsk, objects
  <2>4. approver \in Users /\ fit \in BOOLEAN
    BY <1>2 DEF Candidates, Payloads
  <2>5. tv \in Nat
    BY CaseFields, ApprovalAssumption DEF VersionsFor, TypeOK, CasesTypeOK
  <2>6. shown \in Nat /\ shown \in {0} \cup DOMAIN evals[t]
    <3>1. evals[t] \in Seq(Nat)
      BY DEF TypeOK
    <3>2. Len(evals[t]) \in Nat /\ DOMAIN evals[t] = 1..Len(evals[t])
      BY <3>1, LenProperties
    <3> QED
      BY <3>2 DEF ShownBy
  <2>7. NoVerdict
    BY <2>2, <2>3, <2>4, <2>5, <2>6, NewRequest
  <2> QED
    BY <1>1, <1>2, <2>3, <2>7
<1>4. ASSUME NEW i \in DOMAIN appr, Lapse(i) PROVE Goal
  <2> DEFINE x == [appr[i] EXCEPT !.late = TRUE]
  <2>1. x \in Requests
    BY Places, RequestTypes
  <2>2. appr' = [appr EXCEPT ![i] = x] /\ UNCHANGED <<task, jobs, ext, kind, owners, busy, stale, objects>>
    BY <1>4 DEF Lapse
  <2>3. NoVerdict
    BY <2>1, <2>2, Touched
  <2> QED
    BY <1>1, <1>2, <2>2, <2>3
<1>5. ASSUME NEW i \in DOMAIN appr, busy[i] = NoOne, appr' = [appr EXCEPT ![i] = Expired(appr[i])],
             stale' \subseteq stale, UNCHANGED <<task, jobs, ext, kind, owners, busy, objects>>
      PROVE  Goal
  <2>1. Expired(appr[i]) \in Requests
    BY Places, RequestTypes
  <2>2. NoVerdict
    BY <1>5, <2>1, Touched
  <2> QED
    BY <1>1, <1>2, <1>5, <2>2
<1>6. ASSUME NEW i \in DOMAIN appr, Expire(i) \/ WriteExpired(i) PROVE Goal
  BY <1>5, <1>6 DEF Expire, WriteExpired
<1>7. ASSUME NEW i \in DOMAIN appr, ReadOverdue(i) PROVE Goal
  BY <1>1, <1>2, <1>7, Alone DEF ReadOverdue
<1>8. ASSUME NEW i \in DOMAIN appr, NEW u \in Users, Lock(u, i) PROVE Goal
  <2>1. NoVerdict
    BY <1>8, Held DEF Lock, MayDecide
  <2> QED
    BY <1>1, <1>2, <1>8, <2>1 DEF Lock
<1>9. ASSUME NEW i \in DOMAIN appr, NEW u \in Users, Resubmit(u, i) PROVE Goal
  <2> DEFINE t == appr[i].target
             closed == IF appr[i].status = "PENDING" THEN Expired(appr[i]) ELSE appr[i]
             before == [appr EXCEPT ![i] = closed]
  <2>1. PICK approver \in Candidates(u), fit \in Payloads, tv \in VersionsFor(t) \cup {appr[i].tv} :
          appr' = Append(before, New(u, t, approver, fit, tv, appr[i].shown, appr[i].byRun))
    BY <1>9 DEF Resubmit
  <2> DEFINE x == New(u, t, approver, fit, tv, appr[i].shown, appr[i].byRun)
  <2>2. /\ busy[i] = NoOne /\ busy' = Append(busy, NoOne)
        /\ UNCHANGED <<task, jobs, ext, kind, owners, stale, objects>>
    BY <1>9 DEF Resubmit
  <2>3. appr[i] \in Requests /\ t \in Targets
    BY Places
  <2>4. x \in Requests
    <3>1. approver \in Users /\ fit \in BOOLEAN
      BY <1>2 DEF Candidates, Payloads
    <3>2. tv \in Nat
      BY <2>3, CaseFields, ApprovalAssumption DEF VersionsFor, TypeOK, CasesTypeOK, Requests
    <3>3. appr[i].byRun \in BOOLEAN /\ appr[i].shown \in Nat
      BY <2>3 DEF Requests
    <3> QED
      BY <2>3, <3>1, <3>2, <3>3, NewType
  <2>5. x.status = "PENDING" /\ x.res = "none" /\ x.target = t
        /\ x.shown \in {0} \cup DOMAIN evals[t]
    BY DEF New, Named
  <2>6. closed \in Requests /\ (closed = appr[i] \/ closed = Expired(appr[i]))
    BY <2>3, RequestTypes
  <2> HIDE DEF closed, x
  <2>7. /\ before \in Seq(Requests) /\ DOMAIN before = DOMAIN appr
        /\ \A j \in DOMAIN appr : before[j] = IF j = i THEN closed ELSE appr[j]
    <3>1. i \in 1..Len(appr) /\ appr \in Seq(Requests) /\ DOMAIN appr = 1..Len(appr)
      BY Places DEF TypeOK
    <3>2. /\ before \in Seq(Requests) /\ Len(before) = Len(appr)
          /\ \A j \in 1..Len(appr) : before[j] = IF j = i THEN closed ELSE appr[j]
      BY <2>6, <3>1, ExceptSeq
    <3>3. DOMAIN before = 1..Len(before)
      BY <3>2, LenProperties
    <3> QED
      BY <3>1, <3>2, <3>3
  <2> HIDE DEF before
  <2>8. appr' = Append(before, x)
    BY <2>1 DEF x
  <2>9. \A j \in DOMAIN appr : before[j] = appr[j] \/ (before[j] = Expired(appr[j]) /\ busy[j] = NoOne)
    BY <2>2, <2>6, <2>7
  <2>10. NoVerdict
    BY <2>2, <2>4, <2>5, <2>7, <2>8, <2>9, Asks
  <2> QED
    BY <1>1, <1>2, <2>2, <2>10
<1>10. ASSUME NEW u \in Users, Demote(u) PROVE Goal
  BY <1>1, <1>2, <1>10, Alone DEF Demote
<1>11. ASSUME UNCHANGED vars PROVE Goal
  <2>1. UNCHANGED <<appr, kind, busy, task, jobs, ext, owners, stale, env, case, evals, jira>>
    BY <1>11 DEF vars
  <2>2. NoVerdict
    BY <2>1, Alone
  <2> QED
    BY <1>1, <1>2, <2>1, <2>2 DEF objects
<1>12. Goal
  <2>1. CASE \E i \in DOMAIN appr : \/ Lapse(i) \/ Expire(i) \/ ReadOverdue(i) \/ WriteExpired(i)
                                   \/ \E u \in Users : Lock(u, i) \/ Resubmit(u, i)
    BY <2>1, <1>4, <1>6, <1>7, <1>8, <1>9
  <2>2. CASE \E u \in Users, t \in Targets : Preview(u, t)
    BY <2>2, <1>3
  <2>3. CASE \E u \in Users : Demote(u)
    BY <2>3, <1>10
  <2> QED
    BY <2>1, <2>2, <2>3, <1>11
<1> QED
  BY <1>12 DEF Goal

LEMMA ObjectSteps ==
  ASSUME TypeOK, AllSound,
         \/ \E u \in Users, t \in Targets : RegisterEnv(u, t)
         \/ \E t \in Targets : DisableEnv(t) \/ Evaluate(t)
         \/ /\ kind = "release_push" /\ ReleaseNext
            /\ UNCHANGED <<kind, owners, appr, busy, stale, objects>>
         \/ /\ kind = "heal_apply" /\ CasesNext
            /\ UNCHANGED <<task, jobs, ext, kind, owners, appr, busy, stale, env, evals, jira>>
         \/ \E i \in DOMAIN appr : DecisionDies(i)
  PROVE  TypeOK' /\ Stepped
<1> DEFINE Goal == TypeOK' /\ Stepped
<1> HIDE DEF Goal
<1>1. ASSUME NEW u \in Users, NEW t \in Targets, RegisterEnv(u, t) PROVE Goal
  <2>1. PICK approver \in Candidates(u) : Ask(New(u, t, approver, TRUE, 0, 0, FALSE))
    BY <1>1 DEF RegisterEnv, AskForEnv
  <2>2. /\ UNCHANGED <<task, jobs, ext, kind, owners, stale, case, evals, jira>>
        /\ kind = "env_register" /\ env[t] = "absent"
        /\ env' = [env EXCEPT ![t] = "PENDING_APPROVAL"]
    BY <1>1 DEF RegisterEnv, MayRegister
  <2>3. env' \in [Targets -> {"absent", "PENDING_APPROVAL", "ACTIVE", "DISABLED"}] /\ env'[t] # "absent"
    BY <2>2 DEF TypeOK
  <2>4. approver \in Users
    BY DEF Candidates, TypeOK
  <2>5. NoVerdict
    BY <2>1, <2>2, <2>3, <2>4, NewRequest
  <2>6. Registered
    BY <2>2, <2>5, CalmTasks DEF Registered
  <2>7. TypeOK'
    BY <2>2, <2>3, <2>5 DEF TypeOK, NoVerdict, RequestTypeOK, ReleaseTypeOK, CasesTypeOK
  <2> QED
    BY <2>6, <2>7 DEF Goal, Stepped
<1>2. ASSUME NEW t \in Targets, DisableEnv(t) PROVE Goal
  <2>1. NoVerdict
    BY <1>2, Alone DEF DisableEnv
  <2>2. Disabled
    BY <1>2, <2>1, CalmTasks DEF DisableEnv, Disabled
  <2>3. TypeOK'
    BY <1>2 DEF DisableEnv, TypeOK, ReleaseTypeOK, CasesTypeOK
  <2> QED
    BY <2>2, <2>3 DEF Goal, Stepped
<1>3. ASSUME NEW t \in Targets, Evaluate(t) PROVE Goal
  <2>1. NoVerdict
    BY <1>3, Alone DEF Evaluate
  <2>2. Evaluated
    BY <1>3, <2>1, CalmTasks DEF Evaluate, Evaluated
  <2>3. Append(evals[t], 0) \in Seq(Nat)
    <3>1. evals[t] \in Seq(Nat) /\ 0 \in Nat
      BY DEF TypeOK
    <3> QED
      BY <3>1, AppendProperties
  <2>4. TypeOK'
    BY <1>3, <2>3 DEF Evaluate, TypeOK, ReleaseTypeOK, CasesTypeOK
  <2> QED
    BY <2>2, <2>4 DEF Goal, Stepped
<1>4. ASSUME ReleaseNext, UNCHANGED <<kind, owners, appr, busy, stale, objects>> PROVE Goal
  <2>1. NoVerdict
    BY <1>4, Alone
  <2>2. TasksCalm /\ ReleaseTypeOK'
    <3>1. ReleaseTypeOK /\ (\A t \in Targets : TaskStep(t, FALSE))
      BY <1>4, ReleaseSteps DEF TypeOK
    <3>2. CASE Targets = {}
      <4>1. ReleaseNext => Restart
        BY <3>2 DEF ReleaseNext
      <4> QED
        BY <1>4, <3>1, <4>1 DEF Restart, ReleaseTypeOK, TasksCalm
    <3>3. CASE Targets # {}
      BY <1>4, <3>1, <3>3, ReleaseSteps DEF ReleaseTypeOK, TasksCalm
    <3> QED
      BY <3>2, <3>3
  <2>3. Calm
    BY <1>4, <2>1, <2>2 DEF Calm, objects
  <2>4. TypeOK'
    BY <1>4, <2>2 DEF TypeOK, CasesTypeOK, objects
  <2> QED
    BY <2>3, <2>4 DEF Goal, Stepped
<1>5. ASSUME kind = "heal_apply", CasesNext,
             UNCHANGED <<task, jobs, ext, kind, owners, appr, busy, stale, env, evals, jira>>
      PROVE  Goal
  <2>1. NoVerdict
    BY <1>5, Alone
  <2>2. (\A c \in CaseIds : CaseStep(c)) /\ CasesTypeOK'
    <3>1. \E c \in CaseIds : TRUE
      BY <1>5 DEF CasesNext
    <3> QED
      BY <1>5, <3>1, CasesSteps DEF TypeOK
  <2>3. CasesMoved
    BY <1>5, <2>1, <2>2, CalmTasks DEF CasesMoved
  <2>4. TypeOK'
    BY <1>5, <2>2 DEF TypeOK, ReleaseTypeOK
  <2> QED
    BY <2>3, <2>4 DEF Goal, Stepped
<1>6. ASSUME NEW i \in DOMAIN appr, DecisionDies(i) PROVE Goal
  <2> DEFINE t == appr[i].target
  <2>1. /\ busy' = [busy EXCEPT ![i] = NoOne] /\ jobs' = {}
        /\ UNCHANGED <<task, kind, owners, appr, stale, env, case, evals>>
        /\ \/ UNCHANGED <<ext, jira>>
           \/ ext' = [ext EXCEPT ![t] = Asked(@, "lost")] /\ UNCHANGED jira
           \/ jira' = [jira EXCEPT !.issues = @ \cup {i}] /\ UNCHANGED ext
    BY <1>6 DEF DecisionDies
  <2>2. NoVerdict
    BY <2>1, Alone
  <2>3. t \in Targets /\ task[t] \in Tasks /\ ext[t] \in Items /\ task'[t] = task[t]
    BY <2>1, Places DEF TypeOK, ReleaseTypeOK
  <2>4. TasksCalm /\ ext' \in [Targets -> Items]
    <3>1. CASE UNCHANGED ext
      BY <2>1, <3>1, CalmTasks DEF TypeOK, ReleaseTypeOK
    <3>2. CASE ext' = [ext EXCEPT ![t] = Asked(@, "lost")]
      <4> DEFINE e == Asked(ext[t], "lost")
      <4>1. e \in Items /\ (ext[t].exists => e.exists)
        BY <2>3, AskedItem DEF Answers
      <4>2. ext' = [ext EXCEPT ![t] = e]
        BY <3>2
      <4> HIDE DEF e
      <4>3. ext'[t] = e /\ ext' \in [Targets -> Items] /\ \A q \in Targets : q # t => ext'[q] = ext[q]
        BY <2>3, <4>1, <4>2 DEF TypeOK, ReleaseTypeOK
      <4>4. TaskStep(t, FALSE)
        <5>1. Kept(task[t], ext[t]) => Kept(task'[t], ext'[t])
          BY <2>3, <4>1, <4>3 DEF Kept
        <5> QED
          BY <2>3, <4>1, <4>3, <5>1 DEF TaskStep
      <4>5. \A q \in Targets : q # t => TaskStep(q, FALSE)
        BY <2>1, <4>3, Unmoved DEF TypeOK
      <4> QED
        BY <4>3, <4>4, <4>5 DEF TasksCalm
    <3> QED
      BY <2>1, <3>1, <3>2
  <2>5. jira' \in [issues : SUBSET DOMAIN appr, refs : SUBSET DOMAIN appr] /\ jira'.refs = jira.refs
    <3>1. jira \in [issues : SUBSET DOMAIN appr, refs : SUBSET DOMAIN appr]
      BY DEF TypeOK
    <3> QED
      BY <2>1, <3>1
  <2>6. Calm
    BY <2>1, <2>2, <2>4, <2>5 DEF Calm
  <2>7. TypeOK'
    BY <2>1, <2>2, <2>4, <2>5 DEF TypeOK, NoVerdict, RequestTypeOK, ReleaseTypeOK, CasesTypeOK
  <2> QED
    BY <2>6, <2>7 DEF Goal, Stepped
<1>7. Goal
  BY <1>1, <1>2, <1>3, <1>4, <1>5, <1>6
<1> QED
  BY <1>7 DEF Goal

-----------------------------------------------------------------------------
(* The decisions *)

LEMMA Weaker == ASSUME NEW t, NEW g, TaskStep(t, FALSE) PROVE TaskStep(t, g)
  BY DEF TaskStep

LEMMA OthersStay ==
  ASSUME TypeOK, NEW i \in DOMAIN appr,
         \A q \in Targets : q # appr[i].target => task'[q] = task[q] /\ ext'[q] = ext[q]
  PROVE  OthersCalm(i)
  BY Unmoved DEF OthersCalm, TypeOK

LEMMA DecisionTypes ==
  ASSUME TypeOK, NEW i \in DOMAIN appr, NEW status, NEW res, Verdict(i, status, res),
         UNCHANGED <<owners, stale>>, ReleaseTypeOK', CasesTypeOK',
         env' \in [Targets -> {"absent", "PENDING_APPROVAL", "ACTIVE", "DISABLED"}],
         evals' \in [Targets -> Seq(Nat)],
         jira' \in [issues : SUBSET DOMAIN appr, refs : SUBSET DOMAIN appr]
  PROVE  TypeOK'
  BY DEF TypeOK, Verdict, RequestTypeOK

LEMMA Same ==
  ASSUME TypeOK
  PROVE  /\ UNCHANGED case => CasesTypeOK'
         /\ UNCHANGED <<task, jobs, ext>> => ReleaseTypeOK'
         /\ UNCHANGED env => env' \in [Targets -> {"absent", "PENDING_APPROVAL", "ACTIVE", "DISABLED"}]
         /\ UNCHANGED evals => evals' \in [Targets -> Seq(Nat)]
         /\ UNCHANGED jira => /\ jira' \in [issues : SUBSET DOMAIN appr, refs : SUBSET DOMAIN appr]
                              /\ jira'.refs = jira.refs
  BY DEF TypeOK, CasesTypeOK, ReleaseTypeOK

(* A request that is decided and not carried out with success.             *)
LEMMA Refused ==
  ASSUME TypeOK, AllSound, NEW i \in DOMAIN appr, NEW status \in Statuses \ {"PENDING"},
         NEW res \in {"none", "failed"}, Settle(i, status, res),
         status = "APPROVED" /\ kind = "env_register" => env[appr[i].target] # "PENDING_APPROVAL",
         UNCHANGED <<env, case, evals>>,
         jira' \in [issues : SUBSET DOMAIN appr, refs : SUBSET DOMAIN appr],
         jira'.refs = jira.refs,
         ReleaseTypeOK', OthersCalm(i), TaskStep(appr[i].target, res # "none")
  PROVE  TypeOK' /\ Stepped
<1>1. Verdict(i, status, res) /\ UNCHANGED <<owners, stale>>
  BY Settles
<1>2. TypeOK'
  BY <1>1, Same, DecisionTypes
<1>3. appr'[i].res = res
  BY <1>1 DEF Verdict
<1>4. NotGranted(i)
  BY <1>1, <1>3 DEF NotGranted
<1> QED
  BY <1>2, <1>4 DEF Stepped

(* The tasks do not move.                                                  *)
LEMMA Motionless ==
  ASSUME TypeOK, NEW i \in DOMAIN appr, UNCHANGED <<task, jobs, ext>>
  PROVE  /\ ReleaseTypeOK' /\ OthersCalm(i) /\ TaskStep(appr[i].target, FALSE)
         /\ TaskStep(appr[i].target, TRUE)
<1>1. appr[i].target \in Targets
  BY Places
<1>2. TaskStep(appr[i].target, FALSE)
  BY <1>1, Unmoved DEF TypeOK
<1> QED
  BY <1>2, Same, OthersStay, Weaker

LEMMA ExecutedIs ==
  ASSUME NEW i, NEW ok \in BOOLEAN, Executed(i, ok)
  PROVE  Settle(i, "EXECUTED", IF ok THEN "ok" ELSE "failed")
  BY DEF Executed

LEMMA Fails ==
  ASSUME TypeOK, AllSound, NEW i \in DOMAIN appr, Executed(i, FALSE), UNCHANGED <<env, case, evals>>,
         jira' \in [issues : SUBSET DOMAIN appr, refs : SUBSET DOMAIN appr],
         jira'.refs = jira.refs,
         ReleaseTypeOK', OthersCalm(i), TaskStep(appr[i].target, TRUE)
  PROVE  TypeOK' /\ Stepped
<1>1. Settle(i, "EXECUTED", "failed")
  BY ExecutedIs
<1>2. "EXECUTED" \in Statuses \ {"PENDING"} /\ ("failed" # "none") = TRUE
  BY DEF Statuses
<1> QED
  BY <1>1, <1>2, Refused

LEMMA Carries ==
  ASSUME TypeOK, AllSound, NEW i \in DOMAIN appr, Executed(i, TRUE)
  PROVE  Verdict(i, "EXECUTED", "ok") /\ UNCHANGED <<owners, stale>>
<1>1. Settle(i, "EXECUTED", "ok")
  BY ExecutedIs
<1> QED
  BY <1>1, Settles DEF Statuses

LEMMA RejectStep ==
  ASSUME TypeOK, AllSound, NEW i \in DOMAIN appr, Reject(i) PROVE TypeOK' /\ Stepped
<1> DEFINE t == appr[i].target
           x == CancelFromApproval(task[t])
<1>1. Settle(i, "REJECTED", "none") /\ UNCHANGED <<jobs, ext, env, case, evals, jira>>
      /\ task' = IF kind = "release_push" THEN [task EXCEPT ![t] = x] ELSE task
  BY DEF Reject, objects
<1>2. t \in Targets /\ task \in [Targets -> Tasks] /\ task[t] \in Tasks /\ ext[t] \in Items
  BY Places DEF TypeOK, ReleaseTypeOK
<1>3. /\ x \in Tasks /\ x.item = task[t].item /\ x.retries = task[t].retries
      /\ x.status = task[t].status \/ (task[t].status = "PENDING_CONFIRM" /\ x.status = "CANCELLED")
  <2>1. To(task[t], "CANCELLED") \in Tasks /\ To(task[t], "CANCELLED").item = task[t].item
        /\ To(task[t], "CANCELLED").status = "CANCELLED"
        /\ To(task[t], "CANCELLED").retries = task[t].retries
    BY <1>2, ToRow DEF TaskStatuses
  <2> QED
    BY <1>2, <2>1 DEF CancelFromApproval
<1> HIDE DEF x
<1>4. CASE kind # "release_push"
  BY <1>1, <1>4, Motionless, Same, Refused DEF Statuses
<1>5. CASE kind = "release_push"
  <2>1. task' = [task EXCEPT ![t] = x]
    BY <1>1, <1>5
  <2>2. task' \in [Targets -> Tasks] /\ task'[t] = x /\ ext'[t] = ext[t]
        /\ \A q \in Targets : q # t => task'[q] = task[q] /\ ext'[q] = ext[q]
    BY <1>1, <1>2, <1>3, <2>1
  <2>3. ReleaseTypeOK' /\ OthersCalm(i)
    BY <1>1, <2>2, OthersStay DEF ReleaseTypeOK, TypeOK
  <2>4. TaskStep(t, FALSE)
    <3>1. Kept(task[t], ext[t]) => Kept(task'[t], ext'[t])
      BY <1>3, <2>2 DEF Kept
    <3> QED
      BY <1>2, <1>3, <2>2, <3>1 DEF TaskStep, Before, Behind
  <2> QED
    BY <1>1, <1>5, <2>3, <2>4, Same, Refused DEF Statuses
<1> QED
  BY <1>4, <1>5

LEMMA ReleaseStepApproved ==
  ASSUME TypeOK, AllSound, NEW i \in DOMAIN appr, NEW answer \in Answers, ApproveRelease(i, answer)
  PROVE  TypeOK' /\ Stepped
<1> DEFINE t == appr[i].target
           r == task[t]
           x == PrepareAfterApproval(r, answer)
           e == IF Calls(r) THEN Asked(ext[t], answer) ELSE ext[t]
<1>1. kind = "release_push" /\ UNCHANGED <<jobs, env, case, evals, jira>>
  BY DEF ApproveRelease, objects
<1>2. t \in Targets /\ task \in [Targets -> Tasks] /\ ext \in [Targets -> Items] /\ r \in Tasks /\ ext[t] \in Items
      /\ jobs \subseteq Jobs
  BY Places DEF TypeOK, ReleaseTypeOK
<1>3. CASE r.status # "PENDING_CONFIRM"
  <2>1. Executed(i, FALSE) /\ UNCHANGED <<task, ext>>
    BY <1>3 DEF ApproveRelease
  <2> QED
    BY <1>1, <2>1, Motionless, Same, Fails
<1>4. CASE r.status = "PENDING_CONFIRM"
  <2>1. /\ task' = [task EXCEPT ![t] = x] /\ ext' = [ext EXCEPT ![t] = e]
        /\ Executed(i, r.item # "none" \/ answer \in {"created", "stub"})
    <3>1. ext' = IF Calls(r) THEN [ext EXCEPT ![t] = Asked(ext[t], answer)] ELSE ext
      BY <1>4 DEF ApproveRelease
    <3> QED
      BY <1>2, <1>4, <3>1 DEF ApproveRelease
  <2>2. /\ e \in Items /\ (ext[t].exists => e.exists)
        /\ answer = "created" /\ r.item = "none" => e.exists
    BY <1>2, AskedItem DEF Calls
  <2>3. CASE r.item # "none"
    <3>1. x = r /\ Executed(i, TRUE) /\ e = ext[t]
      BY <2>1, <2>3 DEF PrepareAfterApproval, PrepareItem, Calls
    <3>2. UNCHANGED <<task, jobs, ext>>
      BY <1>1, <1>2, <2>1, <3>1
    <3>3. Verdict(i, "EXECUTED", "ok") /\ UNCHANGED <<owners, stale>>
      BY <3>1, Carries
    <3>4. TypeOK'
      BY <1>1, <3>2, <3>3, Motionless, Same, DecisionTypes
    <3>5. GrantedRelease(i)
      BY <1>1, <1>4, <2>3, <3>2, <3>3, Motionless DEF GrantedRelease, Succeeds
    <3> QED
      BY <3>4, <3>5 DEF Stepped
  <2>4. CASE r.item = "none"
    <3> DEFINE y == To(r, "SUBMITTED")
    <3>1. y \in Tasks /\ y.item = "none" /\ y.status = "SUBMITTED"
      BY <1>2, <2>4, ToRow DEF TaskStatuses
    <3>2. x = PrepareItem(y, answer)
      BY <2>4 DEF PrepareAfterApproval
    <3> HIDE DEF y
    <3>3. /\ x \in Tasks
          /\ \/ x.item = answer /\ answer \in {"created", "stub"} /\ x.status = "SUBMITTED"
             \/ x.item = "none" /\ x.status = "FAILED_RETRYABLE"
      BY <3>1, <3>2, PrepareItemRow
    <3> HIDE DEF x, e
    <3>4. task' \in [Targets -> Tasks] /\ ext' \in [Targets -> Items] /\ task'[t] = x /\ ext'[t] = e
          /\ \A q \in Targets : q # t => task'[q] = task[q] /\ ext'[q] = ext[q]
      BY <1>2, <2>1, <2>2, <3>3
    <3>5. ReleaseTypeOK' /\ OthersCalm(i)
      BY <1>1, <1>2, <3>4, OthersStay DEF ReleaseTypeOK
    <3>6. TaskStep(t, TRUE)
      <4>1. Kept(task'[t], ext'[t])
        BY <2>2, <2>4, <3>3, <3>4 DEF Kept
      <4> QED
        BY <1>2, <1>4, <2>2, <3>3, <3>4, <4>1 DEF TaskStep, Before, Behind
    <3>7. CASE answer \notin {"created", "stub"}
      <4>1. Executed(i, FALSE)
        <5>1. (r.item # "none" \/ answer \in {"created", "stub"}) = FALSE
          BY <2>4, <3>7
        <5> QED
          BY <2>1, <5>1
      <4> QED
        BY <1>1, <3>5, <3>6, <4>1, Same, Fails
    <3>8. CASE answer \in {"created", "stub"}
      <4>1. Executed(i, TRUE)
        <5>1. (r.item # "none" \/ answer \in {"created", "stub"}) = TRUE
          BY <2>4, <3>8
        <5> QED
          BY <2>1, <5>1
      <4>2. Verdict(i, "EXECUTED", "ok") /\ UNCHANGED <<owners, stale>>
        BY <4>1, Carries
      <4>3. TypeOK'
        BY <1>1, <3>5, <4>2, Same, DecisionTypes
      <4>4. task'[t].status \notin Before
        BY <3>3, <3>4 DEF Before
      <4>5. GrantedRelease(i)
        BY <1>1, <1>4, <3>5, <3>6, <4>2, <4>4 DEF GrantedRelease, Succeeds
      <4> QED
        BY <4>3, <4>5 DEF Stepped
    <3> QED
      BY <3>7, <3>8
  <2> QED
    BY <2>3, <2>4
<1> QED
  BY <1>3, <1>4

LEMMA EnvApproved ==
  ASSUME TypeOK, AllSound, NEW i \in DOMAIN appr, ApproveEnv(i) PROVE TypeOK' /\ Stepped
<1> DEFINE t == appr[i].target
<1>1. kind = "env_register" /\ UNCHANGED <<task, jobs, ext, case, evals, jira>> /\ t \in Targets
  BY Places DEF ApproveEnv
<1>2. CASE env[t] # "PENDING_APPROVAL"
  <2>1. Settle(i, "APPROVED", "none") /\ UNCHANGED env
    BY <1>2 DEF ApproveEnv, Activatable
  <2> QED
    BY <1>1, <1>2, <2>1, Motionless, Same, Refused DEF Statuses
<1>3. CASE env[t] = "PENDING_APPROVAL"
  <2>1. Executed(i, TRUE) /\ env' = [env EXCEPT ![t] = "ACTIVE"]
    BY <1>3 DEF ApproveEnv, Activatable
  <2>2. Verdict(i, "EXECUTED", "ok") /\ UNCHANGED <<owners, stale>>
    BY <2>1, Carries
  <2>3. env' \in [Targets -> {"absent", "PENDING_APPROVAL", "ACTIVE", "DISABLED"}]
    BY <2>1 DEF TypeOK
  <2>4. TypeOK'
    BY <1>1, <2>2, <2>3, Motionless, Same, DecisionTypes
  <2>5. GrantedEnv(i)
    BY <1>1, <1>3, <2>1, <2>2, Motionless DEF GrantedEnv, Succeeds
  <2> QED
    BY <2>4, <2>5 DEF Stepped
<1> QED
  BY <1>2, <1>3

LEMMA HealApproved ==
  ASSUME TypeOK, AllSound, NEW i \in DOMAIN appr, ApproveHeal(i) PROVE TypeOK' /\ Stepped
<1> DEFINE t == appr[i].target
<1>1. kind = "heal_apply" /\ UNCHANGED <<task, jobs, ext, env, evals, jira>> /\ t \in Targets
  BY Places DEF ApproveHeal
<1>2. CASE ~Healable(case[t], appr[i].tv)
  <2>1. Executed(i, FALSE) /\ UNCHANGED case
    BY <1>2 DEF ApproveHeal
  <2> QED
    BY <1>1, <2>1, Motionless, Same, Fails
<1>3. CASE Healable(case[t], appr[i].tv) /\ Collides(case[t])
  <2>1. RolledBack(i)
    BY <1>3 DEF ApproveHeal
  <2>2. NoVerdict /\ UNCHANGED <<owners, stale, case>>
    BY <2>1, Alone DEF RolledBack
  <2> QED
    BY <1>1, <2>2, CalmStep DEF objects, TypeOK
<1>4. CASE Healable(case[t], appr[i].tv) /\ ~Collides(case[t])
  <2>1. Executed(i, TRUE) /\ case' = [case EXCEPT ![t] = Healed(@)]
    BY <1>4 DEF ApproveHeal
  <2>2. Verdict(i, "EXECUTED", "ok") /\ UNCHANGED <<owners, stale>>
    BY <2>1, Carries
  <2>3. CasesTypeOK'
    <3>1. case[t] \in CaseRows /\ t \in CaseIds /\ case \in [CaseIds -> CaseRows]
      BY <1>1, ApprovalAssumption DEF TypeOK, CasesTypeOK
    <3>2. Healed(case[t]) \in CaseRows
      BY <3>1, HealedRow
    <3>3. case' = [case EXCEPT ![t] = Healed(case[t])]
      BY <2>1
    <3> QED
      BY <3>1, <3>2, <3>3 DEF CasesTypeOK
  <2>4. TypeOK'
    BY <1>1, <2>2, <2>3, Motionless, Same, DecisionTypes
  <2>5. GrantedHeal(i)
    BY <1>1, <1>4, <2>1, <2>2, Motionless DEF GrantedHeal, Succeeds
  <2> QED
    BY <2>4, <2>5 DEF Stepped
<1> QED
  BY <1>2, <1>3, <1>4

LEMMA JiraApproved ==
  ASSUME TypeOK, AllSound, NEW i \in DOMAIN appr, NEW answer \in Answers, ApproveJira(i, answer)
  PROVE  TypeOK' /\ Stepped
<1>1. kind = "jira_write" /\ UNCHANGED <<task, jobs, ext, env, case, evals>>
  BY DEF ApproveJira
<1>2. jira.issues \subseteq DOMAIN appr /\ jira.refs \subseteq DOMAIN appr
  BY DEF TypeOK
<1>3. CASE ~appr[i].fit
  <2>1. Executed(i, FALSE) /\ UNCHANGED jira
    BY <1>3 DEF ApproveJira
  <2> QED
    BY <1>1, <2>1, Motionless, Same, Fails
<1>4. CASE appr[i].fit
  <2>1. Executed(i, answer \in {"created", "stub"})
        /\ jira' = [issues |-> Attempted(i, answer), refs |-> Linked(i, answer)]
    BY <1>4 DEF ApproveJira
  <2>2. Attempted(i, answer) \in SUBSET DOMAIN appr /\ Linked(i, answer) \in SUBSET DOMAIN appr
    BY <1>2 DEF Attempted, Linked
  <2>3. jira' \in [issues : SUBSET DOMAIN appr, refs : SUBSET DOMAIN appr] /\ jira'.refs = Linked(i, answer)
    BY <2>1, <2>2
  <2>4. CASE answer \notin {"created", "stub"}
    <3>1. Executed(i, FALSE) /\ jira'.refs = jira.refs
      <4>1. (answer \in {"created", "stub"}) = FALSE
        BY <2>4
      <4> QED
        BY <2>1, <2>3, <2>4, <4>1 DEF Linked
    <3> QED
      BY <1>1, <2>3, <3>1, Motionless, Same, Fails
  <2>5. CASE answer \in {"created", "stub"}
    <3>1. Executed(i, TRUE) /\ jira'.refs = jira.refs \cup {i}
      <4>1. (answer \in {"created", "stub"}) = TRUE
        BY <2>5
      <4> QED
        BY <2>1, <2>3, <2>5, <4>1 DEF Linked
    <3>2. Verdict(i, "EXECUTED", "ok") /\ UNCHANGED <<owners, stale>>
      BY <3>1, Carries
    <3>3. TypeOK'
      BY <1>1, <2>3, <3>2, Motionless, Same, DecisionTypes
    <3>4. GrantedJira(i)
      BY <1>1, <3>1, <3>2, Motionless DEF GrantedJira, Succeeds
    <3> QED
      BY <3>3, <3>4 DEF Stepped
  <2> QED
    BY <2>4, <2>5
<1> QED
  BY <1>3, <1>4

LEMMA WaiverApproved ==
  ASSUME TypeOK, AllSound, Named, NEW i \in DOMAIN appr, ApproveWaiver(i) PROVE TypeOK' /\ Stepped
<1> DEFINE t == appr[i].target
           e == WaiverOf(i)
<1>1. kind = "gate_waiver" /\ UNCHANGED <<task, jobs, ext, env, case, jira>> /\ t \in Targets
  BY Places DEF ApproveWaiver
<1>2. CASE ~Waivable(t, e)
  <2>1. Executed(i, FALSE) /\ UNCHANGED evals
    BY <1>2 DEF ApproveWaiver
  <2> QED
    BY <1>1, <2>1, Motionless, Same, Fails
<1>3. CASE Waivable(t, e)
  <2>1. Executed(i, TRUE) /\ evals' = [evals EXCEPT ![t] = [evals[t] EXCEPT ![e] = i]]
    BY <1>3 DEF ApproveWaiver
  <2>2. Verdict(i, "EXECUTED", "ok") /\ UNCHANGED <<owners, stale>>
    BY <2>1, Carries
  <2>3. evals \in [Targets -> Seq(Nat)] /\ evals[t] \in Seq(Nat) /\ i \in Nat
    BY <1>1, Places DEF TypeOK
  <2>4. [evals[t] EXCEPT ![e] = i] \in Seq(Nat)
    <3>1. DOMAIN evals[t] = 1..Len(evals[t]) /\ Len(evals[t]) \in Nat
      BY <2>3, LenProperties
    <3>2. CASE e \in 1..Len(evals[t])
      BY <2>3, <3>2, ExceptSeq
    <3>3. CASE e \notin 1..Len(evals[t])
      <4>1. [evals[t] EXCEPT ![e] = i] = evals[t]
        BY <2>3, <3>1, <3>3
      <4> QED
        BY <2>3, <4>1
    <3> QED
      BY <3>2, <3>3
  <2>5. evals' \in [Targets -> Seq(Nat)]
    BY <2>1, <2>3, <2>4
  <2>6. TypeOK'
    BY <1>1, <2>2, <2>5, Motionless, Same, DecisionTypes
  <2>7. e \in DOMAIN evals[t]
    <3>1. /\ DOMAIN evals[t] = 1..Len(evals[t]) /\ Len(evals[t]) \in Nat
          /\ e \in {0, Len(evals[t])} \cup DOMAIN evals[t] /\ e # 0
      BY <1>3, <2>3, LenProperties DEF Waivable, WaiverOf, Named
    <3> QED
      BY <3>1
  <2>8. GrantedWaiver(i)
    BY <1>1, <1>3, <2>1, <2>2, <2>7, Motionless DEF GrantedWaiver, Succeeds, Waivable
  <2> QED
    BY <2>6, <2>8 DEF Stepped
<1> QED
  BY <1>2, <1>3

LEMMA OtherApproved ==
  ASSUME TypeOK, AllSound, NEW i \in DOMAIN appr, ApproveOther(i) PROVE TypeOK' /\ Stepped
<1>1. UNCHANGED <<task, jobs, ext, env, case, evals, jira>> /\ kind # "env_register"
  BY DEF ApproveOther, objects
<1>2. CASE kind = "kill_switch_restore" /\ appr[i].fit
  <2>1. Executed(i, TRUE)
    BY <1>2 DEF ApproveOther
  <2>2. Verdict(i, "EXECUTED", "ok") /\ UNCHANGED <<owners, stale>>
    BY <2>1, Carries
  <2>3. TypeOK'
    BY <1>1, <2>2, Motionless, Same, DecisionTypes
  <2>4. GrantedOther(i)
    BY <1>1, <1>2, <2>2, Motionless DEF GrantedOther, Succeeds
  <2> QED
    BY <2>3, <2>4 DEF Stepped
<1>3. CASE ~(kind = "kill_switch_restore" /\ appr[i].fit)
  <2>1. Settle(i, "APPROVED", "none")
    BY <1>3 DEF ApproveOther
  <2> QED
    BY <1>1, <2>1, Motionless, Same, Refused DEF Statuses
<1> QED
  BY <1>2, <1>3

-----------------------------------------------------------------------------
(* Every step *)

LEMMA Steps ==
  ASSUME TypeOK, AllSound, Named, [Next]_vars
  PROVE  TypeOK' /\ Stepped
<1> DEFINE Goal == TypeOK' /\ Stepped
<1> HIDE DEF Goal
<1>1. ASSUME NEW i \in DOMAIN appr, Decide(i) PROVE Goal
  <2>1. CASE \E u \in Users : Lock(u, i)
    BY <2>1, RequestSteps DEF Goal
  <2>2. CASE Reject(i)
    BY <2>2, RejectStep DEF Goal
  <2>3. ASSUME NEW answer \in Answers, ApproveRelease(i, answer) \/ ApproveJira(i, answer) PROVE Goal
    BY <2>3, ReleaseStepApproved, JiraApproved DEF Goal
  <2>4. CASE ApproveEnv(i) \/ ApproveHeal(i) \/ ApproveWaiver(i)
    BY <2>4, EnvApproved, HealApproved, WaiverApproved DEF Goal
  <2>5. CASE ApproveOther(i)
    BY <2>5, OtherApproved DEF Goal
  <2>6. CASE DecisionDies(i)
    BY <2>6, ObjectSteps DEF Goal
  <2> QED
    BY <1>1, <2>1, <2>2, <2>3, <2>4, <2>5, <2>6 DEF Decide
<1>2. ASSUME NEW i \in DOMAIN appr,
             \/ Lapse(i) \/ Expire(i) \/ ReadOverdue(i) \/ WriteExpired(i)
             \/ \E u \in Users : Resubmit(u, i)
      PROVE  Goal
  BY <1>2, RequestSteps DEF Goal
<1>3. ASSUME NEW u \in Users, NEW t \in Targets, Preview(u, t) \/ RegisterEnv(u, t) PROVE Goal
  BY <1>3, RequestSteps, ObjectSteps DEF Goal
<1>4. ASSUME NEW t \in Targets, DisableEnv(t) \/ Evaluate(t) PROVE Goal
  BY <1>4, ObjectSteps DEF Goal
<1>5. ASSUME (\E u \in Users : Demote(u)) \/ UNCHANGED vars PROVE Goal
  BY <1>5, RequestSteps DEF Goal
<1>6. ASSUME \/ /\ kind = "release_push" /\ ReleaseNext
                /\ UNCHANGED <<kind, owners, appr, busy, stale, objects>>
             \/ /\ kind = "heal_apply" /\ CasesNext
                /\ UNCHANGED <<task, jobs, ext, kind, owners, appr, busy, stale, env, evals, jira>>
      PROVE  Goal
  BY <1>6, ObjectSteps DEF Goal
<1>7. Goal
  BY <1>1, <1>2, <1>3, <1>4, <1>5, <1>6 DEF Next
<1> QED
  BY <1>7 DEF Goal

LEMMA Sounds == ASSUME Stepped PROVE AllSound'
  BY DEF Stepped, Calm, Registered, Disabled, Evaluated, CasesMoved, NotGranted, GrantedRelease, GrantedEnv,
         GrantedHeal, GrantedWaiver, GrantedJira, GrantedOther, Succeeds, NoVerdict, Verdict

(* What a step does, with the details left out: nothing is decided, or one *)
(* request is.                                                             *)
LEMMA Outcome ==
  ASSUME Stepped
  PROVE  NoVerdict \/ \E i \in DOMAIN appr : \E status, res : Verdict(i, status, res)
<1>1. CASE Calm \/ Registered \/ Disabled \/ Evaluated \/ CasesMoved
  BY <1>1 DEF Calm, Registered, Disabled, Evaluated, CasesMoved
<1>2. ASSUME NEW i \in DOMAIN appr, NotGranted(i) PROVE \E status, res : Verdict(i, status, res)
  BY <1>2 DEF NotGranted
<1>3. ASSUME NEW i \in DOMAIN appr, Succeeds(i) PROVE \E status, res : Verdict(i, status, res)
  BY <1>3 DEF Succeeds
<1> QED
  BY <1>1, <1>2, <1>3 DEF Stepped, GrantedRelease, GrantedEnv, GrantedHeal, GrantedWaiver, GrantedJira, GrantedOther

LEMMA TasksStep ==
  ASSUME Stepped, NEW t \in Targets
  PROVE  TaskStep(t, FALSE) \/ TaskStep(t, TRUE)
<1>1. CASE Calm \/ Registered \/ Disabled \/ Evaluated \/ CasesMoved
  BY <1>1 DEF Calm, Registered, Disabled, Evaluated, CasesMoved, TasksCalm
<1>2. ASSUME NEW i \in DOMAIN appr, OthersCalm(i), NEW g \in BOOLEAN, TaskStep(appr[i].target, g)
      PROVE  TaskStep(t, FALSE) \/ TaskStep(t, TRUE)
  BY <1>2 DEF OthersCalm
<1>3. ASSUME NEW i \in DOMAIN appr, NotGranted(i) PROVE TaskStep(t, FALSE) \/ TaskStep(t, TRUE)
  <2>1. (appr'[i].res # "none") \in BOOLEAN
    OBVIOUS
  <2> QED
    BY <1>2, <1>3, <2>1 DEF NotGranted
<1>4. ASSUME NEW i \in DOMAIN appr,
             \/ GrantedRelease(i) \/ GrantedEnv(i) \/ GrantedHeal(i)
             \/ GrantedWaiver(i) \/ GrantedJira(i) \/ GrantedOther(i)
      PROVE  TaskStep(t, FALSE) \/ TaskStep(t, TRUE)
  BY <1>2, <1>4 DEF GrantedRelease, GrantedEnv, GrantedHeal, GrantedWaiver, GrantedJira, GrantedOther, Succeeds
<1> QED
  BY <1>1, <1>3, <1>4 DEF Stepped

(* Evaluations stay.                                                       *)
LEMMA EvalsStay ==
  ASSUME TypeOK, Stepped, NEW t \in Targets
  PROVE  DOMAIN evals[t] \subseteq DOMAIN evals'[t]
<1>1. evals \in [Targets -> Seq(Nat)] /\ evals[t] \in Seq(Nat)
  BY DEF TypeOK
<1>2. CASE UNCHANGED evals
  BY <1>2
<1>3. CASE Evaluated
  <2>1. PICK q \in Targets : evals' = [evals EXCEPT ![q] = Append(evals[q], 0)]
    BY <1>3 DEF Evaluated
  <2>2. CASE t = q
    <3>1. evals'[t] = Append(evals[t], 0) /\ 0 \in Nat
      BY <1>1, <2>1, <2>2
    <3>2. DOMAIN Append(evals[t], 0) = DOMAIN evals[t] \cup {Len(evals[t]) + 1}
      BY <1>1, <3>1, AppendEffect
    <3> QED
      BY <3>1, <3>2
  <2>3. CASE t # q
    BY <1>1, <2>1, <2>3
  <2> QED
    BY <2>2, <2>3
<1>4. ASSUME NEW i \in DOMAIN appr, GrantedWaiver(i) PROVE DOMAIN evals[t] \subseteq DOMAIN evals'[t]
  <2> DEFINE q == appr[i].target
  <2>1. PICK e : evals' = [evals EXCEPT ![q] = [evals[q] EXCEPT ![e] = i]]
    BY <1>4 DEF GrantedWaiver
  <2> QED
    BY <1>1, <2>1
<1> QED
  BY <1>2, <1>3, <1>4 DEF Stepped, Calm, Registered, Disabled, CasesMoved, NotGranted, GrantedRelease, GrantedEnv,
         GrantedHeal, GrantedJira, GrantedOther

LEMMA NamedStays == ASSUME TypeOK, TypeOK', Named, Stepped PROVE Named'
<1>1. \A t \in Targets : DOMAIN evals[t] \subseteq DOMAIN evals'[t]
  BY EvalsStay
<1>2. (\A j \in DOMAIN appr : appr[j].target \in Targets) /\ (\A j \in DOMAIN appr' : appr'[j].target \in Targets)
  <2>1. \A j \in DOMAIN appr : appr[j].target \in Targets
    BY Places
  <2>2. appr' \in Seq(Requests)
    BY DEF TypeOK
  <2>3. DOMAIN appr' = 1..Len(appr')
    BY <2>2, LenProperties
  <2>4. \A j \in DOMAIN appr' : appr'[j] \in Requests
    BY <2>2, <2>3, ElementOfSeq
  <2> QED
    BY <2>1, <2>4 DEF Requests
<1>3. CASE NoVerdict
  <2> SUFFICES ASSUME NEW j \in DOMAIN appr' PROVE appr'[j].shown \in {0} \cup DOMAIN evals'[appr'[j].target]
    BY DEF Named
  <2>1. CASE j \in DOMAIN appr
    BY <1>1, <1>2, <1>3, <2>1 DEF NoVerdict, Left, Named
  <2>2. CASE j \notin DOMAIN appr
    BY <1>1, <1>2, <1>3, <2>2 DEF NoVerdict
  <2> QED
    BY <2>1, <2>2
<1>4. ASSUME NEW i \in DOMAIN appr, NEW status, NEW res, Verdict(i, status, res) PROVE Named'
  BY <1>1, <1>2, <1>4 DEF Verdict, Named
<1> QED
  BY <1>3, <1>4, Outcome

LEMMA Start ==
  ASSUME Init
  PROVE  TypeOK /\ AllSound /\ Named /\ DOMAIN appr = {}
<1>1. DOMAIN appr = {}
  BY DEF Init
<1>2. ReleaseTypeOK /\ CasesTypeOK
  <2>1. NoTask \in Tasks /\ NoItem \in Items
    BY ReleaseAssumption DEF NoTask, Tasks, NoItem, Items, TaskStatuses
  <2> QED
    BY <2>1, NoCaseRow DEF Init, ReleaseInit, CasesInit, ReleaseTypeOK, CasesTypeOK
<1>3. appr \in Seq(Requests) /\ busy \in [DOMAIN appr -> Users \cup {NoOne}]
  <2>1. appr = <<>> /\ busy = <<>>
    BY DEF Init
  <2>2. DOMAIN busy = {}
    BY <2>1
  <2> QED
    BY <1>1, <2>1, <2>2, EmptySeq
<1>4. evals \in [Targets -> Seq(Nat)]
  <2>1. <<>> \in Seq(Nat)
    BY EmptySeq
  <2> QED
    BY <2>1 DEF Init
<1>5. kind \in Kinds /\ owners \subseteq Users /\ stale \subseteq DOMAIN appr
      /\ env \in [Targets -> {"absent", "PENDING_APPROVAL", "ACTIVE", "DISABLED"}]
      /\ jira \in [issues : SUBSET DOMAIN appr, refs : SUBSET DOMAIN appr]
  BY DEF Init
<1>6. TypeOK
  BY <1>2, <1>3, <1>4, <1>5 DEF TypeOK
<1> QED
  BY <1>1, <1>6 DEF AllSound, Named

(* The variables have their types, requests are sound, and the evaluation  *)
(* each names exists: create_action_preview and submit_approval_decision   *)
(* with everything they carry out.                                         *)
Base == TypeOK /\ AllSound /\ Named

LEMMA BaseHolds == Spec => []Base
<1>1. Init => Base
  BY Start DEF Base
<1>2. Base /\ [Next]_vars => Base'
  BY Steps, Sounds, NamedStays DEF Base
<1> QED
  BY <1>1, <1>2, PTL DEF Spec

(* The variables of Approval, and those of Release and Cases under it,     *)
(* keep their types.                                                       *)
THEOREM TypeCorrect == Spec => []TypeOK
<1>1. Base => TypeOK
  BY DEF Base
<1> QED
  BY <1>1, BaseHolds, PTL

(* A task that is READY or CANCELLED stays so: no queued job, replay,      *)
(* approval or later observation moves it.                                 *)
THEOREM ReleaseAbsorbsHolds == Spec => ReleaseAbsorbs
<1>1. ASSUME Base, [Next]_vars
      PROVE  [\A t \in Targets : task[t].status \in {"READY", "CANCELLED"} => task'[t].status = task[t].status]_vars
  <2>1. Stepped
    BY <1>1, Steps DEF Base
  <2>2. \A t \in Targets : task[t].status \in {"READY", "CANCELLED"} => task'[t].status = task[t].status
    BY <2>1, TasksStep DEF TaskStep
  <2> QED
    BY <2>2
<1> QED
  BY <1>1, BaseHolds, PTL DEF Spec, ReleaseAbsorbs

(* However preparations, retries, crashes and observations interleave, the *)
(* task has no item that was not answered or made up, none it failed to    *)
(* get, and is SUBMITTED or READY without one only after a retry.          *)
THEOREM NoPhantomReleaseHolds == Spec => []NoPhantomRelease
<1>1. Init => NoPhantomRelease
  <2>1. ASSUME Init, NEW t \in Targets PROVE task[t] = NoTask
    BY <2>1 DEF Init, ReleaseInit
  <2>2. NoTask.item = "none" /\ NoTask.status = "absent"
    BY DEF NoTask
  <2> QED
    BY <2>1, <2>2 DEF NoPhantomRelease
<1>2. ASSUME Base, \A t \in Targets : Kept(task[t], ext[t]), [Next]_vars
      PROVE  \A t \in Targets : Kept(task'[t], ext'[t])
  <2>1. Stepped
    BY <1>2, Steps DEF Base
  <2>2. \A t \in Targets : Kept(task[t], ext[t]) => Kept(task'[t], ext'[t])
    BY <2>1, TasksStep DEF TaskStep
  <2> QED
    BY <1>2, <2>2
<1>3. Base /\ NoPhantomRelease /\ [Next]_vars => NoPhantomRelease'
  BY <1>2 DEF NoPhantomRelease, Kept
<1> QED
  BY <1>1, <1>3, BaseHolds, PTL DEF Spec

-----------------------------------------------------------------------------
(* What was granted *)

(* Who was granted, or carried out, changes with a verdict and only so.    *)
LEMMA GrantsStay ==
  ASSUME NoVerdict, NEW t
  PROVE  Granted(t)' = Granted(t) /\ Carried(t)' = Carried(t)
<1>1. /\ DOMAIN appr \subseteq DOMAIN appr'
      /\ \A j \in DOMAIN appr : appr'[j].target = appr[j].target /\ appr'[j].res = appr[j].res
      /\ \A j \in DOMAIN appr' \ DOMAIN appr : appr'[j].res = "none"
  BY DEF NoVerdict, Left
<1> QED
  BY <1>1 DEF Granted, Carried

LEMMA GrantsMove ==
  ASSUME NEW i \in DOMAIN appr, NEW status, NEW res, Verdict(i, status, res), NEW t
  PROVE  /\ Granted(t)' = IF t = appr[i].target /\ res = "ok" THEN Granted(t) \cup {i} ELSE Granted(t)
         /\ Carried(t)' = IF t = appr[i].target /\ res # "none" THEN Carried(t) \cup {i} ELSE Carried(t)
         /\ i \notin Granted(t) /\ i \notin Carried(t)
         /\ \A j \in DOMAIN appr : appr'[j].target = appr[j].target /\ appr'[j].tv = appr[j].tv
<1>1. /\ DOMAIN appr' = DOMAIN appr
      /\ \A j \in DOMAIN appr : /\ appr'[j].target = appr[j].target /\ appr'[j].tv = appr[j].tv
                                /\ j # i => appr'[j].res = appr[j].res
      /\ appr[i].res = "none" /\ appr'[i].res = res
  BY DEF Verdict
<1> QED
  BY <1>1 DEF Granted, Carried

LEMMA GrantsFinite == ASSUME TypeOK, NEW t PROVE IsFiniteSet(Granted(t))
<1>1. DOMAIN appr = 1..Len(appr) /\ Len(appr) \in Nat
  BY Places
<1>2. IsFiniteSet(1..Len(appr))
  BY <1>1, FS_Interval
<1>3. Granted(t) \in SUBSET (1..Len(appr))
  BY <1>1 DEF Granted
<1> QED
  BY <1>2, <1>3, FS_Subset

LEMMA AtMostOne ==
  ASSUME NEW S, \A i, j \in S : i = j
  PROVE  Cardinality(S) <= 1
<1>1. CASE S = {}
  BY <1>1, FS_EmptySet
<1>2. ASSUME NEW x \in S PROVE Cardinality(S) <= 1
  <2>1. S = {x}
    OBVIOUS
  <2> QED
    BY <2>1, FS_Singleton
<1> QED
  BY <1>1, <1>2

(* Environments: one is activated by one request and then waits for none.  *)
EnvOK(t) ==
  /\ env[t] \in {"ACTIVE", "DISABLED"} <=> Granted(t) # {}
  /\ \A i \in DOMAIN appr : appr[i].target = t =>
       /\ env[t] # "absent"
       /\ appr[i].status = "APPROVED" => env[t] # "PENDING_APPROVAL"
  /\ \A i, j \in Granted(t) : i = j

LEMMA EnvSteps ==
  ASSUME TypeOK, Stepped, kind = "env_register", NEW t \in Targets, EnvOK(t)
  PROVE  EnvOK(t)'
<1>1. env \in [Targets -> {"absent", "PENDING_APPROVAL", "ACTIVE", "DISABLED"}]
  BY DEF TypeOK
<1>2. ASSUME NoVerdict, env'[t] = env[t] \/ (env[t] = "ACTIVE" /\ env'[t] = "DISABLED")
                          \/ (env[t] = "absent" /\ env'[t] = "PENDING_APPROVAL")
      PROVE  EnvOK(t)'
  <2>1. Granted(t)' = Granted(t)
    BY <1>2, GrantsStay
  <2>2. \A j \in DOMAIN appr' : appr'[j].target = t =>
          /\ env'[t] # "absent"
          /\ appr'[j].status = "APPROVED" => env'[t] # "PENDING_APPROVAL"
    <3> SUFFICES ASSUME NEW j \in DOMAIN appr', appr'[j].target = t
                 PROVE  /\ env'[t] # "absent"
                        /\ appr'[j].status = "APPROVED" => env'[t] # "PENDING_APPROVAL"
      OBVIOUS
    <3>1. CASE j \in DOMAIN appr
      <4>1. appr[j].target = t /\ appr'[j].status \in {appr[j].status, "EXPIRED"}
        BY <1>2, <3>1 DEF NoVerdict, Left
      <4> QED
        BY <1>2, <3>1, <4>1 DEF EnvOK
    <3>2. CASE j \notin DOMAIN appr
      <4>1. appr'[j].status = "PENDING"
        BY <1>2, <3>2 DEF NoVerdict
      <4>2. (\E i \in DOMAIN appr : t = appr[i].target) \/ env'[t] # "absent"
        BY <1>2, <3>2 DEF NoVerdict
      <4> QED
        BY <1>2, <4>1, <4>2 DEF EnvOK
    <3> QED
      BY <3>1, <3>2
  <2> QED
    BY <1>2, <2>1, <2>2 DEF EnvOK
<1>3. CASE Calm \/ Evaluated \/ CasesMoved
  BY <1>2, <1>3 DEF Calm, Evaluated, CasesMoved
<1>4. CASE Registered
  <2>1. NoVerdict /\ (env'[t] = env[t] \/ (env[t] = "absent" /\ env'[t] = "PENDING_APPROVAL"))
    BY <1>1, <1>4 DEF Registered
  <2> QED
    BY <1>2, <2>1
<1>5. CASE Disabled
  <2>1. NoVerdict /\ (env'[t] = env[t] \/ (env[t] = "ACTIVE" /\ env'[t] = "DISABLED"))
    BY <1>1, <1>5 DEF Disabled
  <2> QED
    BY <1>2, <2>1
<1>6. ASSUME NEW i \in DOMAIN appr, NotGranted(i) PROVE EnvOK(t)'
  <2>1. PICK status \in Statuses, res \in {"none", "failed"} :
          /\ Verdict(i, status, res)
          /\ status = "APPROVED" => env[appr[i].target] # "PENDING_APPROVAL"
    BY <1>6 DEF NotGranted
  <2>2. Granted(t)' = Granted(t) /\ env' = env
    BY <1>6, <2>1, GrantsMove DEF NotGranted
  <2>3. /\ DOMAIN appr' = DOMAIN appr
        /\ \A j \in DOMAIN appr : /\ appr'[j].target = appr[j].target
                                  /\ j # i => appr'[j].status = appr[j].status
        /\ appr'[i].status = status
    BY <2>1 DEF Verdict
  <2> QED
    BY <2>1, <2>2, <2>3 DEF EnvOK
<1>7. ASSUME NEW i \in DOMAIN appr, GrantedEnv(i) PROVE EnvOK(t)'
  <2>1. Verdict(i, "EXECUTED", "ok") /\ env[appr[i].target] = "PENDING_APPROVAL"
        /\ env' = [env EXCEPT ![appr[i].target] = "ACTIVE"]
    BY <1>7 DEF GrantedEnv, Succeeds
  <2>2. /\ DOMAIN appr' = DOMAIN appr
        /\ \A j \in DOMAIN appr : /\ appr'[j].target = appr[j].target
                                  /\ j # i => appr'[j].status = appr[j].status
        /\ appr'[i].status = "EXECUTED"
    BY <2>1 DEF Verdict
  <2>3. CASE t = appr[i].target
    <3>1. Granted(t) = {} /\ Granted(t)' = Granted(t) \cup {i} /\ env'[t] = "ACTIVE"
      BY <1>1, <2>1, <2>3, GrantsMove DEF EnvOK
    <3> QED
      BY <2>2, <3>1 DEF EnvOK
  <2>4. CASE t # appr[i].target
    <3>1. Granted(t)' = Granted(t) /\ env'[t] = env[t]
      BY <1>1, <2>1, <2>4, GrantsMove
    <3> QED
      BY <2>2, <2>4, <3>1 DEF EnvOK
  <2> QED
    BY <2>3, <2>4
<1> QED
  BY <1>3, <1>4, <1>5, <1>6, <1>7
     DEF Stepped, GrantedRelease, GrantedHeal, GrantedWaiver, GrantedJira, GrantedOther

(* Cases: as many heals as were granted, each for a version of its own.    *)
HealOK(t) ==
  /\ case[t].heals = Cardinality(Granted(t))
  /\ case[t].status = "absent" => Granted(t) = {}
  /\ \A i \in Granted(t) : appr[i].tv < case[t].ver
  /\ \A i, j \in Granted(t) : i # j => appr[i].tv # appr[j].tv

LEMMA HealSteps ==
  ASSUME TypeOK, Stepped, kind = "heal_apply", NEW t \in Targets, HealOK(t)
  PROVE  HealOK(t)'
<1>1. /\ case \in [CaseIds -> CaseRows] /\ t \in CaseIds /\ case[t] \in CaseRows
      /\ case[t].ver \in Nat /\ case[t].heals \in Nat
      /\ \A i \in DOMAIN appr : appr[i].tv \in Nat
  BY Places, CaseFields, ApprovalAssumption DEF TypeOK, CasesTypeOK, Requests
<1>2. Granted(t) \subseteq DOMAIN appr
  BY DEF Granted
<1>3. ASSUME NoVerdict, case'[t] = case[t] PROVE HealOK(t)'
  <2>1. Granted(t)' = Granted(t) /\ \A i \in Granted(t) : appr'[i].tv = appr[i].tv
    BY <1>2, <1>3, GrantsStay DEF NoVerdict, Left
  <2> QED
    BY <1>3, <2>1 DEF HealOK
<1>4. CASE CasesMoved
  <2>1. Granted(t)' = Granted(t) /\ \A i \in Granted(t) : appr'[i].tv = appr[i].tv
    BY <1>2, <1>4, GrantsStay DEF CasesMoved, NoVerdict, Left
  <2>2. CaseStep(t)
    BY <1>1, <1>4 DEF CasesMoved
  <2>3. case'[t].ver \in Nat
    BY <2>2, CaseFields DEF CaseStep
  <2>4. CASE case[t].status = "absent"
    <3>1. Granted(t) = {} /\ case[t].heals = 0
      BY <2>4, FS_EmptySet DEF HealOK
    <3>2. case'[t].heals = 0
      BY <2>2, <2>4, <3>1 DEF CaseStep
    <3> QED
      BY <2>1, <3>1, <3>2, FS_EmptySet DEF HealOK
  <2>5. CASE case[t].status # "absent"
    <3>1. case'[t].heals = case[t].heals /\ case'[t].ver >= case[t].ver /\ case'[t].status # "absent"
      BY <2>2, <2>5 DEF CaseStep
    <3>2. \A i \in Granted(t) : appr[i].tv < case'[t].ver
      BY <1>1, <1>2, <2>3, <3>1 DEF HealOK
    <3> QED
      BY <2>1, <3>1, <3>2 DEF HealOK
  <2> QED
    BY <2>4, <2>5
<1>5. ASSUME NEW i \in DOMAIN appr, NotGranted(i) PROVE HealOK(t)'
  <2>1. PICK status \in Statuses, res \in {"none", "failed"} : Verdict(i, status, res)
    BY <1>5 DEF NotGranted
  <2>2. Granted(t)' = Granted(t) /\ (\A j \in DOMAIN appr : appr'[j].tv = appr[j].tv) /\ case' = case
    BY <1>5, <2>1, GrantsMove DEF NotGranted
  <2> QED
    BY <1>2, <2>2 DEF HealOK
<1>6. ASSUME NEW i \in DOMAIN appr, GrantedHeal(i) PROVE HealOK(t)'
  <2> DEFINE q == appr[i].target
  <2>1. /\ Verdict(i, "EXECUTED", "ok") /\ case' = [case EXCEPT ![q] = Healed(case[q])]
        /\ case[q].status = "ACTIVE" /\ case[q].ver = appr[i].tv
    BY <1>6 DEF GrantedHeal, Succeeds, Healable
  <2>2. \A j \in DOMAIN appr : appr'[j].tv = appr[j].tv
    BY <2>1, GrantsMove
  <2>3. CASE t # q
    <3>1. Granted(t)' = Granted(t) /\ case'[t] = case[t]
      BY <1>1, <2>1, <2>3, GrantsMove
    <3> QED
      BY <1>2, <2>2, <3>1 DEF HealOK
  <2>4. CASE t = q
    <3>1. Granted(t)' = Granted(t) \cup {i} /\ i \notin Granted(t)
      BY <2>1, <2>4, GrantsMove
    <3>2. case'[t] = Healed(case[t])
      BY <1>1, <2>1, <2>4
    <3>3. case'[t].ver = case[t].ver + 1 /\ case'[t].heals = case[t].heals + 1 /\ case'[t].status = "ACTIVE"
      BY <1>1, <2>1, <2>4, <3>2, HealedRow
    <3>4. Cardinality(Granted(t) \cup {i}) = Cardinality(Granted(t)) + 1
      BY <3>1, GrantsFinite, FS_AddElement
    <3>5. \A j \in Granted(t) : appr[j].tv < case[t].ver /\ appr[j].tv \in Nat
      BY <1>1, <1>2 DEF HealOK
    <3>6. case[t].ver = appr[i].tv
      BY <2>1, <2>4
    <3>7. \A j \in Granted(t) \cup {i} : appr'[j].tv = appr[j].tv /\ appr[j].tv < case[t].ver + 1
      BY <1>1, <1>2, <2>2, <3>5, <3>6
    <3>8. \A j, k \in Granted(t) \cup {i} : j # k => appr[j].tv # appr[k].tv
      BY <1>1, <3>5, <3>6 DEF HealOK
    <3> QED
      BY <3>1, <3>3, <3>4, <3>7, <3>8 DEF HealOK
  <2> QED
    BY <2>3, <2>4
<1> QED
  BY <1>3, <1>4, <1>5, <1>6 DEF Stepped, Calm, Registered, Disabled, Evaluated,
     GrantedRelease, GrantedEnv, GrantedWaiver, GrantedJira, GrantedOther

(* Evaluations: the waiver of one is a request that was granted, and each  *)
(* granted request is the waiver of one.                                   *)
Waives(t, i) == {e \in DOMAIN evals[t] : evals[t][e] = i}

WaiverOK(t) ==
  /\ \A e \in DOMAIN evals[t] : evals[t][e] \in {0} \cup DOMAIN appr
  /\ \A i \in DOMAIN appr : appr[i].target = t =>
       IF i \in Granted(t) THEN \E e : Waives(t, i) = {e} ELSE Waives(t, i) = {}

LEMMA WaiverSteps ==
  ASSUME TypeOK, TypeOK', Stepped, kind = "gate_waiver", NEW t \in Targets, WaiverOK(t)
  PROVE  WaiverOK(t)'
<1>1. /\ evals \in [Targets -> Seq(Nat)] /\ evals[t] \in Seq(Nat)
      /\ DOMAIN evals[t] = 1..Len(evals[t]) /\ Len(evals[t]) \in Nat
  BY LenProperties DEF TypeOK
<1>2. \A i \in DOMAIN appr' : i # 0
  <2>1. appr' \in Seq(Requests)
    BY DEF TypeOK
  <2>2. DOMAIN appr' = 1..Len(appr') /\ Len(appr') \in Nat
    BY <2>1, LenProperties
  <2> QED
    BY <2>2
<1>3. ASSUME NoVerdict,
             \A e \in DOMAIN evals'[t] : \/ e \in DOMAIN evals[t] /\ evals'[t][e] = evals[t][e]
                                         \/ e \notin DOMAIN evals[t] /\ evals'[t][e] = 0,
             DOMAIN evals[t] \subseteq DOMAIN evals'[t]
      PROVE  WaiverOK(t)'
  <2>1. Granted(t)' = Granted(t) /\ Granted(t) \subseteq DOMAIN appr
    BY <1>3, GrantsStay DEF Granted
  <2>2. DOMAIN appr \subseteq DOMAIN appr' /\ \A j \in DOMAIN appr : appr'[j].target = appr[j].target
    BY <1>3 DEF NoVerdict, Left
  <2>3. \A i \in DOMAIN appr' : Waives(t, i)' = Waives(t, i)
    BY <1>2, <1>3 DEF Waives
  <2>4. \A e \in DOMAIN evals'[t] : evals'[t][e] \in {0} \cup DOMAIN appr'
    BY <1>3, <2>2 DEF WaiverOK
  <2>5. \A i \in DOMAIN appr' \ DOMAIN appr : Waives(t, i) = {} /\ i \notin Granted(t)
    BY <1>2, <2>1 DEF WaiverOK, Waives
  <2>6. ASSUME NEW i \in DOMAIN appr', appr'[i].target = t
        PROVE  IF i \in Granted(t) THEN \E e : Waives(t, i)' = {e} ELSE Waives(t, i)' = {}
    <3>1. CASE i \in DOMAIN appr
      BY <2>2, <2>3, <2>6, <3>1 DEF WaiverOK
    <3>2. CASE i \notin DOMAIN appr
      BY <2>3, <2>5, <2>6, <3>2
    <3> QED
      BY <3>1, <3>2
  <2> QED
    BY <2>1, <2>4, <2>6 DEF WaiverOK
<1>4. CASE Calm \/ Registered \/ Disabled \/ CasesMoved
  <2>1. NoVerdict /\ UNCHANGED evals
    BY <1>4 DEF Calm, Registered, Disabled, CasesMoved
  <2> QED
    BY <1>3, <2>1
<1>5. CASE Evaluated
  <2>1. PICK q \in Targets : evals' = [evals EXCEPT ![q] = Append(evals[q], 0)]
    BY <1>5 DEF Evaluated
  <2>2. CASE q # t
    <3>1. evals'[t] = evals[t] /\ NoVerdict
      BY <1>1, <1>5, <2>1, <2>2 DEF Evaluated
    <3> QED
      BY <1>3, <3>1
  <2>3. CASE q = t
    <3>1. evals'[t] = Append(evals[t], 0) /\ NoVerdict /\ 0 \in Nat
      BY <1>1, <1>5, <2>1, <2>3 DEF Evaluated
    <3>2. /\ DOMAIN Append(evals[t], 0) = DOMAIN evals[t] \cup {Len(evals[t]) + 1}
          /\ Append(evals[t], 0)[Len(evals[t]) + 1] = 0
          /\ Len(evals[t]) + 1 \notin DOMAIN evals[t]
          /\ \A j \in DOMAIN evals[t] : Append(evals[t], 0)[j] = evals[t][j]
      BY <1>1, <3>1, AppendEffect
    <3> QED
      BY <1>3, <3>1, <3>2
  <2> QED
    BY <2>2, <2>3
<1>8. ASSUME evals'[t] = evals[t], DOMAIN appr' = DOMAIN appr, Granted(t)' = Granted(t),
             \A j \in DOMAIN appr : appr'[j].target = appr[j].target
      PROVE  WaiverOK(t)'
  <2>1. \A i \in DOMAIN appr : Waives(t, i)' = Waives(t, i)
    BY <1>8 DEF Waives
  <2> QED
    BY <1>8, <2>1 DEF WaiverOK
<1>6. ASSUME NEW i \in DOMAIN appr, NotGranted(i) PROVE WaiverOK(t)'
  <2>1. PICK status \in Statuses, res \in {"none", "failed"} : Verdict(i, status, res)
    BY <1>6 DEF NotGranted
  <2>2. Granted(t)' = Granted(t) /\ (\A j \in DOMAIN appr : appr'[j].target = appr[j].target) /\ evals' = evals
    BY <1>6, <2>1, GrantsMove DEF NotGranted
  <2>3. DOMAIN appr' = DOMAIN appr
    BY <2>1 DEF Verdict
  <2> QED
    BY <1>8, <2>2, <2>3
<1>7. ASSUME NEW i \in DOMAIN appr, GrantedWaiver(i) PROVE WaiverOK(t)'
  <2> DEFINE q == appr[i].target
  <2>1. PICK e \in DOMAIN evals[q] : /\ evals[q][e] = 0
                                     /\ evals' = [evals EXCEPT ![q] = [evals[q] EXCEPT ![e] = i]]
    BY <1>7 DEF GrantedWaiver
  <2>2. Verdict(i, "EXECUTED", "ok") /\ q \in Targets
    BY <1>7, Places DEF GrantedWaiver, Succeeds
  <2>3. DOMAIN appr' = DOMAIN appr /\ \A j \in DOMAIN appr : appr'[j].target = appr[j].target
    BY <2>2, GrantsMove DEF Verdict
  <2>4. CASE t # q
    <3>1. Granted(t)' = Granted(t) /\ evals'[t] = evals[t]
      BY <1>1, <2>1, <2>2, <2>4, GrantsMove
    <3> QED
      BY <1>8, <2>3, <3>1
  <2>5. CASE t = q
    <3>1. Granted(t)' = Granted(t) \cup {i} /\ i \notin Granted(t)
      BY <2>2, <2>5, GrantsMove
    <3>2. /\ evals'[t] = [evals[t] EXCEPT ![e] = i] /\ e \in DOMAIN evals[t] /\ evals[t][e] = 0
      BY <1>1, <2>1, <2>5
    <3>3. /\ DOMAIN evals'[t] = DOMAIN evals[t]
          /\ \A f \in DOMAIN evals[t] : evals'[t][f] = IF f = e THEN i ELSE evals[t][f]
      BY <1>1, <3>2
    <3>4. \A f \in DOMAIN evals'[t] : evals'[t][f] \in {0} \cup DOMAIN appr'
      BY <2>3, <3>3 DEF WaiverOK
    <3>5. Waives(t, i) = {}
      BY <2>5, <3>1 DEF WaiverOK
    <3>6. Waives(t, i)' = {e}
      BY <3>2, <3>3, <3>5 DEF Waives
    <3>7. \A j \in DOMAIN appr : j # i => Waives(t, j)' = Waives(t, j)
      BY <1>2, <2>3, <3>2, <3>3 DEF Waives
    <3>8. ASSUME NEW j \in DOMAIN appr', appr'[j].target = t
          PROVE  IF j \in Granted(t) \cup {i} THEN \E f : Waives(t, j)' = {f} ELSE Waives(t, j)' = {}
      <4>1. CASE j = i
        BY <3>6, <4>1
      <4>2. CASE j # i
        BY <2>3, <3>7, <3>8, <4>2 DEF WaiverOK
      <4> QED
        BY <4>1, <4>2
    <3> QED
      BY <3>1, <3>4, <3>8 DEF WaiverOK
  <2> QED
    BY <2>4, <2>5
<1> QED
  BY <1>4, <1>5, <1>6, <1>7 DEF Stepped, GrantedRelease, GrantedEnv, GrantedHeal, GrantedJira, GrantedOther

(* Jira: an issue is in the evidence chain for each request granted.       *)
JiraOK(t) == Granted(t) = {i \in jira.refs : appr[i].target = t}

LEMMA JiraSteps ==
  ASSUME TypeOK, Stepped, kind = "jira_write", NEW t \in Targets, JiraOK(t)
  PROVE  JiraOK(t)'
<1>1. jira.refs \subseteq DOMAIN appr
  BY DEF TypeOK
<1>2. CASE Calm \/ Registered \/ Disabled \/ Evaluated \/ CasesMoved
  <2>1. NoVerdict /\ jira'.refs = jira.refs
    BY <1>2 DEF Calm, Registered, Disabled, Evaluated, CasesMoved
  <2>2. Granted(t)' = Granted(t) /\ \A j \in DOMAIN appr : appr'[j].target = appr[j].target
    BY <2>1, GrantsStay DEF NoVerdict, Left
  <2> QED
    BY <1>1, <2>1, <2>2 DEF JiraOK
<1>3. ASSUME NEW i \in DOMAIN appr, NotGranted(i) PROVE JiraOK(t)'
  <2>1. PICK status \in Statuses, res \in {"none", "failed"} : Verdict(i, status, res)
    BY <1>3 DEF NotGranted
  <2>2. /\ Granted(t)' = Granted(t) /\ (\A j \in DOMAIN appr : appr'[j].target = appr[j].target)
        /\ jira'.refs = jira.refs
    BY <1>3, <2>1, GrantsMove DEF NotGranted
  <2> QED
    BY <1>1, <2>2 DEF JiraOK
<1>4. ASSUME NEW i \in DOMAIN appr, GrantedJira(i) PROVE JiraOK(t)'
  <2>1. Verdict(i, "EXECUTED", "ok") /\ jira'.refs = jira.refs \cup {i}
    BY <1>4 DEF GrantedJira, Succeeds
  <2>2. /\ Granted(t)' = IF t = appr[i].target THEN Granted(t) \cup {i} ELSE Granted(t)
        /\ \A j \in DOMAIN appr : appr'[j].target = appr[j].target
    BY <2>1, GrantsMove
  <2> QED
    BY <1>1, <2>1, <2>2 DEF JiraOK
<1> QED
  BY <1>2, <1>3, <1>4 DEF Stepped, GrantedRelease, GrantedEnv, GrantedHeal, GrantedWaiver, GrantedOther

(* Release tasks: one that waits for confirmation has no item yet, and was *)
(* granted nothing; beyond that it was carried out for a request.          *)
ReleaseOK(t) ==
  /\ task[t].status \in Behind => Carried(t) # {}
  /\ task[t].item # "none" => Carried(t) # {}
  /\ task[t].status \in Before => Granted(t) = {} /\ task[t].item = "none"
  /\ \A i, j \in Granted(t) : i = j

LEMMA ReleaseOKSteps ==
  ASSUME TypeOK, Stepped, kind = "release_push", NEW t \in Targets, ReleaseOK(t)
  PROVE  ReleaseOK(t)'
<1>1. ASSUME TaskStep(t, FALSE), Granted(t)' = Granted(t), Carried(t) \subseteq Carried(t)' PROVE ReleaseOK(t)'
  <2>1. task'[t].status \in Behind => Carried(t)' # {}
    BY <1>1 DEF TaskStep, ReleaseOK
  <2>2. task'[t].item # "none" => Carried(t)' # {}
    <3>1. task[t].status = "SUBMITTED" => task[t].status \in Behind
      BY DEF Behind
    <3> QED
      BY <1>1, <3>1 DEF TaskStep, ReleaseOK
  <2>3. task'[t].status \in Before => Granted(t)' = {} /\ task'[t].item = "none"
    BY <1>1 DEF TaskStep, ReleaseOK
  <2> QED
    BY <1>1, <2>1, <2>2, <2>3 DEF ReleaseOK
<1>2. CASE Calm \/ Registered \/ Disabled \/ Evaluated \/ CasesMoved
  <2>1. NoVerdict /\ TaskStep(t, FALSE)
    BY <1>2 DEF Calm, Registered, Disabled, Evaluated, CasesMoved, TasksCalm
  <2> QED
    BY <1>1, <2>1, GrantsStay
<1>3. ASSUME NEW i \in DOMAIN appr, NotGranted(i) PROVE ReleaseOK(t)'
  <2>1. PICK status \in Statuses, res \in {"none", "failed"} : Verdict(i, status, res)
    BY <1>3 DEF NotGranted
  <2>2. /\ Granted(t)' = Granted(t)
        /\ Carried(t)' = IF t = appr[i].target /\ res # "none" THEN Carried(t) \cup {i} ELSE Carried(t)
    BY <2>1, GrantsMove
  <2>3. CASE t # appr[i].target \/ res = "none"
    <3>1. appr'[i].res = res
      BY <2>1 DEF Verdict
    <3>2. CASE t # appr[i].target
      <4>1. TaskStep(t, FALSE)
        BY <1>3, <3>2 DEF NotGranted, OthersCalm
      <4> QED
        BY <1>1, <2>2, <4>1
    <3>3. CASE t = appr[i].target /\ res = "none"
      <4>1. (appr'[i].res # "none") = FALSE
        BY <3>1, <3>3
      <4>2. TaskStep(t, FALSE)
        BY <1>3, <3>3, <4>1 DEF NotGranted
      <4> QED
        BY <1>1, <2>2, <4>2
    <3> QED
      BY <2>3, <3>2, <3>3
  <2>4. CASE t = appr[i].target /\ res # "none"
    <3>1. Carried(t)' # {}
      BY <2>2, <2>4
    <3>2. (appr'[i].res # "none") \in BOOLEAN
      OBVIOUS
    <3>3. PICK g \in BOOLEAN : TaskStep(t, g)
      BY <1>3, <2>4, <3>2 DEF NotGranted
    <3>4. task'[t].status \in Before => Granted(t)' = {} /\ task'[t].item = "none"
      BY <2>2, <3>3 DEF TaskStep, ReleaseOK
    <3> QED
      BY <2>2, <3>1, <3>4 DEF ReleaseOK
  <2> QED
    BY <2>3, <2>4
<1>4. ASSUME NEW i \in DOMAIN appr, GrantedRelease(i) PROVE ReleaseOK(t)'
  <2>1. Verdict(i, "EXECUTED", "ok") /\ OthersCalm(i)
    BY <1>4 DEF GrantedRelease, Succeeds
  <2>2. /\ Granted(t)' = IF t = appr[i].target THEN Granted(t) \cup {i} ELSE Granted(t)
        /\ Carried(t)' = IF t = appr[i].target THEN Carried(t) \cup {i} ELSE Carried(t)
    BY <2>1, GrantsMove
  <2>3. CASE t # appr[i].target
    BY <1>1, <2>1, <2>2, <2>3 DEF OthersCalm
  <2>4. CASE t = appr[i].target
    <3>1. task[t].status \in Before
      BY <1>4, <2>4 DEF GrantedRelease, Before
    <3>2. Granted(t) = {} /\ task'[t].status \notin Before
      BY <1>4, <2>4, <3>1 DEF GrantedRelease, ReleaseOK
    <3> QED
      BY <2>2, <2>4, <3>2 DEF ReleaseOK
  <2> QED
    BY <2>3, <2>4
<1> QED
  BY <1>2, <1>3, <1>4 DEF Stepped, GrantedEnv, GrantedHeal, GrantedWaiver, GrantedJira, GrantedOther

Answered ==
  \A t \in Targets :
    /\ kind = "env_register" => EnvOK(t)
    /\ kind = "heal_apply" => HealOK(t)
    /\ kind = "gate_waiver" => WaiverOK(t)
    /\ kind = "jira_write" => JiraOK(t)
    /\ kind = "release_push" => ReleaseOK(t)

LEMMA AnsweredHolds == Spec => [](Base /\ Answered)
<1>1. Init => Answered
  <2> SUFFICES ASSUME Init, NEW t \in Targets
               PROVE  EnvOK(t) /\ HealOK(t) /\ WaiverOK(t) /\ JiraOK(t) /\ ReleaseOK(t)
    BY DEF Answered
  <2>1. DOMAIN appr = {} /\ Granted(t) = {} /\ Carried(t) = {}
    BY DEF Init, Granted, Carried
  <2>2. EnvOK(t)
    BY <2>1 DEF Init, EnvOK
  <2>3. HealOK(t)
    <3>1. case[t] = NoCase
      BY ApprovalAssumption DEF Init, CasesInit
    <3> QED
      BY <2>1, <3>1, NoCaseRow, FS_EmptySet DEF HealOK
  <2>4. WaiverOK(t)
    <3>1. DOMAIN evals[t] = {}
      BY DEF Init
    <3> QED
      BY <2>1, <3>1 DEF WaiverOK
  <2>5. JiraOK(t)
    BY <2>1 DEF Init, JiraOK
  <2>6. ReleaseOK(t)
    BY <2>1 DEF Init, ReleaseInit, NoTask, ReleaseOK, Before, Behind
  <2> QED
    BY <2>2, <2>3, <2>4, <2>5, <2>6
<1>2. ASSUME Base, Answered, [Next]_vars PROVE Answered'
  <2>1. TypeOK' /\ Stepped /\ TypeOK
    BY <1>2, Steps DEF Base
  <2>2. kind' = kind
    BY <2>1, Outcome DEF NoVerdict, Verdict
  <2> QED
    BY <1>2, <2>1, <2>2, EnvSteps, HealSteps, WaiverSteps, JiraSteps, ReleaseOKSteps DEF Answered
<1> QED
  BY <1>1, <1>2, BaseHolds, PTL DEF Spec

(* At most one request about an environment, or a release task, is ever    *)
(* carried out with success.                                               *)
THEOREM OneGrantHolds == Spec => []OneGrant
<1>1. ASSUME Base /\ Answered PROVE OneGrant
  <2> SUFFICES ASSUME kind \in {"env_register", "release_push"}, NEW t \in Targets
               PROVE  Cardinality(Granted(t)) <= 1
    BY DEF OneGrant
  <2>1. \A i, j \in Granted(t) : i = j
    BY <1>1 DEF Answered, EnvOK, ReleaseOK
  <2> QED
    BY <2>1, AtMostOne
<1> QED
  BY <1>1, AnsweredHolds, PTL

(* What was done to an object is what the requests that were executed with *)
(* success say, one for one, and each was approved by another than its     *)
(* initiator.                                                              *)
THEOREM EffectsAnsweredHolds == Spec => []EffectsAnswered
<1>1. ASSUME Base /\ Answered PROVE EffectsAnswered
  <2> SUFFICES ASSUME NEW t \in Targets
               PROVE  /\ \A i \in Carried(t) : appr[i].init # appr[i].approver
                      /\ kind = "env_register" =>
                           /\ env[t] \in {"ACTIVE", "DISABLED"} <=> Granted(t) # {}
                           /\ \A i \in DOMAIN appr : appr[i].target = t /\ appr[i].status = "APPROVED"
                                                       => env[t] # "PENDING_APPROVAL"
                      /\ kind = "heal_apply" =>
                           /\ case[t].heals = Cardinality(Granted(t))
                           /\ \A i, j \in Granted(t) : i # j => appr[i].tv # appr[j].tv
                      /\ kind = "gate_waiver" =>
                           \A i \in DOMAIN appr : appr[i].target = t =>
                             Cardinality({e \in DOMAIN evals[t] : evals[t][e] = i})
                               = IF i \in Granted(t) THEN 1 ELSE 0
                      /\ kind = "jira_write" => Granted(t) = {i \in jira.refs : appr[i].target = t}
                      /\ kind = "release_push" =>
                           /\ task[t].status \in {"SUBMITTED", "FAILED_RETRYABLE", "READY"} => Carried(t) # {}
                           /\ task[t].item # "none" => Carried(t) # {}
    BY DEF EffectsAnswered
  <2>1. \A i \in Carried(t) : appr[i].init # appr[i].approver
    BY <1>1 DEF Base, AllSound, Sound, Carried
  <2>2. ASSUME kind = "gate_waiver", NEW i \in DOMAIN appr, appr[i].target = t
        PROVE  Cardinality(Waives(t, i)) = IF i \in Granted(t) THEN 1 ELSE 0
    <3>1. IF i \in Granted(t) THEN \E e : Waives(t, i) = {e} ELSE Waives(t, i) = {}
      BY <1>1, <2>2 DEF Answered, WaiverOK
    <3>2. Cardinality({}) = 0 /\ \A e : Cardinality({e}) = 1
      BY FS_EmptySet, FS_Singleton
    <3> QED
      BY <3>1, <3>2
  <2>3. kind = "env_register" => EnvOK(t)
    BY <1>1 DEF Answered
  <2>4. kind = "heal_apply" => HealOK(t)
    BY <1>1 DEF Answered
  <2>5. kind = "jira_write" => JiraOK(t)
    BY <1>1 DEF Answered
  <2>6. kind = "release_push" => ReleaseOK(t)
    BY <1>1 DEF Answered
  <2> QED
    BY <2>1, <2>2, <2>3, <2>4, <2>5, <2>6 DEF EnvOK, HealOK, JiraOK, ReleaseOK, Waives, Behind
<1> QED
  BY <1>1, AnsweredHolds, PTL
=============================================================================
