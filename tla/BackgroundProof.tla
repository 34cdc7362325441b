-------------------------- MODULE BackgroundProof --------------------------
(***************************************************************************)
(* Proofs about Background, for any requests, keys and bodies.  Each kind  *)
(* of work has an invariant of one key (KeyOK).  Most steps are harmless   *)
(* to a key (KeptKey); the few that are not each change one key.           *)
(***************************************************************************)
EXTENDS Background, FiniteSetTheorems, TLAPS

Answers == {"none", "hmac_failed", "error", "invalid", "accepted", "duplicate", "key_conflict",
            "refused", "content", "not_ready"}
Statuses == {"none"} \cup Observed \cup Open \cup Ended
RowRecords == [status : Statuses, body : Bodies \cup {"none"}, made : Nat]
ReqRecords ==
  [pc : {"new", "sent", "read", "done"}, op : {"none", "create", "download"},
   key : Keys \cup {"none"}, body : Bodies \cup {"none"}, signed : BOOLEAN, base : Statuses,
   answer : Answers]

Typed ==
  /\ kind \in Kinds /\ tight \in SUBSET Switches
  /\ row \in [Keys -> RowRecords] /\ job \in [Keys -> Jobs]
  /\ req \in [Requests -> ReqRecords]
  /\ \A q \in Requests : req[q].pc # "new" => req[q].key \in Keys

Heard(k) == Told(k, {"accepted"})
Good == {"succeeded", "partial"}
AtWork == {"queued", "running", "failing"}

(* An observation is signed once it was applied; who is told of a duplicate*)
(* or has read one had a signed observation before it.                     *)
WebhookOK(k) ==
  /\ row[k].status \in {"none"} \cup Observed
  /\ row[k].made = IF row[k].status = "signed" THEN 1 ELSE 0
  /\ row[k].made = Cardinality(Heard(k))
  /\ \A q \in Requests :
       /\ req[q].key = k
       /\ (req[q].pc = "done" /\ req[q].answer = "duplicate")
            \/ (req[q].pc = "read" /\ req[q].base = "signed")
       => row[k].status = "signed"

(* A task is at work on an open receipt only; what it makes closes it; who *)
(* was told that a request is accepted has its body in the receipt.        *)
ReceiptOK(k) ==
  /\ row[k].status \notin Observed
  /\ row[k].made = IF row[k].status \in Good THEN 1 ELSE 0
  /\ job[k] \in AtWork => row[k].status \in Open
  /\ \A q \in Requests : req[q].key = k =>
       /\ req[q].pc = "done" /\ req[q].answer = "content" => row[k].status \in Good
       /\ req[q].pc = "done" /\ req[q].answer = "accepted" =>
            row[k].status # "none" /\ row[k].body = req[q].body
       /\ req[q].pc = "read" /\ req[q].base # "none" => row[k].status # "none"

CopilotOK(k) == row[k].status = "none" /\ row[k].made = Cardinality(Heard(k))

KeyOK(k) ==
  /\ kind = "webhook" => WebhookOK(k)
  /\ kind \in Receipted => ReceiptOK(k)
  /\ kind = "copilot" => CopilotOK(k)

Inv == Typed /\ \A k \in Keys : KeyOK(k)

-----------------------------------------------------------------------------
(* What a request becomes that tells nobody of an effect on k.             *)
Harmless(d, k) ==
  d.key = k =>
    \/ d.pc = "sent"
    \/ d.pc = "read" /\ d.base = row[k].status
    \/ d.pc = "done" /\ d.answer \notin {"accepted", "duplicate", "content"}

(* A key is kept by a step that does not change its row, queues no task and*)
(* changes requests harmlessly.                                            *)
LEMMA KeptKey ==
  ASSUME NEW k \in Keys, KeyOK(k), kind' = kind, row'[k] = row[k],
         job'[k] = job[k] \/ job'[k] \notin AtWork,
         \A p \in Requests : \/ req'[p] = req[p]
                             \/ req[p].pc # "done" /\ Harmless(req'[p], k)
  PROVE  KeyOK(k)'
<1>1. Heard(k)' = Heard(k)
  <2>1. \A p \in Requests :
          (req'[p].pc = "done" /\ req'[p].key = k /\ req'[p].answer \in {"accepted"})
            <=> (req[p].pc = "done" /\ req[p].key = k /\ req[p].answer \in {"accepted"})
    BY DEF Harmless
  <2> QED
    BY <2>1 DEF Heard, Told
<1>2. \A p \in Requests : req'[p].key = k =>
        \/ req'[p] = req[p]
        \/ req'[p].pc = "sent"
        \/ req'[p].pc = "read" /\ req'[p].base = row[k].status
        \/ req'[p].pc = "done" /\ req'[p].answer \notin {"accepted", "duplicate", "content"}
  BY DEF Harmless
<1>3. CASE kind = "webhook"
  BY <1>1, <1>2, <1>3 DEF KeyOK, WebhookOK, Receipted
<1>4. CASE kind \in Receipted
  <2>1. job'[k] \in AtWork => row'[k].status \in Open
    BY <1>4 DEF KeyOK, ReceiptOK
  <2>2. ASSUME NEW p \in Requests, req'[p].key = k
        PROVE  /\ req'[p].pc = "done" /\ req'[p].answer = "content" => row'[k].status \in Good
               /\ req'[p].pc = "done" /\ req'[p].answer = "accepted" =>
                    row'[k].status # "none" /\ row'[k].body = req'[p].body
               /\ req'[p].pc = "read" /\ req'[p].base # "none" => row'[k].status # "none"
    BY <1>2, <1>4, <2>2 DEF KeyOK, ReceiptOK
  <2>3. ReceiptOK(k)'
    BY <1>4, <2>1, <2>2 DEF KeyOK, ReceiptOK
  <2> QED
    BY <1>4, <2>3 DEF KeyOK, Receipted
<1>5. CASE kind = "copilot"
  BY <1>1, <1>5 DEF KeyOK, CopilotOK, Receipted
<1>6. kind \notin Receipted \cup {"webhook", "copilot"} => KeyOK(k)'
  BY DEF KeyOK
<1> QED
  BY <1>3, <1>4, <1>5, <1>6

-----------------------------------------------------------------------------
(* The records requests and rows become.                                   *)
LEMMA PlaceChanged ==
  ASSUME NEW r \in ReqRecords, NEW place \in {"sent", "read", "done"}
  PROVE  /\ [r EXCEPT !.pc = place] \in ReqRecords /\ [r EXCEPT !.pc = place].pc = place
         /\ [r EXCEPT !.pc = place].key = r.key /\ [r EXCEPT !.pc = place].body = r.body
  BY DEF ReqRecords

LEMMA BaseChanged ==
  ASSUME NEW r \in ReqRecords, NEW status \in Statuses
  PROVE  /\ [r EXCEPT !.base = status] \in ReqRecords /\ [r EXCEPT !.base = status].base = status
         /\ [r EXCEPT !.base = status].pc = r.pc /\ [r EXCEPT !.base = status].key = r.key
         /\ [r EXCEPT !.base = status].body = r.body
  BY DEF ReqRecords

LEMMA AnswerChanged ==
  ASSUME NEW r \in ReqRecords, NEW answer \in Answers
  PROVE  /\ [r EXCEPT !.answer = answer] \in ReqRecords
         /\ [r EXCEPT !.answer = answer].answer = answer
         /\ [r EXCEPT !.answer = answer].pc = r.pc /\ [r EXCEPT !.answer = answer].key = r.key
         /\ [r EXCEPT !.answer = answer].body = r.body
  BY DEF ReqRecords

LEMMA Answering ==
  ASSUME NEW r \in ReqRecords, NEW answer \in Answers
  PROVE  \E d \in ReqRecords :
           /\ d = [r EXCEPT !.pc = "done", !.base = "none", !.answer = answer]
           /\ d.pc = "done" /\ d.answer = answer /\ d.key = r.key /\ d.body = r.body
<1> DEFINE a == [r EXCEPT !.pc = "done"]
           b == [a EXCEPT !.base = "none"]
           d == [b EXCEPT !.answer = answer]
<1>1. d = [r EXCEPT !.pc = "done", !.base = "none", !.answer = answer]
  OBVIOUS
<1>2. a \in ReqRecords /\ a.pc = "done" /\ a.key = r.key /\ a.body = r.body
  BY PlaceChanged
<1> HIDE DEF a
<1>3. b \in ReqRecords /\ b.pc = "done" /\ b.key = r.key /\ b.body = r.body
  BY <1>2, BaseChanged DEF Statuses
<1> HIDE DEF b
<1>4. d \in ReqRecords /\ d.pc = "done" /\ d.answer = answer /\ d.key = r.key /\ d.body = r.body
  BY <1>3, AnswerChanged
<1> HIDE DEF d
<1> QED
  BY <1>1, <1>4

LEMMA Looking ==
  ASSUME NEW r \in ReqRecords, NEW status \in Statuses
  PROVE  \E d \in ReqRecords :
           /\ d = [[r EXCEPT !.pc = "read"] EXCEPT !.base = status]
           /\ d.pc = "read" /\ d.base = status /\ d.key = r.key
<1> DEFINE a == [r EXCEPT !.pc = "read"]
           d == [a EXCEPT !.base = status]
<1>1. d = [[r EXCEPT !.pc = "read"] EXCEPT !.base = status]
  OBVIOUS
<1>2. a \in ReqRecords /\ a.pc = "read" /\ a.key = r.key
  BY PlaceChanged
<1> HIDE DEF a
<1>3. d \in ReqRecords /\ d.pc = "read" /\ d.base = status /\ d.key = r.key
  BY <1>2, BaseChanged
<1> HIDE DEF d
<1> QED
  BY <1>1, <1>3

LEMMA Failing ==
  ASSUME NEW r \in ReqRecords
  PROVE  /\ [r EXCEPT !.pc = "done", !.answer = "error"] \in ReqRecords
         /\ [r EXCEPT !.pc = "done", !.answer = "error"].pc = "done"
         /\ [r EXCEPT !.pc = "done", !.answer = "error"].answer = "error"
         /\ [r EXCEPT !.pc = "done", !.answer = "error"].key = r.key
<1> DEFINE a == [r EXCEPT !.pc = "done"]
           d == [a EXCEPT !.answer = "error"]
<1>1. d = [r EXCEPT !.pc = "done", !.answer = "error"]
  OBVIOUS
<1>2. a \in ReqRecords /\ a.pc = "done" /\ a.key = r.key
  BY PlaceChanged
<1> HIDE DEF a
<1>3. d \in ReqRecords /\ d.pc = "done" /\ d.answer = "error" /\ d.key = r.key
  BY <1>2, AnswerChanged DEF Answers
<1> HIDE DEF d
<1> QED
  BY <1>1, <1>3

(* A request that is answered is the only one that changes.                *)
LEMMA AnsweredReq ==
  ASSUME Typed, NEW q \in Requests, req[q].pc # "new", NEW answer \in Answers, Answered(q, answer)
  PROVE  /\ kind' = kind /\ tight' = tight /\ req' \in [Requests -> ReqRecords]
         /\ \A p \in Requests : req'[p].pc # "new" => req'[p].key \in Keys
         /\ \A p \in Requests : p # q => req'[p] = req[p]
         /\ req'[q].pc = "done" /\ req'[q].answer = answer
         /\ req'[q].key = req[q].key /\ req'[q].body = req[q].body
<1>1. PICK d \in ReqRecords :
        /\ d = [req[q] EXCEPT !.pc = "done", !.base = "none", !.answer = answer]
        /\ d.pc = "done" /\ d.answer = answer /\ d.key = req[q].key /\ d.body = req[q].body
  BY Answering DEF Typed
<1>2. req' = [req EXCEPT ![q] = d] /\ kind' = kind /\ tight' = tight
  BY <1>1 DEF Answered
<1> QED
  BY <1>1, <1>2 DEF Typed

(* A step of one request that is harmless to every key.                    *)
LEMMA QuietStep ==
  ASSUME Inv, NEW q \in Requests, NEW d \in ReqRecords, req' = [req EXCEPT ![q] = d],
         req[q].pc # "done", d.pc # "new" => d.key \in Keys,
         UNCHANGED <<kind, row, job, tight>>, \A k \in Keys : Harmless(d, k)
  PROVE  Inv'
<1>1. Typed'
  BY DEF Inv, Typed
<1>2. \A p \in Requests : req'[p] = req[p] \/ (req[p].pc # "done" /\ req'[p] = d)
  BY DEF Inv, Typed
<1>3. ASSUME NEW k \in Keys PROVE KeyOK(k)'
  BY <1>2, KeptKey DEF Inv
<1> QED
  BY <1>1, <1>3 DEF Inv

LEMMA NoEffectStep ==
  ASSUME Inv, NEW q \in Requests, req[q].pc \in {"sent", "read"},
         NEW answer \in Answers \ {"accepted", "duplicate", "content"}, NoEffect(q, answer)
  PROVE  Inv'
<1>1. /\ kind' = kind /\ tight' = tight /\ req' \in [Requests -> ReqRecords]
      /\ \A p \in Requests : req'[p].pc # "new" => req'[p].key \in Keys
      /\ \A p \in Requests : p # q => req'[p] = req[p]
      /\ req'[q].pc = "done" /\ req'[q].answer = answer
      /\ row' = row /\ job' = job
  BY AnsweredReq DEF NoEffect, Inv
<1>2. Typed'
  BY <1>1 DEF Inv, Typed
<1>3. ASSUME NEW k \in Keys PROVE KeyOK(k)'
  <2>1. Harmless(req'[q], k)
    BY <1>1 DEF Harmless
  <2> QED
    BY <1>1, <2>1, KeptKey DEF Inv
<1> QED
  BY <1>2, <1>3 DEF Inv

(* A request that is answered and may change its own key.                  *)
LEMMA EffectStep ==
  ASSUME Inv, NEW q \in Requests, req[q].pc \in {"sent", "read"}, NEW answer \in Answers,
         Answered(q, answer), NEW c \in Keys, c = req[q].key,
         NEW r \in RowRecords, row' = [row EXCEPT ![c] = r],
         NEW j \in Jobs, job' = [job EXCEPT ![c] = j], KeyOK(c)'
  PROVE  Inv'
<1>1. /\ kind' = kind /\ tight' = tight /\ req' \in [Requests -> ReqRecords]
      /\ \A p \in Requests : req'[p].pc # "new" => req'[p].key \in Keys
      /\ \A p \in Requests : p # q => req'[p] = req[p]
      /\ req'[q].key = req[q].key
  BY AnsweredReq DEF Inv
<1>2. Typed'
  BY <1>1 DEF Inv, Typed
<1>3. ASSUME NEW k \in Keys PROVE KeyOK(k)'
  <2>1. CASE k = c
    BY <2>1
  <2>2. CASE k # c
    <3>1. Harmless(req'[q], k)
      BY <1>1, <2>2 DEF Harmless
    <3>2. row'[k] = row[k] /\ job'[k] = job[k]
      BY <2>2 DEF Inv, Typed
    <3> QED
      BY <1>1, <3>1, <3>2, KeptKey DEF Inv
  <2> QED
    BY <2>1, <2>2
<1> QED
  BY <1>2, <1>3 DEF Inv

(* A task that changes its own key.                                        *)
LEMMA TaskStep ==
  ASSUME Inv, NEW c \in Keys, UNCHANGED <<kind, tight, req>>, NEW r \in RowRecords,
         row' = [row EXCEPT ![c] = r], NEW j \in Jobs, job' = [job EXCEPT ![c] = j], KeyOK(c)'
  PROVE  Inv'
<1>1. Typed'
  BY DEF Inv, Typed
<1>2. ASSUME NEW k \in Keys, k # c PROVE KeyOK(k)'
  <2>1. row'[k] = row[k] /\ job'[k] = job[k]
    BY <1>2 DEF Inv, Typed
  <2> QED
    BY <2>1, KeptKey DEF Inv
<1> QED
  BY <1>1, <1>2 DEF Inv

(* One more request was told that it is accepted.                          *)
LEMMA HeardOneMore ==
  ASSUME Inv, NEW q \in Requests, req[q].pc \in {"sent", "read"}, Answered(q, "accepted"),
         NEW k, k = req[q].key
  PROVE  Cardinality(Heard(k))' = Cardinality(Heard(k)) + 1
<1>1. /\ \A p \in Requests : p # q => req'[p] = req[p]
      /\ req'[q].pc = "done" /\ req'[q].answer = "accepted" /\ req'[q].key = k
  BY AnsweredReq DEF Inv, Answers
<1>2. /\ {p \in Requests : req'[p].pc = "done" /\ req'[p].key = k /\ req'[p].answer \in {"accepted"}}
           = Told(k, {"accepted"}) \cup {q}
      /\ q \notin Told(k, {"accepted"})
  BY <1>1 DEF Told
<1>3. IsFiniteSet(Told(k, {"accepted"}))
  BY RequestsAssumption, FS_Subset DEF Told
<1>4. Cardinality(Told(k, {"accepted"}) \cup {q}) = Cardinality(Told(k, {"accepted"})) + 1
  BY <1>2, <1>3, FS_AddElement
<1> QED
  BY <1>2, <1>4 DEF Heard, Told

LEMMA StatusChanged ==
  ASSUME NEW r \in RowRecords, NEW status \in Statuses
  PROVE  /\ [r EXCEPT !.status = status] \in RowRecords
         /\ [r EXCEPT !.status = status].status = status
         /\ [r EXCEPT !.status = status].made = r.made
         /\ [r EXCEPT !.status = status].body = r.body
  BY DEF RowRecords

LEMMA MadeChanged ==
  ASSUME NEW r \in RowRecords, NEW made \in Nat
  PROVE  /\ [r EXCEPT !.made = made] \in RowRecords /\ [r EXCEPT !.made = made].made = made
         /\ [r EXCEPT !.made = made].status = r.status /\ [r EXCEPT !.made = made].body = r.body
  BY DEF RowRecords

LEMMA TextChanged ==
  ASSUME NEW r \in RowRecords, NEW text \in Bodies \cup {"none"}
  PROVE  /\ [r EXCEPT !.body = text] \in RowRecords /\ [r EXCEPT !.body = text].body = text
         /\ [r EXCEPT !.body = text].status = r.status /\ [r EXCEPT !.body = text].made = r.made
  BY DEF RowRecords

LEMMA Unchanged ==
  ASSUME Typed, NEW k \in Keys
  PROVE  /\ row = [row EXCEPT ![k] = row[k]] /\ row[k] \in RowRecords
         /\ job = [job EXCEPT ![k] = job[k]] /\ job[k] \in Jobs
  BY DEF Typed

-----------------------------------------------------------------------------
(* Deliveries                                                              *)
LEMMA RefuseDeliveryStep ==
  ASSUME Inv, NEW q \in Requests, RefuseDelivery(q)
  PROVE  Inv'
<1>1. req[q].pc = "read" /\ kind = "webhook"
  BY DEF RefuseDelivery, Going
<1>2. PICK k \in Keys : k = req[q].key
  BY <1>1 DEF Inv, Typed
<1>3. CASE \E answer \in {"hmac_failed", "error"} : NoEffect(q, answer)
  BY <1>1, <1>3, NoEffectStep DEF Answers
<1>4. CASE ~\E answer \in {"hmac_failed", "error"} : NoEffect(q, answer)
  <2>1. /\ row[k].status = "none" /\ row' = [row EXCEPT ![k].status = "unsigned"]
        /\ UNCHANGED job /\ Answered(q, "hmac_failed")
    BY <1>2, <1>4 DEF RefuseDelivery
  <2> DEFINE r == [row[k] EXCEPT !.status = "unsigned"]
  <2>2. row' = [row EXCEPT ![k] = r]
    BY <2>1
  <2>3. r \in RowRecords /\ r.status = "unsigned" /\ r.made = row[k].made
    BY StatusChanged DEF Inv, Typed, Statuses, Observed
  <2> HIDE DEF r
  <2>4. /\ kind' = kind
        /\ \A p \in Requests : p # q => req'[p] = req[p]
        /\ req'[q].pc = "done" /\ req'[q].answer = "hmac_failed" /\ req'[q].key = k
    BY <1>1, <1>2, <2>1, AnsweredReq DEF Inv, Answers
  <2>5. row'[k] = r
    BY <2>2 DEF Inv, Typed
  <2>6. Heard(k)' = Heard(k)
    BY <1>1, <2>4 DEF Heard, Told
  <2>7. WebhookOK(k)
    BY <1>1 DEF Inv, KeyOK
  <2>8. row'[k].made = Cardinality(Heard(k)) /\ row'[k].made = 0
    BY <2>1, <2>3, <2>5, <2>7 DEF WebhookOK
  <2>9. \A p \in Requests :
          ~(/\ req'[p].key = k
            /\ (req'[p].pc = "done" /\ req'[p].answer = "duplicate")
                 \/ (req'[p].pc = "read" /\ req'[p].base = "signed"))
    BY <2>1, <2>4, <2>7 DEF WebhookOK
  <2>10. WebhookOK(k)'
    BY <2>3, <2>5, <2>6, <2>8, <2>9 DEF WebhookOK, Observed
  <2>11. KeyOK(k)'
    BY <1>1, <2>4, <2>10 DEF KeyOK, Receipted
  <2>12. "hmac_failed" \in Answers /\ job' = [job EXCEPT ![k] = job[k]] /\ job[k] \in Jobs
    BY <2>1, Unchanged DEF Answers, Inv
  <2> QED
    BY <1>1, <1>2, <2>1, <2>2, <2>3, <2>11, <2>12, EffectStep
<1> QED
  BY <1>3, <1>4

LEMMA AcceptDeliveryStep ==
  ASSUME Inv, NEW q \in Requests, AcceptDelivery(q)
  PROVE  Inv'
<1>1. req[q].pc = "read" /\ kind = "webhook"
  BY DEF AcceptDelivery, Going
<1>2. PICK k \in Keys : k = req[q].key
  BY <1>1 DEF Inv, Typed
<1>3. WebhookOK(k) /\ kind \notin Receipted
  BY <1>1 DEF Inv, KeyOK, Receipted
<1>4. CASE \E answer \in {"invalid", "error"} : NoEffect(q, answer)
  BY <1>1, <1>4, NoEffectStep DEF Answers
<1>5. CASE req[q].base = "signed" /\ NoEffect(q, "duplicate")
  <2>1. /\ kind' = kind /\ row' = row /\ job' = job
        /\ \A p \in Requests : p # q => req'[p] = req[p]
        /\ req'[q].pc = "done" /\ req'[q].answer = "duplicate" /\ req'[q].key = k
    BY <1>1, <1>2, <1>5, AnsweredReq DEF Inv, Answers, NoEffect
  <2>2. Heard(k)' = Heard(k)
    BY <1>1, <2>1 DEF Heard, Told
  <2>3. row[k].status = "signed"
    BY <1>1, <1>2, <1>3, <1>5 DEF WebhookOK
  <2>4. WebhookOK(k)'
    BY <1>3, <2>1, <2>2, <2>3 DEF WebhookOK
  <2>5. KeyOK(k)'
    BY <1>1, <1>3, <2>1, <2>4 DEF KeyOK
  <2>6. /\ row' = [row EXCEPT ![k] = row[k]] /\ row[k] \in RowRecords
        /\ job' = [job EXCEPT ![k] = job[k]] /\ job[k] \in Jobs /\ "duplicate" \in Answers
    BY <2>1, Unchanged DEF Inv, Answers
  <2> QED
    BY <1>1, <1>2, <1>5, <2>5, <2>6, EffectStep DEF NoEffect
<1>6. CASE /\ row[k].status \in {"none", "unsigned"}
           /\ row' = [row EXCEPT ![k].status = "signed", ![k].made = @ + 1]
           /\ \E resumes \in BOOLEAN : job' = [job EXCEPT ![k] = IF resumes THEN "queued" ELSE @]
           /\ Answered(q, "accepted")
  <2>1. PICK r \in RowRecords :
          row' = [row EXCEPT ![k] = r] /\ r.status = "signed" /\ r.made = row[k].made + 1
    <3> DEFINE a == [row[k] EXCEPT !.status = "signed"]
               r == [a EXCEPT !.made = row[k].made + 1]
    <3>1. row[k] \in RowRecords /\ row[k].made + 1 \in Nat /\ "signed" \in Statuses
      BY DEF Inv, Typed, RowRecords, Statuses, Observed
    <3>2. a \in RowRecords /\ a.status = "signed" /\ a.made = row[k].made
      BY <3>1, StatusChanged
    <3>3. row' = [row EXCEPT ![k] = r]
      BY <1>6, <3>2 DEF Inv, Typed
    <3> HIDE DEF a
    <3>4. r \in RowRecords /\ r.status = "signed" /\ r.made = row[k].made + 1
      BY <3>1, <3>2, MadeChanged
    <3> HIDE DEF r
    <3> QED
      BY <3>3, <3>4
  <2>2. PICK j \in Jobs : job' = [job EXCEPT ![k] = j]
    BY <1>6 DEF Inv, Typed, Jobs
  <2>3. /\ kind' = kind
        /\ \A p \in Requests : p # q => req'[p] = req[p]
        /\ req'[q].pc = "done" /\ req'[q].answer = "accepted" /\ req'[q].key = k
    BY <1>1, <1>2, <1>6, AnsweredReq DEF Inv, Answers
  <2>4. row'[k] = r
    BY <2>1 DEF Inv, Typed
  <2>5. Cardinality(Heard(k))' = Cardinality(Heard(k)) + 1
    BY <1>1, <1>2, <1>6, HeardOneMore
  <2>6. row[k].made = 0 /\ row[k].made = Cardinality(Heard(k))
    BY <1>3, <1>6 DEF WebhookOK
  <2>7. row'[k].made = 1 /\ row'[k].made = Cardinality(Heard(k))'
    BY <2>1, <2>4, <2>5, <2>6
  <2>8. WebhookOK(k)'
    BY <2>1, <2>4, <2>7 DEF WebhookOK, Observed
  <2>9. KeyOK(k)' /\ "accepted" \in Answers
    BY <1>1, <1>3, <2>3, <2>8 DEF KeyOK, Answers
  <2> QED
    BY <1>1, <1>2, <1>6, <2>1, <2>2, <2>9, EffectStep
<1> QED
  BY <1>2, <1>4, <1>5, <1>6 DEF AcceptDelivery, Apply

-----------------------------------------------------------------------------
(* Receipts                                                                *)

(* A request that is answered about a receipt, which is not taken back.    *)
LEMMA ReceiptKept ==
  ASSUME Inv, NEW q \in Requests, req[q].pc \in {"sent", "read"}, kind \in Receipted,
         NEW answer \in Answers, Answered(q, answer), NEW k \in Keys, k = req[q].key,
         NEW r \in RowRecords, row' = [row EXCEPT ![k] = r],
         NEW j \in Jobs, job' = [job EXCEPT ![k] = j],
         r.status \notin Observed, r.made = IF r.status \in Good THEN 1 ELSE 0,
         j \in AtWork => r.status \in Open,
         row[k].status \in Good => r.status \in Good,
         row[k].status # "none" => r.status # "none" /\ r.body = row[k].body,
         answer = "content" => r.status \in Good,
         answer = "accepted" => r.status # "none" /\ r.body = req[q].body
  PROVE  Inv'
<1>1. /\ kind' = kind
      /\ \A p \in Requests : p # q => req'[p] = req[p]
      /\ req'[q].pc = "done" /\ req'[q].answer = answer /\ req'[q].key = k
      /\ req'[q].body = req[q].body
  BY AnsweredReq DEF Inv
<1>2. row'[k] = r /\ job'[k] = j
  BY DEF Inv, Typed
<1>3. ReceiptOK(k)
  BY DEF Inv, KeyOK
<1>4. ASSUME NEW p \in Requests, req'[p].key = k
      PROVE  /\ req'[p].pc = "done" /\ req'[p].answer = "content" => r.status \in Good
             /\ req'[p].pc = "done" /\ req'[p].answer = "accepted" =>
                  r.status # "none" /\ r.body = req'[p].body
             /\ req'[p].pc = "read" /\ req'[p].base # "none" => r.status # "none"
  <2>1. CASE p = q
    BY <1>1, <2>1
  <2>2. CASE p # q
    BY <1>1, <1>3, <1>4, <2>2 DEF ReceiptOK
  <2> QED
    BY <2>1, <2>2
<1>5. ReceiptOK(k)'
  BY <1>2, <1>4 DEF ReceiptOK
<1>6. KeyOK(k)'
  BY <1>1, <1>5 DEF KeyOK, Receipted
<1> QED
  BY <1>6, EffectStep

LEMMA AcceptStep ==
  ASSUME Inv, NEW q \in Requests, NEW kinds \in SUBSET Receipted, Accept(q, kinds)
  PROVE  Inv'
<1>1. req[q].pc = "read" /\ kind \in Receipted
  BY DEF Accept, Going
<1>2. PICK k \in Keys : k = req[q].key
  BY <1>1 DEF Inv, Typed
<1>3. ReceiptOK(k)
  BY <1>1 DEF Inv, KeyOK
<1>4. CASE \E answer \in {"error", "key_conflict"} : NoEffect(q, answer)
  BY <1>1, <1>4, NoEffectStep DEF Answers
<1>5. CASE req[q].base # "none" /\ row[k].body = req[q].body /\ NoEffect(q, "accepted")
  <2>1. row[k].status # "none"
    BY <1>1, <1>2, <1>3, <1>5 DEF ReceiptOK
  <2>2. /\ row' = [row EXCEPT ![k] = row[k]] /\ row[k] \in RowRecords
        /\ job' = [job EXCEPT ![k] = job[k]] /\ job[k] \in Jobs /\ "accepted" \in Answers
    BY <1>5, Unchanged DEF Inv, Answers, NoEffect
  <2>3. /\ row[k].status \notin Observed
        /\ row[k].made = IF row[k].status \in Good THEN 1 ELSE 0
        /\ job[k] \in AtWork => row[k].status \in Open
    BY <1>3 DEF ReceiptOK
  <2>4. Answered(q, "accepted")
    BY <1>5 DEF NoEffect
  <2> QED
    BY <1>1, <1>2, <1>5, <2>1, <2>2, <2>3, <2>4, ReceiptKept, ZenonT(40)
<1>6. CASE /\ row[k].status = "none"
           /\ row' = [row EXCEPT ![k].status = "accepted", ![k].body = req[q].body]
           /\ job' = [job EXCEPT ![k] = "queued"]
           /\ Answered(q, "accepted")
  <2>1. PICK text \in Bodies \cup {"none"} : text = req[q].body
    BY DEF Inv, Typed, ReqRecords
  <2>2. PICK r \in RowRecords :
          /\ row' = [row EXCEPT ![k] = r]
          /\ r.status = "accepted" /\ r.made = row[k].made /\ r.body = text
    <3> DEFINE a == [row[k] EXCEPT !.status = "accepted"]
               r == [a EXCEPT !.body = text]
    <3>1. row[k] \in RowRecords /\ "accepted" \in Statuses
      BY DEF Inv, Typed, Statuses, Open
    <3>2. a \in RowRecords /\ a.status = "accepted" /\ a.made = row[k].made
      BY <3>1, StatusChanged
    <3>3. row' = [row EXCEPT ![k] = r]
      BY <1>6, <2>1 DEF Inv, Typed
    <3> HIDE DEF a
    <3>4. r \in RowRecords /\ r.status = "accepted" /\ r.made = row[k].made /\ r.body = text
      BY <3>1, <3>2, TextChanged
    <3> HIDE DEF r
    <3> QED
      BY <3>3, <3>4
  <2>3. row[k].made = 0
    BY <1>3, <1>6 DEF ReceiptOK, Good
  <2>4. /\ r.status \notin Observed /\ r.status \notin Good /\ r.status \in Open
        /\ row[k].status \notin Good /\ "accepted" \in Answers /\ "queued" \in Jobs
    BY <1>6, <2>2 DEF Observed, Good, Open, Answers, Jobs
  <2> QED
    BY <1>1, <1>2, <1>6, <2>1, <2>2, <2>3, <2>4, ReceiptKept
<1> QED
  BY <1>2, <1>4, <1>5, <1>6 DEF Accept, Replay

(* What a task makes of its receipt, which was open.                       *)
LEMMA WorkStep ==
  ASSUME Inv, kind \in Receipted, NEW k \in Keys, job[k] \in AtWork,
         NEW status \in Statuses, NEW made \in Nat, NEW next \in Jobs,
         Becomes(k, status, made, next),
         \/ status \in Open /\ made = 0
         \/ status \in Good /\ made = 1 /\ next \notin AtWork
         \/ status = "failed" /\ made = 0 /\ next \notin AtWork
  PROVE  Inv'
<1> DEFINE a == [row[k] EXCEPT !.status = status]
           r == [a EXCEPT !.made = row[k].made + made]
<1>1. row[k] \in RowRecords /\ row[k].made + made \in Nat
  BY DEF Inv, Typed, RowRecords
<1>2. a \in RowRecords /\ a.status = status /\ a.made = row[k].made /\ a.body = row[k].body
  BY <1>1, StatusChanged
<1>3. row' = [row EXCEPT ![k] = r]
  BY <1>2 DEF Becomes, Inv, Typed
<1> HIDE DEF a
<1>4. /\ r \in RowRecords /\ r.status = status /\ r.made = row[k].made + made
      /\ r.body = row[k].body
  BY <1>1, <1>2, MadeChanged
<1> HIDE DEF r
<1>5. ReceiptOK(k) /\ UNCHANGED <<kind, tight, req>> /\ job' = [job EXCEPT ![k] = next]
  BY DEF Inv, KeyOK, Becomes
<1>6. row[k].made = 0 /\ row[k].status \in Open /\ row[k].status \notin Good
  BY <1>5 DEF ReceiptOK, Open, Good
<1>7. row'[k] = r /\ job'[k] = next
  BY <1>3, <1>5 DEF Inv, Typed
<1>8. /\ r.made = IF r.status \in Good THEN 1 ELSE 0
      /\ r.status \notin Observed /\ r.status # "none"
      /\ next \in AtWork => r.status \in Open
  BY <1>4, <1>6 DEF Observed, Open, Good
<1>9. \A p \in Requests : req[p].key = k =>
         /\ ~(req[p].pc = "done" /\ req[p].answer = "content")
         /\ req[p].pc = "done" /\ req[p].answer = "accepted" => r.body = req[p].body
  BY <1>4, <1>5, <1>6 DEF ReceiptOK
<1>10. ReceiptOK(k)'
  BY <1>5, <1>7, <1>8, <1>9 DEF ReceiptOK
<1>11. KeyOK(k)'
  BY <1>5, <1>10 DEF KeyOK, Receipted
<1> QED
  BY <1>3, <1>4, <1>5, <1>11, TaskStep

(* A task is at work on an open receipt, and its place changes.            *)
LEMMA WorkOpen ==
  ASSUME Inv, kind \in Receipted, NEW k \in Keys, job[k] \in AtWork
  PROVE  row[k].status \in Open /\ row[k].status \in Statuses
  BY DEF Inv, Typed, KeyOK, ReceiptOK, RowRecords

LEMMA TasksStep ==
  ASSUME Inv, NEW k \in Keys, Work(k) \/ GeneratingDies(k)
  PROVE  Inv'
<1>1. CASE Resume(k)
  <2>1. /\ row' = [row EXCEPT ![k] = row[k]] /\ row[k] \in RowRecords
        /\ UNCHANGED <<kind, row, tight, req>> /\ job' = [job EXCEPT ![k] = "over"]
        /\ "over" \in Jobs
    BY <1>1, Unchanged DEF Resume, Inv, Jobs
  <2>2. job'[k] \notin AtWork
    BY <2>1 DEF Inv, Typed, AtWork
  <2>3. KeyOK(k)'
    BY <2>1, <2>2, KeptKey DEF Inv
  <2> QED
    BY <2>1, <2>3, TaskStep
<1>2. ASSUME NEW status, NEW made, NEW next, Becomes(k, status, made, next),
             kind \in Receipted, job[k] \in AtWork,
             \/ status \in Open /\ made = 0 /\ next \in {"running", "failing", "lost"}
             \/ status \in Good /\ made = 1 /\ next = "over"
             \/ status = "failed" /\ made = 0 /\ next = "over"
      PROVE  Inv'
  <2>1. /\ status \in Statuses /\ made \in Nat /\ next \in Jobs
        /\ "over" \notin AtWork
    BY <1>2 DEF Statuses, Open, Good, Ended, Jobs, AtWork
  <2> QED
    BY <1>2, <2>1, WorkStep
<1>3. CASE StartPackaging(k) \/ Package(k) \/ PackagingFails(k) \/ StartGenerating(k)
             \/ Generate(k) \/ GeneratingDies(k)
  <2>1. kind \in Receipted /\ job[k] \in AtWork
    BY <1>3 DEF StartPackaging, Package, PackagingFails, StartGenerating, Generate, GeneratingDies,
                Receipted, AtWork
  <2>2. row[k].status \in Open /\ "running" \in Open /\ "succeeded" \in Good /\ "partial" \in Good
    BY <2>1, WorkOpen DEF Open, Good
  <2>3. \/ Becomes(k, "running", 0, "running") \/ Becomes(k, row[k].status, 0, "failing")
        \/ Becomes(k, "succeeded", 1, "over") \/ Becomes(k, "partial", 1, "over")
        \/ Becomes(k, "failed", 0, "over") \/ Becomes(k, row[k].status, 0, "lost")
    BY <1>3 DEF StartPackaging, Package, PackagingFails, StartGenerating, Generate, GeneratingDies
  <2> QED
    BY <1>2, <2>1, <2>2, <2>3
<1> QED
  BY <1>1, <1>3 DEF Work

LEMMA DownloadStep ==
  ASSUME Inv, NEW q \in Requests, Download(q)
  PROVE  Inv'
<1>1. req[q].pc = "sent"
  BY DEF Download
<1>2. PICK k \in Keys : k = req[q].key
  BY <1>1 DEF Inv, Typed
<1>3. CASE NoEffect(q, "not_ready")
  BY <1>1, <1>3, NoEffectStep DEF Answers
<1>4. CASE row[k].status = "succeeded" /\ row[k].made > 0 /\ NoEffect(q, "content")
  <2>1. kind \in Receipted
    BY <1>4 DEF Inv, KeyOK, WebhookOK, CopilotOK, Observed, Kinds, Receipted, Typed
  <2>2. ReceiptOK(k) /\ row[k].status \in Good /\ Answered(q, "content")
    BY <1>4, <2>1 DEF Inv, KeyOK, Good, NoEffect
  <2>3. /\ row' = [row EXCEPT ![k] = row[k]] /\ row[k] \in RowRecords
        /\ job' = [job EXCEPT ![k] = job[k]] /\ job[k] \in Jobs /\ "content" \in Answers
    BY <1>4, Unchanged DEF Inv, Answers, NoEffect
  <2>4. /\ row[k].status \notin Observed
        /\ row[k].made = IF row[k].status \in Good THEN 1 ELSE 0
        /\ job[k] \in AtWork => row[k].status \in Open
    BY <2>2 DEF ReceiptOK
  <2>5. PICK r \in RowRecords, j \in Jobs, a \in Answers :
          r = row[k] /\ j = job[k] /\ a = "content"
    BY <2>3
  <2>6. /\ Answered(q, a) /\ row' = [row EXCEPT ![k] = r] /\ job' = [job EXCEPT ![k] = j]
        /\ r.status \notin Observed /\ r.made = IF r.status \in Good THEN 1 ELSE 0
        /\ j \in AtWork => r.status \in Open
    BY <2>2, <2>3, <2>4, <2>5
  <2>7. r.status \in Good /\ r.status # "none" /\ r.body = row[k].body /\ a # "accepted"
    BY <2>2, <2>5 DEF Good
  <2> QED
    BY <1>1, <1>2, <2>1, <2>6, <2>7, ReceiptKept
<1> QED
  BY <1>2, <1>3, <1>4 DEF Download

LEMMA PostMessageStep ==
  ASSUME Inv, NEW q \in Requests, PostMessage(q)
  PROVE  Inv'
<1>1. req[q].pc = "sent" /\ kind = "copilot"
  BY DEF PostMessage
<1>2. PICK k \in Keys : k = req[q].key
  BY <1>1 DEF Inv, Typed
<1>3. CASE NoEffect(q, "refused")
  BY <1>1, <1>3, NoEffectStep DEF Answers
<1>4. CASE /\ row' = [row EXCEPT ![k].made = @ + 1] /\ UNCHANGED job
           /\ Answered(q, "accepted")
  <2> DEFINE r == [row[k] EXCEPT !.made = row[k].made + 1]
  <2>1. row[k] \in RowRecords /\ row[k].made + 1 \in Nat
    BY DEF Inv, Typed, RowRecords
  <2>2. row' = [row EXCEPT ![k] = r]
    BY <1>4
  <2>3. r \in RowRecords /\ r.made = row[k].made + 1 /\ r.status = row[k].status
    BY <2>1, MadeChanged
  <2> HIDE DEF r
  <2>4. CopilotOK(k) /\ kind' = kind
    BY <1>1, <1>4 DEF Inv, KeyOK, Answered
  <2>5. Cardinality(Heard(k))' = Cardinality(Heard(k)) + 1
    BY <1>1, <1>2, <1>4, HeardOneMore
  <2>6. row'[k] = r
    BY <2>2 DEF Inv, Typed
  <2>7. CopilotOK(k)'
    BY <2>3, <2>4, <2>5, <2>6 DEF CopilotOK
  <2>8. KeyOK(k)' /\ "accepted" \in Answers
    BY <1>1, <2>4, <2>7 DEF KeyOK, Receipted, Answers
  <2>9. job' = [job EXCEPT ![k] = job[k]] /\ job[k] \in Jobs
    BY <1>4, Unchanged DEF Inv
  <2> QED
    BY <1>1, <1>2, <1>4, <2>2, <2>3, <2>8, <2>9, EffectStep
<1> QED
  BY <1>2, <1>3, <1>4 DEF PostMessage

-----------------------------------------------------------------------------
LEMMA SendStep ==
  ASSUME Inv, NEW q \in Requests, Send(q)
  PROVE  Inv'
<1>1. PICK op \in {"create", "download"}, key \in Keys, body \in Bodies, signed \in BOOLEAN :
        /\ kind \notin Receipted => body = CHOOSE b \in Bodies : TRUE
        /\ req' = [req EXCEPT ![q] =
             [@ EXCEPT !.pc = "sent", !.op = op, !.key = key, !.body = body, !.signed = signed]]
  BY DEF Send
<1> DEFINE a == [req[q] EXCEPT !.pc = "sent"]
           b == [a EXCEPT !.op = op]
           c == [b EXCEPT !.key = key]
           e == [c EXCEPT !.body = body]
           d == [e EXCEPT !.signed = signed]
<1>2. req' = [req EXCEPT ![q] = d] /\ req[q] \in ReqRecords
  BY <1>1 DEF Inv, Typed
<1>3. a \in ReqRecords /\ a.pc = "sent"
  BY <1>2, PlaceChanged
<1> HIDE DEF a
<1>4. b \in ReqRecords /\ b.pc = "sent"
  BY <1>3 DEF ReqRecords
<1> HIDE DEF b
<1>5. c \in ReqRecords /\ c.pc = "sent" /\ c.key = key
  BY <1>4 DEF ReqRecords
<1> HIDE DEF c
<1>6. e \in ReqRecords /\ e.pc = "sent" /\ e.key = key
  BY <1>5 DEF ReqRecords
<1> HIDE DEF e
<1>7. d \in ReqRecords /\ d.pc = "sent" /\ d.key = key
  BY <1>6 DEF ReqRecords
<1> HIDE DEF d
<1>8. \A k \in Keys : Harmless(d, k)
  BY <1>7 DEF Harmless
<1>9. req[q].pc # "done" /\ UNCHANGED <<kind, row, job, tight>>
  BY DEF Send
<1> QED
  BY <1>2, <1>7, <1>8, <1>9, QuietStep

LEMMA LookUpStep ==
  ASSUME Inv, NEW q \in Requests, LookUp(q)
  PROVE  Inv'
<1>1. PICK k \in Keys : k = req[q].key
  BY DEF LookUp, Inv, Typed
<1>2. row[k].status \in Statuses /\ req[q] \in ReqRecords
  BY DEF Inv, Typed, RowRecords
<1>3. PICK d \in ReqRecords :
        /\ d = [[req[q] EXCEPT !.pc = "read"] EXCEPT !.base = row[k].status]
        /\ d.pc = "read" /\ d.base = row[k].status /\ d.key = req[q].key
  BY <1>2, Looking
<1>4. req' = [req EXCEPT ![q] = d]
  BY <1>1, <1>3 DEF LookUp, Inv, Typed
<1>5. \A c \in Keys : Harmless(d, c)
  BY <1>1, <1>3 DEF Harmless
<1>6. req[q].pc # "done" /\ UNCHANGED <<kind, row, job, tight>>
  BY DEF LookUp
<1> QED
  BY <1>1, <1>3, <1>4, <1>5, <1>6, QuietStep

LEMMA CrashStep ==
  ASSUME Inv, Crash
  PROVE  Inv'
<1>1. /\ UNCHANGED <<kind, row, tight>>
      /\ job' = [k \in Keys |-> IF job[k] \in AtWork THEN "lost" ELSE job[k]]
      /\ req' = [q \in Requests |->
           IF req[q].pc \in {"sent", "read"} THEN [req[q] EXCEPT !.pc = "done", !.answer = "error"]
           ELSE req[q]]
  BY DEF Crash, AtWork
<1>2. ASSUME NEW q \in Requests
      PROVE  /\ req'[q] \in ReqRecords
             /\ req'[q].pc # "new" => req'[q].key \in Keys
             /\ \/ req'[q] = req[q]
                \/ req[q].pc # "done" /\ req'[q].pc = "done" /\ req'[q].answer = "error"
  <2>1. req[q] \in ReqRecords /\ (req[q].pc # "new" => req[q].key \in Keys)
    BY DEF Inv, Typed
  <2>2. CASE req[q].pc \in {"sent", "read"}
    <3>1. req'[q] = [req[q] EXCEPT !.pc = "done", !.answer = "error"]
      BY <1>1, <2>2
    <3> QED
      BY <2>1, <2>2, <3>1, Failing
  <2>3. CASE req[q].pc \notin {"sent", "read"}
    BY <1>1, <2>1, <2>3
  <2> QED
    BY <2>2, <2>3
<1>3. job' \in [Keys -> Jobs] /\ \A k \in Keys : job'[k] = job[k] \/ job'[k] \notin AtWork
  BY <1>1 DEF Inv, Typed, Jobs, AtWork
<1>4. req' \in [Requests -> ReqRecords]
  BY <1>1, <1>2
<1>5. Typed'
  BY <1>1, <1>2, <1>3, <1>4 DEF Inv, Typed
<1>6. ASSUME NEW k \in Keys PROVE KeyOK(k)'
  <2>1. \A p \in Requests : req'[p] = req[p] \/ (req[p].pc # "done" /\ Harmless(req'[p], k))
    BY <1>2 DEF Harmless
  <2> QED
    BY <1>1, <1>3, <2>1, KeptKey DEF Inv
<1> QED
  BY <1>5, <1>6 DEF Inv

LEMMA StepInv == Inv /\ [Next]_vars => Inv'
<1> SUFFICES ASSUME Inv, [Next]_vars PROVE Inv'
  OBVIOUS
<1>1. CASE UNCHANGED <<kind, row, job, req>> /\ tight' \in SUBSET Switches
  <2>1. Typed'
    BY <1>1 DEF Inv, Typed
  <2>2. ASSUME NEW k \in Keys PROVE KeyOK(k)'
    BY <1>1, KeptKey DEF Inv
  <2> QED
    BY <2>1, <2>2 DEF Inv
<1>2. CASE UNCHANGED vars
  BY <1>1, <1>2 DEF vars, Inv, Typed
<1>3. CASE Switch
  BY <1>1, <1>3 DEF Switch
<1>4. CASE Crash
  BY <1>4, CrashStep
<1>5. ASSUME NEW k \in Keys, Work(k) \/ GeneratingDies(k) PROVE Inv'
  BY <1>5, TasksStep
<1>6. ASSUME NEW q \in Requests, Send(q) \/ Handle(q) \/ Dies(q) PROVE Inv'
  <2>1. CASE Dies(q)
    BY <2>1, NoEffectStep DEF Dies, Answers
  <2>2. CASE Refuse(q, {"export"}) \/ Refuse(q, {"generation"})
    BY <2>2, NoEffectStep DEF Refuse, Going, Answers
  <2>3. CASE Accept(q, {"export"}) \/ Accept(q, {"generation"})
    BY <2>3, AcceptStep DEF Receipted
  <2> QED
    BY <1>6, <2>1, <2>2, <2>3, SendStep, LookUpStep, RefuseDeliveryStep, AcceptDeliveryStep,
       DownloadStep, PostMessageStep DEF Handle, CreateExport, CreateGeneration
<1> QED
  BY <1>2, <1>3, <1>4, <1>5, <1>6 DEF Next

LEMMA InitInv == Init => Inv
<1> HAVE Init
<1>1. NoRow \in RowRecords /\ NotSent \in ReqRecords /\ NotSent.pc = "new" /\ NoRow.made = 0
        /\ NoRow.status = "none"
  BY DEF NoRow, NotSent, RowRecords, ReqRecords, Statuses, Answers
<1>2. /\ kind \in Kinds /\ row = [k \in Keys |-> NoRow] /\ job = [k \in Keys |-> "none"]
      /\ tight = {} /\ req = [q \in Requests |-> NotSent]
  BY DEF Init
<1>3. Typed
  BY <1>1, <1>2 DEF Typed, Jobs
<1>4. ASSUME NEW k \in Keys PROVE KeyOK(k)
  <2>1. Heard(k) = {} /\ Cardinality({}) = 0
    BY <1>1, <1>2, FS_EmptySet DEF Heard, Told
  <2>2. row[k].made = 0 /\ row[k].status = "none" /\ job[k] = "none"
    BY <1>1, <1>2
  <2>3. \A q \in Requests : req[q].pc = "new"
    BY <1>1, <1>2
  <2>4. WebhookOK(k)
    BY <2>1, <2>2, <2>3 DEF WebhookOK
  <2>5. ReceiptOK(k)
    BY <2>2, <2>3 DEF ReceiptOK, Observed, Good, AtWork
  <2>6. CopilotOK(k)
    BY <2>1, <2>2 DEF CopilotOK
  <2> QED
    BY <2>4, <2>5, <2>6 DEF KeyOK
<1> QED
  BY <1>3, <1>4 DEF Inv

LEMMA InvHolds == Spec => []Inv
<1> QED
  BY InitInv, StepInv, PTL DEF Spec

-----------------------------------------------------------------------------
(* Rows, tasks and requests stay in their ranges; nothing is made more     *)
(* often than it was asked for.                                            *)
THEOREM TypeCorrect == Spec => []TypeOK
<1>1. Inv => TypeOK
  <2> HAVE Inv
  <2>1. Cardinality(Requests) \in Nat /\ Cardinality(Requests) >= 1
    <3>1. Cardinality(Requests) \in Nat /\ Cardinality(Requests) # 0
      BY RequestsAssumption, FS_CardinalityType, FS_EmptySet
    <3> QED
      BY <3>1
  <2>2. ASSUME NEW k \in Keys
        PROVE  /\ row[k] \in Rows
               /\ kind = "webhook" => row[k].status \in {"none"} \cup Observed
               /\ kind \in Receipted => row[k].status \notin Observed
               /\ kind = "copilot" => row[k].status = "none"
    <3>1. row[k] \in RowRecords /\ KeyOK(k)
      BY DEF Inv, Typed
    <3>2. Cardinality(Heard(k)) <= Cardinality(Requests)
      BY RequestsAssumption, FS_Subset DEF Heard, Told
    <3>3. row[k].made <= Cardinality(Requests)
      <4>1. CASE kind \in {"webhook", "copilot"}
        BY <3>1, <3>2, <4>1 DEF KeyOK, WebhookOK, CopilotOK
      <4>2. CASE kind \in Receipted
        BY <2>1, <3>1, <4>2 DEF KeyOK, ReceiptOK
      <4> QED
        BY <4>1, <4>2 DEF Inv, Typed, Kinds, Receipted
    <3>4. row[k] \in Rows
      BY <2>1, <3>1, <3>3 DEF RowRecords, Rows, Statuses
    <3> QED
      BY <3>1, <3>4 DEF KeyOK, WebhookOK, ReceiptOK, CopilotOK
  <2>3. \A q \in Requests : req[q].pc \in {"new", "sent", "read", "done"}
    BY DEF Inv, Typed, ReqRecords
  <2> QED
    BY <2>2, <2>3 DEF Inv, Typed, TypeOK
<1> QED
  BY <1>1, InvHolds, PTL

(* What a client is told is what has been done, once: a delivery that was  *)
(* accepted is applied one time, the package or the drafts of a receipt are*)
(* its only ones and for the body that was accepted.                       *)
THEOREM DoneOnceHolds == Spec => []DoneOnce
<1>1. Inv => DoneOnce
  <2> SUFFICES ASSUME Inv, NEW k \in Keys
               PROVE  /\ kind # "copilot" => row[k].made \in {0, 1}
                      /\ kind = "webhook" =>
                           /\ row[k].made = Cardinality(Told(k, {"accepted"}))
                           /\ Told(k, {"accepted", "duplicate"}) # {} => row[k].made = 1
                      /\ kind = "copilot" => row[k].made = Cardinality(Told(k, {"accepted"}))
                      /\ kind \in Receipted =>
                           /\ row[k].made = 1 <=> row[k].status \in {"succeeded", "partial"}
                           /\ Told(k, {"content"}) # {} => row[k].made = 1
                           /\ \A q \in Told(k, {"accepted"}) : row[k].body = req[q].body
    BY DEF DoneOnce
  <2>1. KeyOK(k) /\ kind \in Kinds
    BY DEF Inv, Typed
  <2>2. CASE kind = "webhook"
    <3>1. /\ row[k].made = IF row[k].status = "signed" THEN 1 ELSE 0
          /\ row[k].made = Cardinality(Told(k, {"accepted"}))
          /\ \A q \in Told(k, {"duplicate"}) : row[k].status = "signed"
      BY <2>1, <2>2 DEF KeyOK, WebhookOK, Heard, Told
    <3>2. ASSUME NEW q \in Told(k, {"accepted", "duplicate"}) PROVE row[k].made = 1
      <4>1. CASE q \in Told(k, {"duplicate"})
        BY <3>1, <4>1
      <4>2. CASE q \in Told(k, {"accepted"})
        <5>1. IsFiniteSet(Told(k, {"accepted"}))
          BY RequestsAssumption, FS_Subset DEF Told
        <5>2. Cardinality(Told(k, {"accepted"})) # 0
          BY <4>2, <5>1, FS_EmptySet
        <5> QED
          BY <3>1, <5>2
      <4> QED
        BY <3>2, <4>1, <4>2 DEF Told
    <3> QED
      BY <2>2, <3>1, <3>2 DEF Receipted
  <2>3. CASE kind \in Receipted
    <3>1. ReceiptOK(k)
      BY <2>1, <2>3 DEF KeyOK
    <3> QED
      BY <2>3, <3>1 DEF ReceiptOK, Receipted, Good, Told
  <2>4. CASE kind = "copilot"
    BY <2>1, <2>4 DEF KeyOK, CopilotOK, Heard, Receipted
  <2> QED
    BY <2>1, <2>2, <2>3, <2>4 DEF Kinds, Receipted
<1> QED
  BY <1>1, InvHolds, PTL
=============================================================================
