----------------------------- MODULE Background -----------------------------
(***************************************************************************)
(* Work that a request accepts and something behind it does:               *)
(*   - webhook: a delivery is stored and applied in one transaction; the   *)
(*     CI run it is about is resumed by a task behind the answer;          *)
(*   - export: an evidence package is built behind a receipt;              *)
(*   - generation: cases are drafted behind a receipt;                     *)
(*   - copilot: a message is answered while its session is locked.         *)
(* The tasks live in the memory of the process that took the request.  A   *)
(* behaviour is about one kind, with one row per key: an observation key   *)
(* or an Idempotency-Key.                                                  *)
(***************************************************************************)
EXTENDS Naturals, FiniteSets

CONSTANTS
  Requests,   \* requests of clients and senders
  Keys,       \* observation keys, Idempotency-Keys
  Bodies      \* what a command asks for

ASSUME RequestsAssumption == IsFiniteSet(Requests) /\ Requests # {}

VARIABLES
  kind,   \* which work
  row,    \* per key, what is stored
  job,    \* per key, the task behind the answer
  tight,  \* the kill switches that are on
  req     \* the requests

vars == <<kind, row, job, tight, req>>

Kinds == {"webhook", "export", "generation", "copilot"}
Receipted == {"export", "generation"}

(* status: signature_ok of an observation, or the status of a receipt or a  *)
(* generation; made: how often the delivery was applied, the package or the *)
(* drafts stored, the message appended.                                     *)
Observed == {"unsigned", "signed"}
Open == {"accepted", "running"}
Ended == {"succeeded", "partial", "failed"}
NoRow == [status |-> "none", body |-> "none", made |-> 0]
Rows == [status : {"none"} \cup Observed \cup Open \cup Ended, body : Bodies \cup {"none"},
         made : 0..Cardinality(Requests)]

Jobs == {"none", "queued", "running", "failing", "over", "lost"}

Switches == {"capability", "global"}

(* base: the row as the request has read it.                                *)
NotSent == [pc |-> "new", op |-> "none", key |-> "none", body |-> "none", signed |-> FALSE,
            base |-> "none", answer |-> "none"]

TypeOK ==
  /\ kind \in Kinds
  /\ row \in [Keys -> Rows] /\ job \in [Keys -> Jobs] /\ tight \in SUBSET Switches
  /\ \A q \in Requests : req[q].pc \in {"new", "sent", "read", "done"}
  /\ \A k \in Keys :
       /\ kind = "webhook" => row[k].status \in {"none"} \cup Observed
       /\ kind \in Receipted => row[k].status \notin Observed
       /\ kind = "copilot" => row[k].status = "none"

Init ==
  /\ kind \in Kinds
  /\ row = [k \in Keys |-> NoRow] /\ job = [k \in Keys |-> "none"] /\ tight = {}
  /\ req = [q \in Requests |-> NotSent]

-----------------------------------------------------------------------------
(* Clients.  A retry and a redelivery are requests with a key used before.  *)
Send(q) ==
  /\ req[q].pc = "new"
  /\ \E op \in {"create", "download"}, key \in Keys, body \in Bodies, signed \in BOOLEAN :
       /\ op = "download" => kind = "export"
       /\ ~signed => kind = "webhook"
       /\ kind \notin Receipted => body = CHOOSE b \in Bodies : TRUE
       /\ req' = [req EXCEPT ![q] =
            [@ EXCEPT !.pc = "sent", !.op = op, !.key = key, !.body = body, !.signed = signed]]
  /\ UNCHANGED <<kind, row, job, tight>>

Answered(q, answer) ==
  /\ req' = [req EXCEPT ![q] = [@ EXCEPT !.pc = "done", !.base = "none", !.answer = answer]]
  /\ UNCHANGED <<kind, tight>>

NoEffect(q, answer) == Answered(q, answer) /\ UNCHANGED <<row, job>>

(* The look at the key, without a lock.                                     *)
LookUp(q) ==
  /\ req[q].pc = "sent" /\ req[q].op = "create" /\ kind # "copilot"
  /\ req' = [req EXCEPT ![q].pc = "read", ![q].base = row[req[q].key].status]
  /\ UNCHANGED <<kind, row, job, tight>>

Going(q, kinds) == req[q].pc = "read" /\ kind \in kinds

(* The connection is cut before the commit.                                 *)
Dies(q) == req[q].pc \in {"sent", "read"} /\ NoEffect(q, "error")

-----------------------------------------------------------------------------
(* Webhooks.  UNIQUE(organization, source, key) on observations and         *)
(* UNIQUE(organization, consumer, event) on the inbox roll back whoever is  *)
(* second.                                                                  *)

(* Only the observation and the audit row of a refused delivery are kept.   *)
RefuseDelivery(q) ==
  /\ Going(q, {"webhook"}) /\ ~req[q].signed
  /\ LET k == req[q].key IN
       CASE req[q].base # "none" -> NoEffect(q, "hmac_failed")
         [] req[q].base = "none" /\ row[k].status # "none" -> NoEffect(q, "error")
         [] OTHER -> /\ row' = [row EXCEPT ![k].status = "unsigned"]
                     /\ UNCHANGED job
                     /\ Answered(q, "hmac_failed")

(* apply_ci_observation or apply_release_observation runs in the same       *)
(* transaction; a body it cannot take undoes all of it.  A build that has   *)
(* ended resumes its run behind the answer.  A definition called ...Mutant  *)
(* is a slip of the definition after it.                                    *)
Apply(q) ==
  \/ NoEffect(q, "invalid")
  \/ LET k == req[q].key IN
       /\ row' = [row EXCEPT ![k].status = "signed", ![k].made = @ + 1]
       /\ \E resumes \in BOOLEAN : job' = [job EXCEPT ![k] = IF resumes THEN "queued" ELSE @]
       /\ Answered(q, "accepted")

AcceptDeliveryMutant(q) ==                   \* any observation makes a duplicate
  /\ Going(q, {"webhook"}) /\ req[q].signed
  /\ IF req[q].base # "none" THEN NoEffect(q, "duplicate") ELSE Apply(q)

AcceptDelivery(q) ==
  /\ Going(q, {"webhook"}) /\ req[q].signed
  /\ LET k == req[q].key IN
       CASE req[q].base = "signed" -> NoEffect(q, "duplicate")
         [] req[q].base = "unsigned" /\ row[k].status = "unsigned" -> Apply(q)
         [] req[q].base = "none" /\ row[k].status = "none" -> Apply(q)
         [] OTHER -> NoEffect(q, "error")

(* resume_ci_run_after_observation: the executor of ExternalCi.             *)
Resume(k) ==
  /\ kind = "webhook" /\ job[k] = "queued"
  /\ job' = [job EXCEPT ![k] = "over"]
  /\ UNCHANGED <<kind, row, tight, req>>

-----------------------------------------------------------------------------
(* Receipts: a request under a known key gets the stored response, and no   *)
(* task.  The receipt is inserted with the key, the task queued after it.   *)
Replay(q) ==
  NoEffect(q, IF row[req[q].key].body = req[q].body THEN "accepted" ELSE "key_conflict")

Accept(q, kinds) ==
  /\ Going(q, kinds)
  /\ LET k == req[q].key IN
       CASE req[q].base # "none" -> Replay(q)
         [] req[q].base = "none" /\ row[k].status # "none" -> NoEffect(q, "error")
         [] OTHER -> /\ row' = [row EXCEPT ![k].status = "accepted", ![k].body = req[q].body]
                     /\ job' = [job EXCEPT ![k] = "queued"]
                     /\ Answered(q, "accepted")

Refuse(q, kinds) == Going(q, kinds) /\ req[q].base = "none" /\ NoEffect(q, "refused")

(* Restricted evidence is refused, whichever piece it is.                   *)
CreateExport(q) == Accept(q, {"export"}) \/ Refuse(q, {"export"})

(* No kill switch of A1 or of all AI is on.                                 *)
Allowed == tight = {}

(* A Restricted source and a token budget that is spent are refused too.    *)
CreateGeneration(q) ==
  \/ Allowed /\ Accept(q, {"generation"})
  \/ req[q].base # "none" /\ Accept(q, {"generation"})
  \/ Refuse(q, {"generation"})

Becomes(k, status, made, next) ==
  /\ row' = [row EXCEPT ![k].status = status, ![k].made = @ + made]
  /\ job' = [job EXCEPT ![k] = next]
  /\ UNCHANGED <<kind, tight, req>>

(* The evidence is loaded and checked again; a piece that is gone or        *)
(* Restricted, or any exception, leads to PackagingFails.                   *)
StartPackaging(k) ==
  /\ kind = "export" /\ job[k] = "queued"
  /\ Becomes(k, "running", 0, "running") \/ Becomes(k, row[k].status, 0, "failing")

(* The file is written; its artifact and the receipt are one transaction.   *)
Package(k) ==
  /\ kind = "export" /\ job[k] = "running"
  /\ Becomes(k, "succeeded", 1, "over") \/ Becomes(k, row[k].status, 0, "failing")

PackagingFailsMutant(k) ==                   \* the status is rolled back with the rest
  /\ kind = "export" /\ job[k] = "failing"
  /\ Becomes(k, row[k].status, 0, "over")

PackagingFails(k) ==
  /\ kind = "export" /\ job[k] = "failing"
  /\ Becomes(k, "failed", 0, "over")

(* read_export_content                                                      *)
Download(q) ==
  /\ req[q].pc = "sent" /\ req[q].op = "download"
  /\ LET r == row[req[q].key] IN
       NoEffect(q, IF r.status = "succeeded" /\ r.made > 0 THEN "content" ELSE "not_ready")

StartGenerating(k) ==
  /\ kind = "generation" /\ job[k] = "queued"
  /\ Becomes(k, "running", 0, "running")

(* invoke asks for the switches and the budget once more.  A source that is *)
(* gone, of no type or cannot be parsed, and one without a usable endpoint, *)
(* fail.                                                                    *)

Generate(k) ==
  /\ kind = "generation" /\ job[k] = "running"
  /\ \/ Allowed /\ \E status \in {"succeeded", "partial"} : Becomes(k, status, 1, "over")
     \/ Becomes(k, "failed", 0, "over")

(* An exception in the task, which nobody catches.                          *)
GeneratingDies(k) ==
  /\ kind = "generation" /\ job[k] \in {"queued", "running"}
  /\ Becomes(k, row[k].status, 0, "lost")

-----------------------------------------------------------------------------
(* The copilot: the switch of A6 or its module, not the one of all AI; the  *)
(* Idempotency-Key is taken and not looked at.                              *)
PostMessage(q) ==
  /\ req[q].pc = "sent" /\ kind = "copilot"
  /\ \/ "capability" \notin tight /\ Answered(q, "accepted")
          /\ row' = [row EXCEPT ![req[q].key].made = @ + 1] /\ UNCHANGED job
     \/ NoEffect(q, "refused")

-----------------------------------------------------------------------------
(* The switches of Commands, and the death of the process.                  *)
Switch ==
  /\ kind \in {"generation", "copilot"}
  /\ tight' \in SUBSET Switches
  /\ UNCHANGED <<kind, row, job, req>>

Crash ==
  /\ \E k \in Keys : job[k] \in {"queued", "running", "failing"}
  /\ job' = [k \in Keys |-> IF job[k] \in {"queued", "running", "failing"} THEN "lost" ELSE job[k]]
  /\ req' = [q \in Requests |->
       IF req[q].pc \in {"sent", "read"} THEN [req[q] EXCEPT !.pc = "done", !.answer = "error"]
       ELSE req[q]]
  /\ UNCHANGED <<kind, row, tight>>

Work(k) ==
  \/ Resume(k)
  \/ StartPackaging(k) \/ Package(k) \/ PackagingFails(k)
  \/ StartGenerating(k) \/ Generate(k)

Handle(q) ==
  \/ LookUp(q) \/ RefuseDelivery(q) \/ AcceptDelivery(q)
  \/ CreateExport(q) \/ CreateGeneration(q) \/ Download(q) \/ PostMessage(q)

Next ==
  \/ \E q \in Requests : Send(q) \/ Handle(q) \/ Dies(q)
  \/ \E k \in Keys : Work(k) \/ GeneratingDies(k)
  \/ Switch \/ Crash

Spec == Init /\ [][Next]_vars

(* The event loop runs every task that was queued.                          *)
FairSpec == Spec /\ \A k \in Keys : WF_vars(Work(k))

-----------------------------------------------------------------------------
Told(k, answers) == {q \in Requests : req[q].pc = "done" /\ req[q].key = k /\ req[q].answer \in answers}

(* What a client is told is what has been done, once.  A delivery that is   *)
(* answered 2xx was applied, one time, whatever unsigned, repeated and      *)
(* overlapping deliveries of it there were; the package that is handed out, *)
(* and the drafts, are the only ones of their receipt and made for the body *)
(* that was accepted.                                                       *)
DoneOnce ==
  \A k \in Keys :
    /\ kind # "copilot" => row[k].made \in {0, 1}
    /\ kind = "webhook" =>
         /\ row[k].made = Cardinality(Told(k, {"accepted"}))
         /\ Told(k, {"accepted", "duplicate"}) # {} => row[k].made = 1
    /\ kind = "copilot" => row[k].made = Cardinality(Told(k, {"accepted"}))
    /\ kind \in Receipted =>
         /\ row[k].made = 1 <=> row[k].status \in {"succeeded", "partial"}
         /\ Told(k, {"content"}) # {} => row[k].made = 1
         /\ \A q \in Told(k, {"accepted"}) : row[k].body = req[q].body

(* Accepted work ends, unless the process dies (or a generation meets an    *)
(* exception): then its receipt says accepted, or running, for ever.        *)
AcceptedEnds ==
  \A k \in Keys : row[k].status \in Open ~> row[k].status \in Ended \/ job[k] = "lost"

(* Disproved.  The task behind the answer runs; a message is appended once  *)
(* under its Idempotency-Key; no AI answers while a switch is on.           *)
ResumeRuns == \A k \in Keys : job[k] # "lost"
MessageOnce == kind = "copilot" => \A k \in Keys : row[k].made <= 1
SwitchStops == [][\A k \in Keys : row'[k].made > row[k].made => tight = {}]_vars
=============================================================================
