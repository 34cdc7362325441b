------------------------------ MODULE Commands ------------------------------
(***************************************************************************)
(* The write commands of the API, which share one protocol: a request      *)
(* names the version its client has seen and an Idempotency-Key; the       *)
(* handler looks its key up, reads the row, compares the version, writes   *)
(* the row with its version counted up and stores its answer under the key,*)
(* in one transaction.  Handlers differ in what they lock and when:        *)
(*   - lock first, then the key, the version and the write: one step here; *)
(*   - the key first, then lock and the rest: two steps;                   *)
(*   - no lock at all: what is written, the version included, is computed  *)
(*     from the row as it was when the request began.                      *)
(* UNIQUE(organization, command, key) rolls back whoever is second.  A     *)
(* behaviour is about one row, and about the keys that are used for other  *)
(* rows of its kind: what is compared under a key is the body, not the     *)
(* path that names the row.                                                *)
(***************************************************************************)
EXTENDS Naturals, Sequences

CONSTANTS
  Requests,   \* requests of clients
  Keys,       \* Idempotency-Keys
  Args        \* contents, kill-switch targets or users

VARIABLES
  kind,   \* what the row is
  row,    \* the row and those that hang on it
  idem,   \* command_idempotency_records
  log,    \* the commands that took effect, in order
  req     \* the requests

vars == <<kind, row, idem, log, req>>

CommandsOf == [
  plan         |-> {"plan.patch", "plan.put_case_ids", "plan.put_schedule"},
  policy       |-> {"policy.patch"},
  connector    |-> {"connector.patch", "connector.bind", "connector.channels"},
  trigger      |-> {"trigger.put"},
  token        |-> {"token.revoke"},
  baseline     |-> {"baseline.create", "baseline.deactivate"},
  organization |-> {"org.tighten", "org.siem", "org.restore"},
  project      |-> {"member.add", "member.patch_role", "member.remove"},
  route        |-> {"route.put"},
  cluster      |-> {"cluster.correct"},
  collection   |-> {"plan.create", "import.register", "connector.register", "token.issue",
                    "policy.create"}]

Kinds == DOMAIN CommandsOf
LockFirstKinds == {"plan", "policy"}
LockedKinds == LockFirstKinds \cup {"connector"}

(* Commands whose expected_version may be left out, and those without one.  *)
Optional == {"connector.bind", "baseline.create", "member.add", "member.patch_role", "member.remove"}
Unversioned == {"token.revoke", "org.restore", "cluster.correct"} \cup CommandsOf.collection

(* Commands whose body says all they are about; the others have the row in  *)
(* their path, and two the member as well.                                  *)
WholeInBody == {"baseline.create"} \cup CommandsOf.organization \cup CommandsOf.collection
MemberInPath == {"member.patch_role", "member.remove"}

Roles == {"owner", "other", "none"}

(* ver: aggregate_version; rev: policy_version, config_version or which     *)
(* baseline is the active one; flag: a connector's outbound_write_enabled,  *)
(* an unrevoked token, a route's credential; tight: capability_controls, or *)
(* the correction_history of a failure cluster, which has no version: its   *)
(* ver only counts; roles: project_members.                                 *)
Rows == [there : BOOLEAN, ver : Nat, rev : Nat, flag : BOOLEAN, tight : SUBSET Args,
         roles : [Args -> Roles]]

(* seen: expected_version, 0 when it is left out; view: how many commands   *)
(* had taken effect when the client read the row; base: the row as the      *)
(* request found it.                                                        *)
NoRow == "none"
NotSent == [pc |-> "new", cmd |-> "none", key |-> "none", arg |-> "none", role |-> "none",
            seen |-> 0, view |-> 0, base |-> NoRow, answer |-> "none"]
Answers == {"ok", "replayed", "key_conflict", "version", "refused", "error"}

Commands == UNION {CommandsOf[k] : k \in Kinds}

TypeOK ==
  /\ kind \in Kinds
  /\ row \in Rows
  /\ \A r \in idem : r.cmd \in CommandsOf[kind] /\ r.key \in Keys
  /\ \A i \in DOMAIN log : log[i].by \in Requests /\ log[i].cmd \in CommandsOf[kind]
  /\ \A q \in Requests :
       /\ req[q].pc \in {"new", "elsewhere", "sent", "read", "done"}
       /\ req[q].pc = "read" => req[q].base \in Rows
       /\ req[q].pc = "done" => req[q].answer \in Answers

Init ==
  /\ kind \in Kinds
  /\ \E roles \in [Args -> Roles] :
       /\ \E u \in Args : roles[u] = "owner"
       /\ row = [there |-> kind # "trigger", ver |-> IF kind = "trigger" THEN 0 ELSE 1, rev |-> 1,
                 flag |-> TRUE, tight |-> {},
                 roles |-> IF kind = "project" THEN roles ELSE [u \in Args |-> "none"]]
  /\ idem = {} /\ log = <<>>
  /\ req = [q \in Requests |-> NotSent]

-----------------------------------------------------------------------------
(* Clients                                                                  *)

Versions(cmd) ==
  IF cmd \in Unversioned THEN {0}
  ELSE {IF row.there THEN row.ver ELSE 1} \cup (IF cmd \in Optional THEN {0} ELSE {})

RoleAsked(cmd) == IF cmd \in {"member.add", "member.patch_role"} THEN {"owner", "other"} ELSE {"none"}

(* hash_request_body: the body, and nothing of the path                     *)
Body(r) == <<IF r.cmd \in MemberInPath THEN "path" ELSE r.arg, r.role, r.seen>>

(* What is stored under a key, UNIQUE(organization, command, key)           *)
Record(r) == [cmd |-> r.cmd, key |-> r.key, body |-> Body(r)]

(* get_idempotency_record                                                   *)
Prior(r) == {p \in idem : p.cmd = r.cmd /\ p.key = r.key}

Asked ==
  UNION {{[pc |-> "sent", cmd |-> cmd, key |-> key, arg |-> arg, role |-> role, seen |-> seen,
           view |-> Len(log), base |-> NoRow, answer |-> "none"] :
             key \in Keys, arg \in Args, role \in RoleAsked(cmd), seen \in Versions(cmd)} :
         cmd \in CommandsOf[kind]}

Send(q) ==
  /\ req[q].pc = "new"
  /\ \E r \in Asked : req' = [req EXCEPT ![q] = r]
  /\ UNCHANGED <<kind, row, idem, log>>

(* A request about another row of the kind takes effect there: only its key *)
(* and its body are seen here.                                              *)
Elsewhere(q) ==
  /\ req[q].pc = "new"
  /\ \E r \in Asked :
       /\ r.cmd \notin WholeInBody /\ Prior(r) = {}
       /\ idem' = idem \cup {Record(r)}
  /\ req' = [req EXCEPT ![q].pc = "elsewhere"]
  /\ UNCHANGED <<kind, row, log>>

(* A client repeats a request whose answer it does not have, or lost.       *)
HasSent(r) == r.pc \in {"sent", "read", "done"}

SameRequest(a, b) ==
  /\ HasSent(a) /\ HasSent(b)
  /\ a.cmd = b.cmd /\ a.key = b.key /\ a.arg = b.arg /\ a.role = b.role /\ a.seen = b.seen

Resend(q, p) ==
  /\ req[q].pc = "new" /\ HasSent(req[p])
  /\ req' = [req EXCEPT ![q] = [req[p] EXCEPT !.pc = "sent", !.base = NoRow, !.answer = "none"]]
  /\ UNCHANGED <<kind, row, idem, log>>

-----------------------------------------------------------------------------
(* The protocol                                                             *)

Answered(q, answer) ==
  /\ req' = [req EXCEPT ![q] = [@ EXCEPT !.pc = "done", !.base = NoRow, !.answer = answer]]
  /\ UNCHANGED kind

NoEffect(q, answer) == Answered(q, answer) /\ UNCHANGED <<row, idem, log>>

(* The stored response for the same body, a conflict for another.           *)
Replay(q) ==
  LET r == req[q]
      same == \E p \in Prior(r) : p.body = Body(r)
  IN  NoEffect(q, IF same THEN "replayed" ELSE "key_conflict")

(* A definition called ...Mutant is a slip of the definition after it.      *)
(*                                                                          *)
(* The row is written, the answer stored under the key; base is the row     *)
(* that what is written was computed from.                                  *)
TakesEffectMutant(q, base, new) ==           \* the constraint does not cover the command
  LET r == req[q] IN
    /\ row' = new
    /\ idem' = idem \cup {Record(r)}
    /\ log' = Append(log, [by |-> q, cmd |-> r.cmd, key |-> r.key, arg |-> r.arg, seen |-> r.seen,
                           view |-> r.view, from |-> base.ver])
    /\ Answered(q, "ok")

TakesEffect(q, base, new) ==
  LET r == req[q] IN
    IF Prior(r) # {} THEN NoEffect(q, "error")
    ELSE /\ row' = new
         /\ idem' = idem \cup {Record(r)}
         /\ log' = Append(log, [by |-> q, cmd |-> r.cmd, key |-> r.key, arg |-> r.arg,
                                seen |-> r.seen, view |-> r.view, from |-> base.ver])
         /\ Answered(q, "ok")

Seen(q, base) == req[q].seen \in {0, base.ver}

Counted(base, new) ==
  IF kind \in {"token", "collection"} THEN new ELSE [new EXCEPT !.ver = base.ver + 1]

Decide(q, base, ok, new) ==
  CASE ~Seen(q, base) -> NoEffect(q, "version")
    [] Seen(q, base) /\ ~ok -> NoEffect(q, "refused")
    [] OTHER -> TakesEffect(q, base, Counted(base, new))

(* The row is locked, so nothing comes between the look at the key and the  *)
(* commit.                                                                  *)
LockFirstMutant(q, cmd, ok, new) ==          \* the version is compared before the key
  /\ req[q].pc = "sent" /\ req[q].cmd = cmd
  /\ IF Seen(q, row) /\ Prior(req[q]) # {} THEN Replay(q) ELSE Decide(q, row, ok, new)

LockFirst(q, cmd, ok, new) ==
  /\ req[q].pc = "sent" /\ req[q].cmd = cmd
  /\ IF Prior(req[q]) # {} THEN Replay(q) ELSE Decide(q, row, ok, new)

(* The first look of the other handlers, at the key and, without a lock, at *)
(* the row.  (Those that look at the row first see a replay in no case that *)
(* these do not.)                                                           *)
LookUp(q) ==
  /\ req[q].pc = "sent" /\ kind \notin LockFirstKinds
  /\ IF Prior(req[q]) # {} THEN Replay(q)
     ELSE /\ req' = [req EXCEPT ![q].pc = "read", ![q].base = row]
          /\ UNCHANGED <<kind, row, idem, log>>

Going(q, cmd) == req[q].pc = "read" /\ req[q].cmd = cmd

(* The process dies, or the client's connection is cut, before the commit.  *)
Dies(q) == req[q].pc \in {"sent", "read"} /\ NoEffect(q, "error")

-----------------------------------------------------------------------------
(* Handlers that lock first: test plans and gate policies                   *)

PatchPlan(q) == LockFirst(q, "plan.patch", TRUE, row)
PutCaseIds(q) == LockFirst(q, "plan.put_case_ids", TRUE, row)

(* Case ids and environment are looked up; one that is unknown is refused.  *)
PutSchedule(q) == \E known \in BOOLEAN : LockFirst(q, "plan.put_schedule", known, row)

(* policy_version counts the changes of the content; a change to blocking   *)
(* mode wants a confirmation.                                               *)
PatchPolicy(q) ==
  \E confirmed, content \in BOOLEAN :
    LockFirst(q, "policy.patch", confirmed, [row EXCEPT !.rev = IF content THEN @ + 1 ELSE @])

-----------------------------------------------------------------------------
(* Handlers that look at the key first and then lock                        *)

(* config_version is counted up.  Outbound writing can be turned off here,  *)
(* not on.                                                                  *)
PatchConnectorMutant(q) ==                   \* the version of the unlocked row
  /\ Going(q, "connector.patch")
  /\ \E outbound \in BOOLEAN :
       Decide(q, req[q].base, row.flag \/ ~outbound, [row EXCEPT !.flag = outbound, !.rev = @ + 1])

PatchConnector(q) ==
  /\ Going(q, "connector.patch")
  /\ \E outbound \in BOOLEAN :
       Decide(q, row, row.flag \/ ~outbound, [row EXCEPT !.flag = outbound, !.rev = @ + 1])

BindCredential(q) == Going(q, "connector.bind") /\ Decide(q, row, TRUE, row)

PutOutboundChannels(q) ==
  Going(q, "connector.channels") /\ Decide(q, row, TRUE, [row EXCEPT !.rev = @ + 1])

(* The first put inserts the row, as version 1, for a client that expects   *)
(* version 1; of two that insert, the database refuses the second.          *)
PutTriggerBindings(q) ==
  /\ Going(q, "trigger.put")
  /\ IF row.there
       THEN Decide(q, row, TRUE, row) \/ (~req[q].base.there /\ NoEffect(q, "error"))
       ELSE IF req[q].seen = 1 THEN TakesEffect(q, row, [row EXCEPT !.there = TRUE, !.ver = 1])
                               ELSE NoEffect(q, "version")

(* A token revoked before stays as it is.                                   *)
RevokeToken(q) == Going(q, "token.revoke") /\ Decide(q, row, TRUE, [row EXCEPT !.flag = FALSE])

(* The active baseline is locked and deactivated, the new one inserted; one *)
(* active baseline per scenario: a create that waited for another one's     *)
(* lock finds none active and is refused by the database.                   *)
CreateBaseline(q) ==
  /\ Going(q, "baseline.create")
  /\ \/ IF row.there /\ ~Seen(q, row)
          THEN NoEffect(q, "version")
          ELSE TakesEffect(q, row, [row EXCEPT !.there = TRUE, !.rev = @ + 1, !.ver = 1])
     \/ req[q].base.rev # row.rev /\ NoEffect(q, "error")

(* No lock: the baseline the request has read, be it active still or not.   *)
DeactivateBaseline(q) ==
  /\ Going(q, "baseline.deactivate")
  /\ LET base == req[q].base IN
       CASE ~Seen(q, base) -> NoEffect(q, "version")
         [] Seen(q, base) /\ base.rev = row.rev ->
              TakesEffect(q, base, [row EXCEPT !.there = FALSE, !.ver = base.ver + 1])
         [] OTHER -> TakesEffect(q, base, row)

-----------------------------------------------------------------------------
(* Handlers without a lock                                                  *)

(* tighten_capability_controls                                              *)
TightenMutant(q) ==                          \* the list is replaced
  /\ Going(q, "org.tighten")
  /\ Decide(q, req[q].base, TRUE, [row EXCEPT !.tight = {req[q].arg}])

Tighten(q) ==
  /\ Going(q, "org.tighten")
  /\ LET base == req[q].base IN
       Decide(q, base, TRUE, [row EXCEPT !.tight = base.tight \cup {req[q].arg}])

(* apply_kill_switch_restore: without a version; its key is the approval,   *)
(* which is carried out once                                                *)
RestoreControls(q) ==
  /\ Going(q, "org.restore")
  /\ LET base == req[q].base IN
       Decide(q, base, TRUE, [row EXCEPT !.tight = base.tight \ {req[q].arg}])

(* The export can only be turned off: no destination is ever found.  Its    *)
(* own column, and the version, are written.                                *)
PutSiemExport(q) ==
  /\ Going(q, "org.siem")
  /\ \E enabled \in BOOLEAN : Decide(q, req[q].base, ~enabled, row)

(* UNIQUE(project, user)                                                    *)
AddMember(q) ==
  /\ Going(q, "member.add")
  /\ LET u == req[q].arg
         base == req[q].base
     IN  IF Seen(q, base) /\ base.roles[u] = "none" /\ row.roles[u] # "none"
           THEN NoEffect(q, "error")
           ELSE Decide(q, base, base.roles[u] = "none", [row EXCEPT !.roles[u] = req[q].role])

Owners(r) == {u \in Args : r.roles[u] = "owner"}

(* is_last_owner_violation, on the owners the request has counted           *)
LastOwner(base, u, role) == role # "owner" /\ Owners(base) = {u}

(* An UPDATE of a member who is gone fails.                                 *)
PatchRole(q) ==
  /\ Going(q, "member.patch_role")
  /\ LET u == req[q].arg
         base == req[q].base
         ok == base.roles[u] # "none" /\ ~LastOwner(base, u, req[q].role)
     IN  IF Seen(q, base) /\ ok /\ row.roles[u] = "none"
           THEN NoEffect(q, "error")
           ELSE Decide(q, base, ok, [row EXCEPT !.roles[u] = req[q].role])


RemoveMember(q) ==
  /\ Going(q, "member.remove")
  /\ LET u == req[q].arg
         base == req[q].base
     IN  Decide(q, base, base.roles[u] # "none" /\ ~LastOwner(base, u, "none"),
                [row EXCEPT !.roles[u] = "none"])

(* put_model_route: the whole row; a credential can be cleared, not bound.  *)
PutModelRoute(q) ==
  /\ Going(q, "route.put")
  /\ \E bound \in BOOLEAN :
       Decide(q, req[q].base, TRUE, IF bound THEN row ELSE [row EXCEPT !.flag = FALSE])

(* correct_failure_cluster: the whole history is written back.  The value a *)
(* caller says it corrects is compared with the one the request has read.   *)
CorrectCluster(q) ==
  /\ Going(q, "cluster.correct")
  /\ \E fits \in BOOLEAN :
       LET base == req[q].base IN
         Decide(q, base, fits, [row EXCEPT !.tight = base.tight \cup {req[q].arg}])

-----------------------------------------------------------------------------
(* Handlers that insert a row of their own                                  *)

Insert(q, cmd) == Going(q, cmd) /\ Decide(q, req[q].base, TRUE, row)

CreatePlan(q) == Insert(q, "plan.create")

(* A file that cannot be parsed, or is Restricted, is refused.              *)
RegisterImport(q) ==
  \E fit \in BOOLEAN : Going(q, "import.register") /\ Decide(q, req[q].base, fit, row)

CreatePolicy(q) == Insert(q, "policy.create")

(* The token itself is in the first answer only.                            *)
IssueToken(q) == Insert(q, "token.issue")

(* UNIQUE(organization, type, name)                                         *)
CreateConnector(q) ==
  /\ Going(q, "connector.register")
  /\ IF \E i \in DOMAIN log : log[i].cmd = "connector.register" /\ log[i].arg = req[q].arg
       THEN NoEffect(q, "error") ELSE Insert(q, "connector.register")

-----------------------------------------------------------------------------
Handle(q) ==
  \/ PatchPlan(q) \/ PutCaseIds(q) \/ PutSchedule(q) \/ PatchPolicy(q)
  \/ LookUp(q)
  \/ PatchConnector(q) \/ BindCredential(q) \/ PutOutboundChannels(q)
  \/ PutTriggerBindings(q) \/ RevokeToken(q)
  \/ CreateBaseline(q) \/ DeactivateBaseline(q)
  \/ Tighten(q) \/ RestoreControls(q) \/ PutSiemExport(q)
  \/ AddMember(q) \/ PatchRole(q) \/ RemoveMember(q)
  \/ PutModelRoute(q) \/ CorrectCluster(q)
  \/ CreatePlan(q) \/ RegisterImport(q) \/ CreatePolicy(q) \/ IssueToken(q) \/ CreateConnector(q)

Next ==
  \E q \in Requests :
    \/ Send(q) \/ Elsewhere(q) \/ Handle(q) \/ Dies(q)
    \/ \E p \in Requests : Resend(q, p)

Spec == Init /\ [][Next]_vars

-----------------------------------------------------------------------------
(* A command takes effect at most once under a key, however often it is     *)
(* sent and however its handlers overlap, and a request is told "ok" exactly*)
(* if it was the one that took effect.                                      *)
OncePerKey ==
  /\ \A i, j \in DOMAIN log : log[i].cmd = log[j].cmd /\ log[i].key = log[j].key => i = j
  /\ \A q \in Requests :
       (req[q].pc = "done" /\ req[q].answer = "ok") <=> \E i \in DOMAIN log : log[i].by = q

(* On a row that every writer locks no command is lost: the version counts  *)
(* them, each is computed from what the one before it left, and a client    *)
(* that named a version had seen all those before.                          *)
LockedSerial ==
  kind \in LockedKinds =>
    /\ row.ver = 1 + Len(log)
    /\ \A i \in DOMAIN log : log[i].from = i /\ (log[i].seen # 0 => log[i].view = i - 1)

(* A request that is repeated and took effect gets the stored answer: the   *)
(* client is not told that its version is old, or its key taken.            *)
RetryAnswered ==
  \A p, q \in Requests :
    /\ p # q /\ SameRequest(req[p], req[q])
    /\ req[p].pc = "done" /\ req[q].pc = "done" /\ req[p].answer = "ok"
    => req[q].answer \notin {"ok", "version", "key_conflict"}

(* ... unless the handler takes its lock after the look at the key, and the *)
(* two overlap: then it is told that its version is old (disproved for the  *)
(* other kinds as RetryAnswered).                                           *)
RetryAnsweredLocked == kind \in LockFirstKinds => RetryAnswered

(* Without a lock on the row a version says little; there it stands for    *)
(* how many commands took effect, and no request names one.                *)
ContractAsked(r) ==
  [id |-> <<r.cmd, r.key>>, body |-> Body(r),
   seen |-> IF kind \in LockedKinds THEN r.seen ELSE 0]

ContractAnswer(r) ==
  CASE ~HasSent(r)   -> "unsent"
    [] r.pc = "done" -> IF r.answer = "version" /\ kind \notin LockedKinds
                          THEN "refused" ELSE r.answer
    [] OTHER         -> "pending"

Contract ==
  INSTANCE CommandContract
    WITH version <- IF kind \in LockedKinds THEN row.ver ELSE 1 + Len(log),
         done <- {[id |-> <<p.cmd, p.key>>, body |-> p.body] : p \in idem},
         asked <- [q \in Requests |-> ContractAsked(req[q])],
         answer <- [q \in Requests |-> ContractAnswer(req[q])],
         keyFirst <- kind \in LockFirstKinds

(* Handlers that look their key up first and write later, whatever comes   *)
(* in between, answer as if each command were one atomic step that happens *)
(* once under its key, be it on this row or another; and those that lock   *)
(* the row also as if it compared the version of the very row it changes.  *)
KeepsContract == Contract!Spec

(* Disproved: a request answered with a stored response took effect; its   *)
(* key may have been used with this body for another row, or member.       *)
ReplayedTookEffect ==
  \A q \in Requests :
    req[q].pc = "done" /\ req[q].answer = "replayed" =>
      \E i \in DOMAIN log : log[i].cmd = req[q].cmd /\ log[i].key = req[q].key
                             /\ log[i].arg = req[q].arg

(* Two commands were computed from the same state of the row.               *)
Raced == \E i, j \in DOMAIN log : i # j /\ log[i].from = log[j].from

(* A target is tight if it was tightened and not restored since.            *)
Effective ==
  {t \in Args : \E i \in DOMAIN log :
     /\ log[i].cmd = "org.tighten" /\ log[i].arg = t
     /\ \A j \in DOMAIN log : j > i => ~(log[j].cmd = "org.restore" /\ log[j].arg = t)}

(* Disproved: an accepted tighten holds until it is restored.               *)
TightenHolds == kind = "organization" => row.tight = Effective

(* Disproved: a project has an owner.                                       *)
HasOwner == kind = "project" => Owners(row) # {}

(* Disproved: the history of a cluster has every correction.                *)
HistoryComplete == kind = "cluster" => row.tight = {log[i].arg : i \in DOMAIN log}

(* All three fail by a race only: as long as no two commands were computed  *)
(* from the same row, the kill switch says what the accepted commands asked *)
(* for, the project has an owner and the history is complete.               *)
LostByRaceOnly == Raced \/ (TightenHolds /\ HasOwner /\ HistoryComplete)
=============================================================================
