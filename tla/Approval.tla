------------------------------ MODULE Approval ------------------------------
(***************************************************************************)
(* Approval requests: the preview that creates one, the decision that      *)
(* carries the action out in the same transaction, resubmission, and the   *)
(* expiry that whoever reads a late request writes.  Composed with what    *)
(* the decision acts on: release tasks (Release), environments, healed     *)
(* test cases, gate evaluations, Jira.  A behaviour is about one action    *)
(* type, for the targets of the action types are independent.              *)
(*                                                                         *)
(* A decision and a resubmission lock the request and hold the lock until  *)
(* they commit.  The queue and the card do not lock it: what they write is *)
(* computed from the row they read.                                        *)
(***************************************************************************)
EXTENDS Release, Cases, Sequences, FiniteSets

CONSTANTS
  Users,          \* members of the project, none a viewer
  NoOne,          \* no user
  MaxApprovals,   \* requests about one target, resubmissions included
  MaxEdits        \* what other requests do to the target

ASSUME ApprovalAssumption ==
  MaxApprovals \in Nat /\ MaxEdits \in Nat /\ NoOne \notin Users /\ Targets \subseteq CaseIds

VARIABLES
  kind,     \* the action type of this behaviour's requests
  owners,   \* owners and admins of the project
  appr,     \* the requests, in the order they were created
  busy,     \* who holds the lock of a request, to decide it
  stale,    \* requests that a reader read PENDING and late, and will expire
  env,      \* execution_environments
  evals,    \* gate_evaluations of a run: the waiver of each
  jira      \* issues in Jira, and issues in the evidence chain, by request

vars == <<task, jobs, ext, kind, owners, appr, busy, stale, env, case, evals, jira>>
objects == <<env, case, evals, jira>>

Kinds == {"release_push", "env_register", "heal_apply", "jira_write",
          "gate_waiver", "kill_switch_restore", "agent_tool_action"}

(* The action types whose payload create_action_preview validates, and those *)
(* whose execution looks at it                                               *)
Validated == {"heal_apply", "jira_write", "gate_waiver"}
Payloads == IF kind \in {"heal_apply", "jira_write", "kill_switch_restore"}
              THEN BOOLEAN ELSE {TRUE}

Statuses == {"PENDING", "APPROVED", "REJECTED", "EXECUTED", "EXPIRED"}

(* fit: whether the payload is one that the executor can act upon (for heal_apply, *)
(* one whose failure cluster is confident enough); tv: expected_target_version, 0  *)
(* when there is none; shown: the evaluation the card of a gate_waiver names;      *)
(* byRun: whether its target is the run rather than that evaluation; late: past    *)
(* expires_at.                                                                     *)
Requests == [init : Users, approver : Users, target : Targets, status : Statuses,
             res : {"none", "ok", "failed"}, late : BOOLEAN, fit : BOOLEAN, tv : Nat,
             shown : Nat, byRun : BOOLEAN]

TypeOK ==
  /\ ReleaseTypeOK
  /\ kind \in Kinds
  /\ owners \subseteq Users
  /\ appr \in Seq(Requests)
  /\ busy \in [DOMAIN appr -> Users \cup {NoOne}]
  /\ stale \subseteq DOMAIN appr
  /\ env \in [Targets -> {"absent", "PENDING_APPROVAL", "ACTIVE", "DISABLED"}]
  /\ CasesTypeOK
  /\ evals \in [Targets -> Seq(Nat)]
  /\ jira \in [issues : SUBSET DOMAIN appr, refs : SUBSET DOMAIN appr]

Init ==
  /\ ReleaseInit
  /\ kind \in Kinds
  /\ \E u \in Users : owners = Users \ {u}
  /\ appr = <<>> /\ busy = <<>> /\ stale = {}
  /\ env = [t \in Targets |-> "absent"]
  /\ CasesInit
  /\ evals = [t \in Targets |-> <<>>]
  /\ jira = [issues |-> {}, refs |-> {}]

-----------------------------------------------------------------------------
(* Requests                                                                 *)

(* Any owner or admin but the caller; the first of them by the database.    *)
Candidates(u) == owners \ {u}

Ask(r) ==
  /\ Len(appr) < MaxApprovals
  /\ appr' = Append(appr, r)
  /\ busy' = Append(busy, NoOne)

New(u, t, approver, fit, tv, shown, byRun) ==
  [init |-> u, approver |-> approver, target |-> t, status |-> "PENDING", res |-> "none",
   late |-> FALSE, fit |-> fit, tv |-> tv, shown |-> shown, byRun |-> byRun]

(* _validate_gate_waiver_preview: the evaluation itself, or the run's last  *)
ShownBy(t, byRun) ==
  IF kind # "gate_waiver" THEN {0}
  ELSE IF byRun THEN {Len(evals[t])} \ {0} ELSE DOMAIN evals[t]

(* _validate_heal_apply_preview: the version is optional                    *)
VersionsFor(t) ==
  IF kind # "heal_apply" THEN {0} ELSE IF case[t].status = "ACTIVE" THEN {0, case[t].ver} ELSE {}

(* The gate asks for an approval, and the caller may ask.                   *)
MayAsk(u, t) ==
  /\ kind = "env_register" => env[t] # "absent"
  /\ kind = "gate_waiver" => u \in owners

(* create_action_preview, for an object that exists                         *)
Preview(u, t) ==
  /\ MayAsk(u, t)
  /\ \E approver \in Candidates(u), fit \in Payloads, byRun \in BOOLEAN, tv \in VersionsFor(t) :
       /\ kind \in Validated => fit
       /\ kind # "gate_waiver" => ~byRun
       /\ \E shown \in ShownBy(t, byRun) : Ask(New(u, t, approver, fit, tv, shown, byRun))
  /\ UNCHANGED <<task, jobs, ext, kind, owners, stale, objects>>

MayRegister(u, t) == kind = "env_register" /\ u \in owners /\ env[t] = "absent"

(* create_env_register_approval: without a second owner or admin nobody     *)
(* could decide, and the registration is refused.                           *)
AskForEnv(u, t) == \E approver \in Candidates(u) : Ask(New(u, t, approver, TRUE, 0, 0, FALSE))

(* register_execution_environment: the environment and its request          *)
RegisterEnv(u, t) ==
  /\ MayRegister(u, t)
  /\ AskForEnv(u, t)
  /\ env' = [env EXCEPT ![t] = "PENDING_APPROVAL"]
  /\ UNCHANGED <<task, jobs, ext, kind, owners, stale, case, evals, jira>>

(* The clock passes expires_at.                                             *)
Lapse(i) ==
  /\ appr[i].status = "PENDING" /\ ~appr[i].late
  /\ appr' = [appr EXCEPT ![i].late = TRUE]
  /\ UNCHANGED <<task, jobs, ext, kind, owners, busy, stale, objects>>

Expired(r) == [r EXCEPT !.status = "EXPIRED"]
Overdue(r) == r.status = "PENDING" /\ r.late

(* A decision that comes too late, or a resubmission that is refused, holds *)
(* the lock and expires the request.                                        *)
Expire(i) ==
  /\ busy[i] = NoOne /\ Overdue(appr[i])
  /\ appr' = [appr EXCEPT ![i] = Expired(@)]
  /\ UNCHANGED <<task, jobs, ext, kind, owners, busy, stale, objects>>

(* The queue or the card reads the request, without its lock ...            *)
ReadOverdue(i) ==
  /\ Overdue(appr[i])
  /\ stale' = stale \cup {i}
  /\ UNCHANGED <<task, jobs, ext, kind, owners, appr, busy, objects>>

(* ... and expires it, once whoever holds the lock has committed.           *)
WriteExpired(i) ==
  /\ i \in stale /\ busy[i] = NoOne
  /\ stale' = stale \ {i}
  /\ appr' = [appr EXCEPT ![i] = Expired(@)]
  /\ UNCHANGED <<task, jobs, ext, kind, owners, busy, objects>>

Reopenable(r) ==
  r.status \in {"PENDING", "EXPIRED", "REJECTED"} \/ (r.status = "EXECUTED" /\ r.res = "failed")

(* resubmit_approval_request: a pending origin is withdrawn; the target, an *)
(* evaluation or a run for a gate_waiver, is the origin's; the payload is   *)
(* not validated again.                                                     *)
Resubmit(u, i) ==
  /\ busy[i] = NoOne /\ Reopenable(appr[i])
  /\ Len(appr) < MaxApprovals
  /\ LET t == appr[i].target
         closed == IF appr[i].status = "PENDING" THEN Expired(appr[i]) ELSE appr[i]
     IN  \E approver \in Candidates(u), fit \in Payloads, tv \in VersionsFor(t) \cup {appr[i].tv} :
           appr' = Append([appr EXCEPT ![i] = closed],
                          New(u, t, approver, fit, tv, appr[i].shown, appr[i].byRun))
  /\ busy' = Append(busy, NoOne)
  /\ UNCHANGED <<task, jobs, ext, kind, owners, stale, objects>>

-----------------------------------------------------------------------------
(* Decisions                                                                *)

MayDecide(u, r) ==
  u \in owners /\ r.status = "PENDING" /\ ~r.late /\ u # r.init /\ u = r.approver

(* submit_approval_decision up to its own update: the request is locked and *)
(* fit to be decided at the time the caller asked.                          *)
Lock(u, i) ==
  /\ busy[i] = NoOne /\ MayDecide(u, appr[i])
  /\ busy' = [busy EXCEPT ![i] = u]
  /\ UNCHANGED <<task, jobs, ext, kind, owners, appr, stale, objects>>

Decided(r, status, res, u) == [r EXCEPT !.status = status, !.res = res, !.approver = u]

Settle(i, status, res) ==
  /\ busy[i] # NoOne
  /\ appr' = [appr EXCEPT ![i] = Decided(@, status, res, busy[i])]
  /\ busy' = [busy EXCEPT ![i] = NoOne]
  /\ UNCHANGED <<kind, owners, stale>>

RolledBack(i) ==
  /\ busy[i] # NoOne
  /\ busy' = [busy EXCEPT ![i] = NoOne]
  /\ UNCHANGED <<kind, owners, appr, stale, case>>

Executed(i, ok) == Settle(i, "EXECUTED", IF ok THEN "ok" ELSE "failed")

(* A definition called ...Mutant is a slip of the definition after it.      *)

Reject(i) ==
  /\ Settle(i, "REJECTED", "none")
  /\ task' = IF kind = "release_push"
               THEN [task EXCEPT ![appr[i].target] = CancelFromApproval(@)] ELSE task
  /\ UNCHANGED <<jobs, ext, objects>>

ApproveRelease(i, answer) ==
  /\ kind = "release_push"
  /\ LET t == appr[i].target
         r == task[t]
     IN  IF r.status = "PENDING_CONFIRM"
           THEN /\ task' = [task EXCEPT ![t] = PrepareAfterApproval(r, answer)]
                /\ ext' = IF Calls(r) THEN [ext EXCEPT ![t] = Asked(@, answer)] ELSE ext
                /\ Executed(i, r.item # "none" \/ answer \in {"created", "stub"})
           ELSE Executed(i, FALSE) /\ UNCHANGED <<task, ext>>
  /\ UNCHANGED <<jobs, objects>>

(* activate_after_env_register raises unless the environment waits for it,  *)
(* and then the request stays APPROVED.                                     *)
Activatable(t) == env[t] = "PENDING_APPROVAL"

ApproveEnvMutant(i) ==                       \* whatever the state of the environment
  /\ kind = "env_register"
  /\ Executed(i, TRUE)
  /\ env' = [env EXCEPT ![appr[i].target] = "ACTIVE"]
  /\ UNCHANGED <<task, jobs, ext, case, evals, jira>>

ApproveEnv(i) ==
  /\ kind = "env_register"
  /\ LET t == appr[i].target
     IN  IF Activatable(t)
           THEN Executed(i, TRUE) /\ env' = [env EXCEPT ![t] = "ACTIVE"]
           ELSE Settle(i, "APPROVED", "none") /\ UNCHANGED env
  /\ UNCHANGED <<task, jobs, ext, case, evals, jira>>

(* apply_heal_after_approval.  A version_seq that is taken is an error of the *)
(* database: the decision fails and is rolled back.                         *)
ApproveHealMutant(i) ==                      \* the expected version is not compared
  /\ kind = "heal_apply"
  /\ LET t == appr[i].target
         healable == case[t].status = "ACTIVE"
     IN  \/ ~healable /\ Executed(i, FALSE) /\ UNCHANGED case
         \/ healable /\ Collides(case[t]) /\ RolledBack(i)
         \/ /\ healable /\ ~Collides(case[t]) /\ Executed(i, TRUE)
            /\ case' = [case EXCEPT ![t] = Healed(@)]
  /\ UNCHANGED <<task, jobs, ext, env, evals, jira>>

ApproveHeal(i) ==
  /\ kind = "heal_apply"
  /\ LET t == appr[i].target
         healable == Healable(case[t], appr[i].tv)
     IN  \/ ~healable /\ Executed(i, FALSE) /\ UNCHANGED case
         \/ healable /\ Collides(case[t]) /\ RolledBack(i)
         \/ /\ healable /\ ~Collides(case[t]) /\ Executed(i, TRUE)
            /\ case' = [case EXCEPT ![t] = Healed(@)]
  /\ UNCHANGED <<task, jobs, ext, env, evals, jira>>

(* execute_jira_write_after_approval: no connector, or evidence that may    *)
(* not leave, and nothing is asked; else up to three attempts under one     *)
(* external_request_id.  An issue whose answer was lost every time is a     *)
(* failure for the platform; without a loopback address the stub makes up   *)
(* the key of an issue that is not there.                                   *)
Attempted(i, answer) ==
  IF answer \in {"created", "lost"} THEN jira.issues \cup {i} ELSE jira.issues
Linked(i, answer) == IF answer \in {"created", "stub"} THEN jira.refs \cup {i} ELSE jira.refs

ApproveJira(i, answer) ==
  /\ kind = "jira_write"
  /\ IF appr[i].fit
       THEN /\ Executed(i, answer \in {"created", "stub"})
            /\ jira' = [issues |-> Attempted(i, answer), refs |-> Linked(i, answer)]
       ELSE Executed(i, FALSE) /\ UNCHANGED jira
  /\ UNCHANGED <<task, jobs, ext, env, case, evals>>

(* gate_waiver: the evaluation the request names, or the last one of the    *)
(* run it names at the time of the decision; attach_waiver fails when that  *)
(* evaluation has a waiver.                                                 *)
WaiverOf(i) == IF appr[i].byRun THEN Len(evals[appr[i].target]) ELSE appr[i].shown

Waivable(t, e) == e # 0 /\ evals[t][e] = 0

ApproveWaiver(i) ==
  /\ kind = "gate_waiver"
  /\ LET t == appr[i].target
         e == WaiverOf(i)
     IN  IF Waivable(t, e)
           THEN Executed(i, TRUE) /\ evals' = [evals EXCEPT ![t][e] = i]
           ELSE Executed(i, FALSE) /\ UNCHANGED evals
  /\ UNCHANGED <<task, jobs, ext, env, case, jira>>

(* kill_switch_restore of a target that is not well formed, and every       *)
(* agent_tool_action, stay APPROVED.                                        *)
ApproveOther(i) ==
  /\ kind \in {"kill_switch_restore", "agent_tool_action"}
  /\ IF kind = "kill_switch_restore" /\ appr[i].fit
       THEN Executed(i, TRUE) ELSE Settle(i, "APPROVED", "none")
  /\ UNCHANGED <<task, jobs, ext, objects>>

(* The process dies before the decision commits: what was asked of another  *)
(* system stays, the rest is rolled back.                                   *)
DecisionDies(i) ==
  /\ busy[i] # NoOne
  /\ busy' = [busy EXCEPT ![i] = NoOne]
  /\ LET t == appr[i].target
     IN  \/ UNCHANGED <<ext, jira>>
         \/ /\ kind = "release_push" /\ task[t].status = "PENDING_CONFIRM" /\ Calls(task[t])
            /\ ext' = [ext EXCEPT ![t] = Asked(@, "lost")]
            /\ UNCHANGED jira
         \/ /\ kind = "jira_write" /\ appr[i].fit
            /\ jira' = [jira EXCEPT !.issues = @ \cup {i}]
            /\ UNCHANGED ext
  /\ jobs' = {}
  /\ UNCHANGED <<task, kind, owners, appr, stale, env, case, evals>>

Decide(i) ==
  \/ \E u \in Users : Lock(u, i)
  \/ Reject(i)
  \/ \E answer \in Answers : ApproveRelease(i, answer) \/ ApproveJira(i, answer)
  \/ ApproveEnv(i) \/ ApproveHeal(i) \/ ApproveWaiver(i) \/ ApproveOther(i)
  \/ DecisionDies(i)

-----------------------------------------------------------------------------
(* What others do to the targets                                            *)

DisableEnv(t) ==
  /\ env[t] = "ACTIVE" /\ env' = [env EXCEPT ![t] = "DISABLED"]
  /\ UNCHANGED <<task, jobs, ext, kind, owners, appr, busy, stale, case, evals, jira>>

(* The run is evaluated, again if need be.                                  *)
Evaluate(t) ==
  /\ kind = "gate_waiver" /\ Len(evals[t]) < MaxEdits
  /\ evals' = [evals EXCEPT ![t] = Append(@, 0)]
  /\ UNCHANGED <<task, jobs, ext, kind, owners, appr, busy, stale, env, case, jira>>

(* An owner or admin becomes a tester; an owner is always left.             *)
Demote(u) ==
  /\ u \in owners /\ owners # {u}
  /\ owners' = owners \ {u}
  /\ UNCHANGED <<task, jobs, ext, kind, appr, busy, stale, objects>>

Next ==
  \/ \E u \in Users, t \in Targets : Preview(u, t) \/ RegisterEnv(u, t)
  \/ \E i \in DOMAIN appr :
       \/ Lapse(i) \/ Expire(i) \/ ReadOverdue(i) \/ WriteExpired(i)
       \/ Decide(i)
       \/ \E u \in Users : Resubmit(u, i)
  \/ \E t \in Targets : DisableEnv(t) \/ Evaluate(t)
  \/ \E u \in Users : Demote(u)
  \/ /\ kind = "release_push" /\ ReleaseNext
     /\ UNCHANGED <<kind, owners, appr, busy, stale, objects>>
  \/ /\ kind = "heal_apply" /\ CasesNext
     /\ UNCHANGED <<task, jobs, ext, kind, owners, appr, busy, stale, env, evals, jira>>

Spec == Init /\ [][Next]_vars

-----------------------------------------------------------------------------
Granted(t) == {i \in DOMAIN appr : appr[i].target = t /\ appr[i].res = "ok"}
Carried(t) == {i \in DOMAIN appr : appr[i].target = t /\ appr[i].res # "none"}

(* What was done to an object is what the requests that were executed with  *)
(* success say, one for one, and each of them was approved by another than  *)
(* its initiator: an environment was activated by one request, a case has   *)
(* as many healed versions as requests, none of two for the same version,   *)
(* an evaluation is waived by the request that names it as its waiver, an   *)
(* issue is in the evidence chain for each jira_write, and a release task   *)
(* left PENDING_CONFIRM for the release system by a request.  A request     *)
(* left APPROVED has nothing to activate any more.                          *)
EffectsAnswered ==
  \A t \in Targets :
    /\ \A i \in Carried(t) : appr[i].init # appr[i].approver
    /\ kind = "env_register" =>
         /\ env[t] \in {"ACTIVE", "DISABLED"} <=> Granted(t) # {}
         /\ \A i \in DOMAIN appr : appr[i].target = t /\ appr[i].status = "APPROVED"
                                     => env[t] # "PENDING_APPROVAL"
    /\ kind = "heal_apply" =>
         /\ case[t].heals = Cardinality(Granted(t))
         /\ \A i, j \in Granted(t) : i # j => appr[i].tv # appr[j].tv
    /\ kind = "gate_waiver" =>
         \A i \in DOMAIN appr : appr[i].target = t =>
           Cardinality({e \in DOMAIN evals[t] : evals[t][e] = i}) = IF i \in Granted(t) THEN 1 ELSE 0
    /\ kind = "jira_write" => Granted(t) = {i \in jira.refs : appr[i].target = t}
    /\ kind = "release_push" =>
         /\ task[t].status \in {"SUBMITTED", "FAILED_RETRYABLE", "READY"} => Carried(t) # {}
         /\ task[t].item # "none" => Carried(t) # {}

(* At most one request about an environment, or about a release task, is    *)
(* ever executed with success, however often it was resubmitted and whoever *)
(* else asked for the same.                                                 *)
OneGrant ==
  kind \in {"env_register", "release_push"} =>
    \A t \in Targets : Cardinality(Granted(t)) <= 1

(* Retries, replays, crashes and lost answers make up no item and lose none:*)
(* an item noted from a connector's answer is in the release system (only   *)
(* the stub notes one that is not); a task said to have failed has none, so *)
(* that a retry never asks for what is there; and a SUBMITTED or READY task *)
(* has its item, unless it was retried: that is the only preparation an     *)
(* observation can overtake, or a crash lose.                               *)
NoPhantomRelease ==
  \A t \in Targets :
    /\ task[t].item = "created" => ext[t].exists
    /\ task[t].status = "FAILED_RETRYABLE" => task[t].item = "none"
    /\ task[t].status \in {"SUBMITTED", "READY"} => task[t].item # "none" \/ task[t].retries > 0

(* A task that is READY or CANCELLED stays so: neither a job that was queued*)
(* before, nor a replayed request, nor an approval, nor a late READY moves it.*)
ReleaseAbsorbs ==
  [][\A t \in Targets : task[t].status \in {"READY", "CANCELLED"}
                          => task'[t].status = task[t].status]_vars

(* Disproved: a request that was decided stays so.                          *)
DecisionStands ==
  [][\A i \in DOMAIN appr : appr[i].status \in {"EXECUTED", "REJECTED", "APPROVED"}
                              => appr'[i].status = appr[i].status]_vars

(* Disproved: the waiver is attached to the evaluation the card showed.     *)
WaiverAsShown ==
  \A t \in Targets : \A e \in DOMAIN evals[t] :
    evals[t][e] # 0 => appr[evals[t][e]].shown = e

(* Disproved: a jira_write said to have failed has created no issue.        *)
FailedMeansNone == \A i \in DOMAIN appr : appr[i].res = "failed" => i \notin jira.issues

(* Disproved: a case is healed only for a cluster that is confident enough. *)
HealedWithConfidence ==
  kind = "heal_apply" => \A t \in Targets : \A i \in Granted(t) : appr[i].fit

(* Disproved: a heal that is decided on the version it was asked for can be *)
(* carried out.                                                             *)
HealsNeverCollide ==
  \A i \in DOMAIN appr :
    kind = "heal_apply" /\ busy[i] # NoOne /\ Healable(case[appr[i].target], appr[i].tv)
      => ~Collides(case[appr[i].target])

(* Disproved: each READY of a cancelled task is recorded in its divergence. *)
LateReadyKept == \A t \in Targets : task[t].late = task[t].missed

(* Disproved (prd.md:621): a READY task has its item ...                    *)
ReadyHasItem == \A t \in Targets : task[t].status = "READY" => task[t].item # "none"

(* ... and the release system has one.                                      *)
ReadyIsReleased == \A t \in Targets : task[t].status = "READY" => ext[t].exists

(* Disproved (command_port.py:64): no item was created for a task whose     *)
(* request was rejected.                                                    *)
RejectedCreatesNone ==
  kind = "release_push" =>
    \A i \in DOMAIN appr :
      appr[i].status = "REJECTED" /\ Carried(appr[i].target) = {} => ~ext[appr[i].target].exists
=============================================================================
