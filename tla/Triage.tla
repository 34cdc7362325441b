------------------------------- MODULE Triage -------------------------------
(***************************************************************************)
(* The failure report of a run that has ended: schedule_failure_triage,    *)
(* the clusters of A2, the locator suggestions of A3, and the report a     *)
(* reader gets.  Two tasks may triage one run of an external CI (the       *)
(* executor behind its verdict and the collector behind a cancel), and     *)
(* failing results may still be stored after the run has ended.  The       *)
(* replies of the models are whatever they like to say.                    *)
(***************************************************************************)
EXTENDS Naturals, FiniteSets

CONSTANTS
  Cases,     \* case results that may fail
  Alien,     \* an id that is no case result of this run
  Tasks,     \* tasks that triage the run
  Groups,    \* what _group_key tells apart
  Stale,     \* the groups of category locator_stale
  Replies,   \* structured outputs of A2
  Locators,
  Current,   \* locator_health of the case: locator -> is_primary
  Heals      \* failing locator and candidate of a call of A3

Ids == Cases \cup {Alien}
NoCandidate == "none"

ASSUME ConstantsType ==
  /\ Alien \notin Cases
  /\ Stale \subseteq Groups
  /\ \A reply \in Replies : reply = [ok |-> FALSE]
       \/ /\ DOMAIN reply = {"ok", "drafts", "rest"} /\ reply.ok
          /\ reply.drafts \subseteq
               [refs : SUBSET Ids, evidence : SUBSET Ids, stale : BOOLEAN]
          /\ reply.rest \subseteq Ids
  /\ DOMAIN Current \subseteq Locators
  /\ Current \in [DOMAIN Current -> BOOLEAN] /\ \E l \in DOMAIN Current : Current[l]
  /\ Heals \subseteq [failing : Locators, candidate : Locators \cup {NoCandidate}]

VARIABLES
  failed,    \* stored failing results, with their group
  status,    \* result_summary["clustering"]["generation_status"]
  rest,      \* result_summary["clustering"]["unclustered_refs"]
  cluster,   \* rows of failure_clusters
  evidence,  \* case results with an evidence object
  pc,        \* per task
  view       \* per task, the failing results it has read

vars == <<failed, status, rest, cluster, evidence, pc, view>>

Settled == {"ready", "degraded"}
NoFix == <<>>
Nothing == <<>>

(* by: the task that inserted the row; rule: confidence 0.3, made without    *)
(* the model; fix: the locators A3 suggests.                                 *)
TypeOK ==
  /\ DOMAIN failed \subseteq Cases /\ \A c \in DOMAIN failed : failed[c] \in Groups
  /\ status \in {"none", "pending"} \cup Settled
  /\ rest \subseteq Ids /\ evidence \subseteq Cases
  /\ \A row \in cluster :
       /\ row.by \in Tasks /\ row.rule \in BOOLEAN
       /\ row.refs \subseteq Cases /\ row.evidence \subseteq Cases
       /\ \A l \in DOMAIN row.fix : l \in Locators /\ row.fix[l] \in BOOLEAN
  /\ pc \in [Tasks -> {"verdict", "start", "settle", "mark", "read", "write", "done", "dead"}]
  /\ DOMAIN view = Tasks /\ \A t \in Tasks : DOMAIN view[t] \subseteq DOMAIN failed

(* A task of an external CI run has still to store the verdict; a script    *)
(* run has stored it.                                                        *)
Init ==
  /\ \E stored \in SUBSET Cases : failed \in [stored -> Groups]
  /\ status = "none" /\ rest = {}
  /\ cluster = {} /\ evidence = {}
  /\ pc \in [Tasks -> {"verdict", "start"}] /\ view = [t \in Tasks |-> Nothing]

Goto(t, there) == pc' = [pc EXCEPT ![t] = there]

(* A worker or a collection stores a failing result of the ended run.       *)
Fail(c) ==
  /\ c \notin DOMAIN failed
  /\ \E g \in Groups :
       failed' = [d \in DOMAIN failed \cup {c} |-> IF d = c THEN g ELSE failed[d]]
  /\ UNCHANGED <<status, rest, cluster, evidence, pc, view>>

-----------------------------------------------------------------------------
(* _finalize_terminal: the verdict, written over a summary read before the   *)
(* reports were collected, makes the report pending.                         *)
Finalize(t) ==
  /\ pc[t] = "verdict"
  /\ status' = "pending" /\ rest' = {}
  /\ Goto(t, "start")
  /\ UNCHANGED <<failed, cluster, evidence, view>>

(* prepare_failure_triage reads without a lock; the merge into the summary   *)
(* takes the lock of the run's row and looks at nothing.                     *)
PrepareMutant(t) ==                             \* nothing failed, nothing to do
  /\ pc[t] = "start"
  /\ Goto(t, IF status \in Settled \/ failed = Nothing \/ cluster # {} THEN "done" ELSE "mark")
  /\ UNCHANGED <<failed, status, rest, cluster, evidence, view>>

Prepare(t) ==
  /\ pc[t] = "start"
  /\ Goto(t, IF status \in Settled THEN "done"
             ELSE IF failed = Nothing THEN "settle"
             ELSE IF cluster # {} THEN "done" ELSE "mark")
  /\ UNCHANGED <<failed, status, rest, cluster, evidence, view>>

Settle(t) ==
  /\ pc[t] = "settle"
  /\ status' = "ready" /\ rest' = {}
  /\ Goto(t, "done")
  /\ UNCHANGED <<failed, cluster, evidence, view>>

Mark(t) ==
  /\ pc[t] = "mark"
  /\ status' = "pending" /\ rest' = {}
  /\ Goto(t, "read")
  /\ UNCHANGED <<failed, cluster, evidence, view>>

-----------------------------------------------------------------------------
(* _validate_ai_clusters: the whole output is refused for one draft that     *)
(* names a failure or cites evidence the run does not have.  The list of the *)
(* unclustered is not looked at.                                             *)
ValidMutant(reply, seen) ==                     \* the evidence is not checked
  reply.ok /\ \A d \in reply.drafts : d.refs \subseteq DOMAIN seen

Valid(reply, seen) ==
  reply.ok /\ \A d \in reply.drafts : d.refs \cup d.evidence \subseteq DOMAIN seen

(* rule_cluster_failed_cases: one draft per group of _group_key.             *)
RuleDraftsMutant(seen) ==                       \* without the fallback category
  {[refs |-> {c \in DOMAIN seen : seen[c] = g}, evidence |-> {}, stale |-> g \in Stale] :
     g \in {seen[c] : c \in DOMAIN seen} \cap Stale}

RuleDrafts(seen) ==
  {[refs |-> {c \in DOMAIN seen : seen[c] = g}, evidence |-> {}, stale |-> g \in Stale] :
     g \in {seen[c] : c \in DOMAIN seen}}

(* _build_locator_health_patch: the failing locator is demoted, then the     *)
(* candidate made primary.                                                   *)
PatchedMutant(failing, candidate) ==            \* demoted last
  [l \in DOMAIN Current \cup {candidate} |-> l # failing /\ (l = candidate \/ Current[l])]

Patched(failing, candidate) ==
  [l \in DOMAIN Current \cup {candidate} |-> l = candidate \/ (l # failing /\ Current[l])]

(* _fixes_from_a3_output: without a candidate of confidence 0.7 the locators *)
(* are suggested as they are.                                                *)
Fix(draft, heal) ==
  IF ~draft.stale \/ draft.refs = {} THEN NoFix
  ELSE IF heal.candidate = NoCandidate THEN Current
  ELSE Patched(heal.failing, heal.candidate)

(* Every cluster cites the evidence of its failures besides its own.         *)
Row(t, draft, heal, rule) ==
  [by |-> t, refs |-> draft.refs, evidence |-> draft.evidence \cup draft.refs,
   rule |-> rule, fix |-> Fix(draft, heal)]

Insert(t, drafts, rule) ==
  \E heal \in [{d \in drafts : d.stale} -> Heals] :
    cluster' = cluster \cup
      {Row(t, d, IF d.stale THEN heal[d] ELSE Nothing, rule) : d \in drafts}

(* run_failure_triage_background, one transaction: what it reads, and what   *)
(* it commits behind the calls of the models.                                *)
Read(t) ==
  /\ pc[t] = "read"
  /\ \/ /\ status \in Settled \/ cluster # {}
        /\ Goto(t, "done") /\ UNCHANGED view
     \/ /\ status \notin Settled /\ cluster = {}
        /\ Goto(t, "write") /\ view' = [view EXCEPT ![t] = failed]
  /\ UNCHANGED <<failed, status, rest, cluster, evidence>>

(* The second call is made when the first gave nothing of use.               *)
Generate(t) ==
  /\ pc[t] = "write"
  /\ \E reply \in Replies :
       /\ Valid(reply, view[t])
       /\ Insert(t, reply.drafts, FALSE)
       /\ status' = "ready" /\ rest' = reply.rest
  /\ evidence' = evidence \cup DOMAIN view[t]
  /\ Goto(t, "done")
  /\ UNCHANGED <<failed, view>>

FallBack(t) ==
  /\ pc[t] = "write"
  /\ \E reply \in Replies : ~Valid(reply, view[t])
  /\ Insert(t, RuleDrafts(view[t]), TRUE)
  /\ status' = "degraded" /\ rest' = {}
  /\ evidence' = evidence \cup DOMAIN view[t]
  /\ Goto(t, "done")
  /\ UNCHANGED <<failed, view>>

(* The process dies, or the database raises: the transaction is undone.      *)
Dies(t) ==
  /\ pc[t] \notin {"done", "dead"}
  /\ Goto(t, "dead")
  /\ UNCHANGED <<failed, status, rest, cluster, evidence, view>>

Next ==
  \/ \E c \in Cases : Fail(c)
  \/ \E t \in Tasks : \/ Finalize(t) \/ Prepare(t) \/ Settle(t) \/ Mark(t) \/ Read(t)
                      \/ Generate(t) \/ FallBack(t) \/ Dies(t)

Spec == Init /\ [][Next]_vars

-----------------------------------------------------------------------------
(* list_failure_clusters: the unclustered of a page of the report.  A list   *)
(* the model gave is shown as it is; otherwise what no cluster of the page   *)
(* names is left over.                                                       *)
Named(rows) == UNION {row.refs : row \in rows}

Unclustered(page) ==
  IF status = "pending" \/ rest # {} THEN rest ELSE DOMAIN failed \ Named(page)

(* Whatever the models answer and two tasks store, a cluster names failing   *)
(* results of the run, cites only evidence that exists, and cites the        *)
(* evidence of each failure it names (_validate_ai_clusters and              *)
(* _merge_cluster_evidence_refs).                                            *)
Grounded ==
  \A row \in cluster :
    /\ row.refs \subseteq DOMAIN failed
    /\ row.refs \subseteq row.evidence /\ row.evidence \subseteq evidence

(* A suggestion of A3 never drops a locator, and a case that takes it still  *)
(* has a primary locator, also when the candidate is the one that failed.    *)
HealKeepsPrimary ==
  \A row \in cluster : row.fix # NoFix =>
    DOMAIN Current \subseteq DOMAIN row.fix /\ \E l \in DOMAIN row.fix : row.fix[l]

(* A degraded report hides no failure: the clusters of the rules put every   *)
(* failure their task has read into exactly one of them, and every page      *)
(* shows the failures it does not name as unclustered, those stored after    *)
(* the triage too.                                                           *)
DegradedReport ==
  /\ \A t \in Tasks :
       LET made == {row \in cluster : row.by = t /\ row.rule}
       IN  made # {} => \A c \in DOMAIN view[t] :
             Cardinality({row \in made : c \in row.refs}) = 1
  /\ status = "degraded" =>
       \A page \in SUBSET cluster : DOMAIN failed \subseteq Named(page) \cup Unclustered(page)

(* When nobody works on the report any more it is pending only because a     *)
(* task died, or because a task that had read the run before another one     *)
(* finished made the finished report pending again and then left it alone.   *)
StuckOnlyByRace ==
  (status = "pending" /\ \A t \in Tasks : pc[t] \in {"done", "dead"}) =>
    cluster # {} \/ \E t \in Tasks : pc[t] = "dead"

(* Disproved: without a death every report is settled in the end.            *)
ReportSettles ==
  (\A t \in Tasks : pc[t] = "done") => status \in Settled

(* Disproved: a list of the unclustered that a model gave is taken for whole,*)
(* and failures that it and the clusters leave out are shown nowhere.        *)
NothingHidden ==
  status \in Settled => DOMAIN failed \subseteq Named(cluster) \cup Unclustered(cluster)
=============================================================================
