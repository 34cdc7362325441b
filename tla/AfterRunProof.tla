--------------------------- MODULE AfterRunProof ---------------------------
(***************************************************************************)
(* Proofs about what happens to a run that has ended: first Triage, for    *)
(* every number of tasks and results and whatever the models answer, then  *)
(* Gate, for every number of evaluators and readers, every policy and      *)
(* every report.                                                           *)
(***************************************************************************)
EXTENDS Triage, Gate, FiniteSetTheorems, TLAPS

Working == {"start", "settle", "mark", "read", "write"}

(* A task that has not ended has stored no cluster, and a degraded report  *)
(* comes without a list.                                                   *)
StoresLast ==
  /\ \A t \in Tasks : pc[t] \notin {"done", "dead"} => \A row \in cluster : row.by # t
  /\ status = "degraded" => rest = {}

(* Somebody is at work on a report that is pending and has no cluster,     *)
(* unless he died.                                                         *)
PendingWatched ==
  status = "pending" /\ cluster = {} /\ (\A t \in Tasks : pc[t] # "dead")
    => \E t \in Tasks : pc[t] \in Working

-----------------------------------------------------------------------------
(* Whatever A3 proposes, a suggestion holds every locator of the case and  *)
(* has a primary one.                                                      *)
LEMMA FixSound ==
  ASSUME NEW draft, NEW heal, draft.stale => heal \in Heals
  PROVE  /\ \A l \in DOMAIN Fix(draft, heal) :
              l \in Locators /\ Fix(draft, heal)[l] \in BOOLEAN
         /\ Fix(draft, heal) # NoFix =>
              /\ DOMAIN Current \subseteq DOMAIN Fix(draft, heal)
              /\ \E l \in DOMAIN Fix(draft, heal) : Fix(draft, heal)[l]
<1>1. CASE Fix(draft, heal) = NoFix
  <2>1. DOMAIN NoFix = {}
    BY DEF NoFix
  <2> QED
    BY <1>1, <2>1
<1>2. CASE Fix(draft, heal) = Current
  BY <1>2, ConstantsType
<1>3. CASE /\ heal.failing \in Locators /\ heal.candidate \in Locators
           /\ Fix(draft, heal) = Patched(heal.failing, heal.candidate)
  <2>1. Patched(heal.failing, heal.candidate)[heal.candidate]
    BY DEF Patched
  <2>2. DOMAIN Patched(heal.failing, heal.candidate) = DOMAIN Current \cup {heal.candidate}
    BY DEF Patched
  <2>3. \A l \in DOMAIN Patched(heal.failing, heal.candidate) :
          Patched(heal.failing, heal.candidate)[l] \in BOOLEAN
    BY DEF Patched
  <2> QED
    BY <1>3, <2>1, <2>2, <2>3, ConstantsType
<1>4. \/ Fix(draft, heal) \in {NoFix, Current}
      \/ /\ heal.failing \in Locators /\ heal.candidate \in Locators
         /\ Fix(draft, heal) = Patched(heal.failing, heal.candidate)
  <2>1. CASE ~draft.stale \/ draft.refs = {} \/ heal.candidate = NoCandidate
    BY <2>1 DEF Fix
  <2>2. CASE draft.stale /\ draft.refs # {} /\ heal.candidate # NoCandidate
    BY <2>2, ConstantsType DEF Fix
  <2> QED
    BY <2>1, <2>2
<1> QED
  BY <1>1, <1>2, <1>3, <1>4

(* A row as a task enters it for one of its drafts.                        *)
Entered(row, t, drafts, rule) ==
  /\ row.by = t /\ row.rule = rule
  /\ \E d \in drafts : row.refs = d.refs /\ row.evidence = d.evidence \cup d.refs
  /\ \A l \in DOMAIN row.fix : l \in Locators /\ row.fix[l] \in BOOLEAN
  /\ row.fix # NoFix =>
       DOMAIN Current \subseteq DOMAIN row.fix /\ \E l \in DOMAIN row.fix : row.fix[l]

(* What a task inserts: for each draft a row, with the evidence of its     *)
(* failures and a sound suggestion.                                        *)
LEMMA Inserted ==
  ASSUME NEW t \in Tasks, NEW drafts, NEW rule \in BOOLEAN, Insert(t, drafts, rule)
  PROVE  \E new :
           /\ cluster' = cluster \cup new
           /\ \A row \in new : Entered(row, t, drafts, rule)
<1>1. PICK heal \in [{d \in drafts : d.stale} -> Heals] :
        cluster' = cluster \cup
          {Row(t, d, IF d.stale THEN heal[d] ELSE Nothing, rule) : d \in drafts}
  BY DEF Insert
<1> DEFINE H(d) == IF d.stale THEN heal[d] ELSE Nothing
           new == {Row(t, d, H(d), rule) : d \in drafts}
<1>2. ASSUME NEW d \in drafts
      PROVE  LET row == Row(t, d, H(d), rule)
             IN  /\ row.by = t /\ row.rule = rule
                 /\ row.refs = d.refs /\ row.evidence = d.evidence \cup d.refs
                 /\ \A l \in DOMAIN row.fix : l \in Locators /\ row.fix[l] \in BOOLEAN
                 /\ row.fix # NoFix =>
                      DOMAIN Current \subseteq DOMAIN row.fix /\ \E l \in DOMAIN row.fix : row.fix[l]
  <2>1. d.stale => H(d) \in Heals
    OBVIOUS
  <2> HIDE DEF H
  <2>2. Row(t, d, H(d), rule).fix = Fix(d, H(d))
    BY DEF Row
  <2>3. /\ Row(t, d, H(d), rule).by = t /\ Row(t, d, H(d), rule).rule = rule
        /\ Row(t, d, H(d), rule).refs = d.refs
        /\ Row(t, d, H(d), rule).evidence = d.evidence \cup d.refs
    BY DEF Row
  <2> QED
    BY <2>1, <2>2, <2>3, FixSound
<1>3. cluster' = cluster \cup new
  BY <1>1
<1>4. ASSUME NEW row \in new
      PROVE  Entered(row, t, drafts, rule)
  <2> HIDE DEF H
  <2>1. PICK d \in drafts : row = Row(t, d, H(d), rule)
    OBVIOUS
  <2> QED
    BY <1>2, <2>1 DEF Entered
<1> HIDE DEF new
<1> WITNESS new
<1> QED
  BY <1>3, <1>4

(* The drafts of the rules name what was read, and cite nothing.           *)
LEMMA RulesNameWhatWasRead ==
  ASSUME NEW seen
  PROVE  \A d \in RuleDrafts(seen) : d.refs \subseteq DOMAIN seen /\ d.evidence = {}
  BY DEF RuleDrafts

-----------------------------------------------------------------------------
(* Moving a task keeps it at a place of the code.                          *)
LEMMA GotoMoves ==
  ASSUME TypeOK, NEW t \in Tasks, NEW there, Goto(t, there)
  PROVE  /\ pc'[t] = there
         /\ \A u \in Tasks : u # t => pc'[u] = pc[u]
         /\ there \in {"verdict", "start", "settle", "mark", "read", "write", "done", "dead"}
              => pc' \in [Tasks -> {"verdict", "start", "settle", "mark",
                                    "read", "write", "done", "dead"}]
  BY DEF TypeOK, Goto

(* Grounded and HealKeepsPrimary with the types of the rows they are about.*)
Sound == TypeOK /\ Grounded /\ HealKeepsPrimary

(* A commit that inserts drafts about what the task has read keeps the     *)
(* report sound.                                                           *)
LEMMA InsertSound ==
  ASSUME Sound, NEW t \in Tasks, NEW drafts, NEW rule \in BOOLEAN, Insert(t, drafts, rule),
         \A d \in drafts : d.refs \cup d.evidence \subseteq DOMAIN view[t],
         evidence' = evidence \cup DOMAIN view[t], UNCHANGED <<failed, view>>,
         Goto(t, "done"), status' \in Settled, rest' \subseteq Ids
  PROVE  Sound'
<1>1. PICK new :
        /\ cluster' = cluster \cup new
        /\ \A row \in new : Entered(row, t, drafts, rule)
  BY Inserted
<1>2. \A row \in new : /\ row.refs \subseteq row.evidence
                       /\ row.evidence \subseteq DOMAIN view[t]
  BY <1>1 DEF Entered
<1>3. DOMAIN view[t] \subseteq DOMAIN failed /\ DOMAIN failed \subseteq Cases
  BY DEF Sound, TypeOK
<1>4. evidence \subseteq evidence' /\ DOMAIN view[t] \subseteq evidence'
  OBVIOUS
<1>5. Grounded'
  BY <1>1, <1>2, <1>3, <1>4 DEF Sound, Grounded, Entered
<1>6. HealKeepsPrimary'
  BY <1>1 DEF Sound, HealKeepsPrimary, Entered
<1>7. \A row \in cluster' :
        /\ row.by \in Tasks /\ row.rule \in BOOLEAN
        /\ row.refs \subseteq Cases /\ row.evidence \subseteq Cases
        /\ \A l \in DOMAIN row.fix : l \in Locators /\ row.fix[l] \in BOOLEAN
  BY <1>1, <1>2, <1>3 DEF Sound, TypeOK, Entered
<1>8. pc' \in [Tasks -> {"verdict", "start", "settle", "mark", "read", "write", "done", "dead"}]
  BY GotoMoves DEF Sound
<1> QED
  BY <1>3, <1>5, <1>6, <1>7, <1>8 DEF Sound, TypeOK

(* The types, the grounds of the clusters and the primary locators are     *)
(* inductive together: a row is judged by the types of what it names.      *)
LEMMA SoundInductive == Init /\ [][Next]_vars => []Sound
<1>1. Init => Sound
  BY DEF Init, Sound, TypeOK, Grounded, HealKeepsPrimary, Settled, Nothing
<1>2. ASSUME Sound, [Next]_vars PROVE Sound'
  <2> USE <1>2
  <2>1. CASE UNCHANGED vars
    BY <2>1 DEF vars, Sound, TypeOK, Grounded, HealKeepsPrimary
  <2>2. ASSUME NEW c \in Cases, Fail(c) PROVE Sound'
    <3>1. DOMAIN failed' = DOMAIN failed \cup {c} /\ \A d \in DOMAIN failed' : failed'[d] \in Groups
      BY <2>2 DEF Fail, Sound, TypeOK
    <3> QED
      BY <2>2, <3>1 DEF Fail, Sound, TypeOK, Grounded, HealKeepsPrimary
  <2>3. ASSUME NEW t \in Tasks, Finalize(t) \/ Prepare(t) \/ Settle(t) \/ Mark(t) \/ Dies(t)
        PROVE  Sound'
    <3>1. pc' \in [Tasks -> {"verdict", "start", "settle", "mark", "read", "write", "done", "dead"}]
      BY <2>3, GotoMoves DEF Sound, Finalize, Prepare, Settle, Mark, Dies
    <3> QED
      BY <2>3, <3>1
         DEF Finalize, Prepare, Settle, Mark, Dies, Settled, Sound, TypeOK, Grounded, HealKeepsPrimary
  <2>4. ASSUME NEW t \in Tasks, Read(t) PROVE Sound'
    <3>1. pc' \in [Tasks -> {"verdict", "start", "settle", "mark", "read", "write", "done", "dead"}]
      BY <2>4, GotoMoves DEF Sound, Read
    <3>2. \A u \in Tasks : DOMAIN view'[u] \subseteq DOMAIN failed
      BY <2>4 DEF Read, Sound, TypeOK
    <3> QED
      BY <2>4, <3>1, <3>2 DEF Read, Sound, TypeOK, Grounded, HealKeepsPrimary
  <2>5. ASSUME NEW t \in Tasks, Generate(t) PROVE Sound'
    <3>1. PICK reply \in Replies :
            /\ Valid(reply, view[t]) /\ Insert(t, reply.drafts, FALSE)
            /\ status' = "ready" /\ rest' = reply.rest
      BY <2>5 DEF Generate
    <3>2. reply.rest \subseteq Ids
      BY <3>1, ConstantsType DEF Valid
    <3> QED
      BY <2>5, <3>1, <3>2, InsertSound DEF Generate, Valid, Settled
  <2>6. ASSUME NEW t \in Tasks, FallBack(t) PROVE Sound'
    BY <2>6, InsertSound, RulesNameWhatWasRead DEF FallBack, Settled
  <2> QED
    BY <2>1, <2>2, <2>3, <2>4, <2>5, <2>6 DEF Next
<1> QED
  BY <1>1, <1>2, PTL

(* Every variable of the report stays in its range, whatever the models    *)
(* answer.                                                                 *)
THEOREM TypeCorrect == Spec => []TypeOK
<1>1. Sound => TypeOK
  BY DEF Sound
<1> QED
  BY <1>1, SoundInductive, PTL DEF Spec

(* No cluster names a stranger or cites evidence that does not exist.      *)
THEOREM GroundedHolds == Spec => []Grounded
<1>1. Sound => Grounded
  BY DEF Sound
<1> QED
  BY <1>1, SoundInductive, PTL DEF Spec

(* A suggestion of A3 keeps every locator, and a primary one.              *)
THEOREM HealKeepsPrimaryHolds == Spec => []HealKeepsPrimary
<1>1. Sound => HealKeepsPrimary
  BY DEF Sound
<1> QED
  BY <1>1, SoundInductive, PTL DEF Spec

-----------------------------------------------------------------------------
MadeByRule(t) == {row \in cluster : row.by = t /\ row.rule}

RulesPartition ==
  \A t \in Tasks : MadeByRule(t) # {} =>
    \A c \in DOMAIN view[t] : Cardinality({row \in MadeByRule(t) : c \in row.refs}) = 1

(* One draft of the rules names a failure that was read: that of its group.*)
LEMMA OneDraft ==
  ASSUME NEW seen, NEW c \in DOMAIN seen
  PROVE  \E d \in RuleDrafts(seen) :
           /\ c \in d.refs
           /\ \A e \in RuleDrafts(seen) : c \in e.refs => e = d
<1> DEFINE draft(g) == [refs |-> {b \in DOMAIN seen : seen[b] = g}, evidence |-> {},
                        stale |-> g \in Stale]
<1>1. draft(seen[c]) \in RuleDrafts(seen) /\ c \in draft(seen[c]).refs
  BY DEF RuleDrafts
<1>2. ASSUME NEW e \in RuleDrafts(seen), c \in e.refs PROVE e = draft(seen[c])
  <2>1. PICK g : e = draft(g)
    BY DEF RuleDrafts
  <2>2. g = seen[c]
    BY <1>2, <2>1
  <2> QED
    BY <2>1, <2>2
<1> QED
  BY <1>1, <1>2

(* The clusters a task makes without the models, its first, put each of    *)
(* the failures it has read into exactly one.                              *)
LEMMA RulesInserted ==
  ASSUME NEW t \in Tasks, Insert(t, RuleDrafts(view[t]), TRUE), view' = view,
         \A row \in cluster : row.by # t
  PROVE  \A c \in DOMAIN view'[t] : Cardinality({row \in MadeByRule(t)' : c \in row.refs}) = 1
<1>1. PICK heal \in [{d \in RuleDrafts(view[t]) : d.stale} -> Heals] :
        cluster' = cluster \cup
          {Row(t, d, IF d.stale THEN heal[d] ELSE Nothing, TRUE) : d \in RuleDrafts(view[t])}
  BY DEF Insert
<1> DEFINE R(d) == Row(t, d, IF d.stale THEN heal[d] ELSE Nothing, TRUE)
<1>2. \A d : R(d).by = t /\ R(d).rule = TRUE /\ R(d).refs = d.refs
  BY DEF Row
<1>3. cluster' = cluster \cup {R(d) : d \in RuleDrafts(view[t])}
  BY <1>1
<1> HIDE DEF R
<1>4. MadeByRule(t)' = {R(d) : d \in RuleDrafts(view[t])}
  BY <1>2, <1>3 DEF MadeByRule
<1>5. ASSUME NEW c \in DOMAIN view[t]
      PROVE  Cardinality({row \in MadeByRule(t)' : c \in row.refs}) = 1
  <2>1. PICK d \in RuleDrafts(view[t]) :
          c \in d.refs /\ \A e \in RuleDrafts(view[t]) : c \in e.refs => e = d
    BY OneDraft
  <2>2. {row \in MadeByRule(t)' : c \in row.refs} = {R(d)}
    BY <1>2, <1>4, <2>1
  <2> QED
    BY <2>2, FS_Singleton
<1> QED
  BY <1>5

(* Once it has stored its clusters a task is over, so a report is put      *)
(* together by one commit of each task.                                    *)
LEMMA StoresLastInductive ==
  ASSUME Sound, StoresLast, RulesPartition, [Next]_vars
  PROVE  StoresLast' /\ RulesPartition'
<1>1. CASE UNCHANGED vars
  BY <1>1 DEF vars, StoresLast, RulesPartition, MadeByRule
<1>2. ASSUME NEW c \in Cases, Fail(c) PROVE StoresLast' /\ RulesPartition'
  BY <1>2 DEF Fail, StoresLast, RulesPartition, MadeByRule
<1>3. ASSUME NEW t \in Tasks, Finalize(t) \/ Prepare(t) \/ Settle(t) \/ Mark(t) \/ Dies(t)
      PROVE  StoresLast' /\ RulesPartition'
  <2>1. /\ cluster' = cluster /\ view' = view
        /\ \E there : Goto(t, there)
        /\ pc[t] \notin {"done", "dead"}
        /\ UNCHANGED <<status, rest>> \/ status' # "degraded"
    BY <1>3 DEF Finalize, Prepare, Settle, Mark, Dies
  <2>2. \A u \in Tasks : u # t => pc'[u] = pc[u]
    BY <2>1, GotoMoves DEF Sound
  <2>3. StoresLast'
    BY <2>1, <2>2 DEF StoresLast
  <2> QED
    BY <2>1, <2>3 DEF RulesPartition, MadeByRule
<1>4. ASSUME NEW t \in Tasks, Read(t) PROVE StoresLast' /\ RulesPartition'
  <2>1. /\ UNCHANGED <<cluster, status, rest>> /\ pc[t] = "read"
        /\ \A u \in Tasks : u # t => pc'[u] = pc[u]
    BY <1>4, GotoMoves DEF Read, Sound
  <2>2. \A row \in cluster : row.by # t
    BY <2>1 DEF StoresLast
  <2>3. \A u \in Tasks : u # t => view'[u] = view[u]
    BY <1>4 DEF Read, Sound, TypeOK
  <2>4. MadeByRule(t)' = {} /\ \A u \in Tasks : MadeByRule(u)' = MadeByRule(u)
    BY <2>1, <2>2 DEF MadeByRule
  <2>5. RulesPartition'
    BY <2>3, <2>4 DEF RulesPartition
  <2> QED
    BY <2>1, <2>2, <2>5 DEF StoresLast
<1>5. ASSUME NEW t \in Tasks, NEW drafts, NEW rule \in BOOLEAN, Insert(t, drafts, rule),
             pc[t] = "write", Goto(t, "done"), view' = view,
             \/ ~rule /\ status' = "ready"
             \/ rule /\ rest' = {} /\ drafts = RuleDrafts(view[t])
      PROVE  StoresLast' /\ RulesPartition'
  <2>1. PICK new : /\ cluster' = cluster \cup new
                   /\ \A row \in new : row.by = t /\ row.rule = rule
    <3>1. PICK new : /\ cluster' = cluster \cup new
                     /\ \A row \in new : Entered(row, t, drafts, rule)
      <4>1. Insert(t, drafts, rule)
        BY <1>5
      <4> QED
        BY <4>1, Inserted
    <3>2. \A row \in new : row.by = t /\ row.rule = rule
      BY <3>1 DEF Entered
    <3> QED
      BY <3>1, <3>2
  <2>2. pc'[t] = "done" /\ \A u \in Tasks : u # t => pc'[u] = pc[u]
    BY <1>5, GotoMoves DEF Sound
  <2>3. \A row \in cluster : row.by # t
    BY <1>5 DEF StoresLast
  <2>4. StoresLast'
    BY <1>5, <2>1, <2>2, <2>3 DEF StoresLast
  <2>5. \A u \in Tasks : u # t => MadeByRule(u)' = MadeByRule(u)
    BY <2>1 DEF MadeByRule
  <2>6. CASE rule
    <3>1. \A c \in DOMAIN view'[t] :
            Cardinality({row \in MadeByRule(t)' : c \in row.refs}) = 1
      <4>1. rule = TRUE
        BY <2>6
      <4>2. Insert(t, RuleDrafts(view[t]), TRUE)
        BY <1>5, <4>1
      <4> QED
        BY <1>5, <2>3, <4>2, RulesInserted
    <3> QED
      BY <1>5, <2>4, <2>5, <3>1 DEF RulesPartition
  <2>7. CASE ~rule
    <3>1. MadeByRule(t)' = {}
      BY <2>1, <2>3, <2>7 DEF MadeByRule
    <3> QED
      BY <1>5, <2>4, <2>5, <3>1 DEF RulesPartition
  <2> QED
    BY <2>6, <2>7
<1>6. ASSUME NEW t \in Tasks, Generate(t) \/ FallBack(t) PROVE StoresLast' /\ RulesPartition'
  BY <1>5, <1>6 DEF Generate, FallBack
<1> QED
  BY <1>1, <1>2, <1>3, <1>4, <1>6 DEF Next

(* A step leaves somebody at work on a pending report without clusters: a  *)
(* task that makes it pending goes on, and one that goes home has found    *)
(* it finished or clustered.                                               *)
LEMMA WatchInductive ==
  ASSUME Sound, PendingWatched, [Next]_vars
  PROVE  PendingWatched'
<1>1. CASE UNCHANGED vars
  BY <1>1 DEF vars, PendingWatched
<1>2. ASSUME NEW c \in Cases, Fail(c) PROVE PendingWatched'
  BY <1>2 DEF Fail, PendingWatched
<1>3. ASSUME NEW t \in Tasks,
             \/ Finalize(t) \/ Prepare(t) \/ Settle(t) \/ Mark(t) \/ Dies(t)
             \/ Read(t) \/ Generate(t) \/ FallBack(t)
      PROVE  PendingWatched'
  <2> SUFFICES ASSUME status' = "pending", cluster' = {}, \A u \in Tasks : pc'[u] # "dead"
               PROVE  \E u \in Tasks : pc'[u] \in Working
    BY DEF PendingWatched
  <2>1. pc[t] \notin {"done", "dead"} /\ \E there : Goto(t, there)
    BY <1>3 DEF Finalize, Prepare, Settle, Mark, Dies, Read, Generate, FallBack
  <2>2. \A u \in Tasks : u # t => pc'[u] = pc[u]
    BY <2>1, GotoMoves DEF Sound
  <2>3. \A there : Goto(t, there) => pc'[t] = there
    BY GotoMoves DEF Sound
  <2>4. cluster = {}
    <3>1. \E new : cluster' = cluster \cup new
      <4>1. CASE Generate(t)
        BY <4>1 DEF Generate, Insert
      <4>2. CASE FallBack(t)
        BY <4>2 DEF FallBack, Insert
      <4>3. CASE ~Generate(t) /\ ~FallBack(t)
        <5>1. cluster' = cluster \cup {}
          BY <1>3, <4>3 DEF Finalize, Prepare, Settle, Mark, Dies, Read
        <5> QED
          BY <5>1
      <4> QED
        BY <4>1, <4>2, <4>3
    <3> QED
      BY <3>1
  <2>5. CASE Finalize(t) \/ Mark(t)
    BY <2>3, <2>5 DEF Finalize, Mark, Working
  <2>6. CASE Settle(t) \/ Dies(t) \/ Generate(t) \/ FallBack(t)
    BY <2>3, <2>6 DEF Settle, Dies, Generate, FallBack
  <2>7. CASE Prepare(t)
    BY <2>3, <2>4, <2>7 DEF Prepare, Working, Settled
  <2>8. CASE Read(t)
    BY <2>3, <2>4, <2>8 DEF Read, Working, Settled
  <2> QED
    BY <1>3, <2>5, <2>6, <2>7, <2>8
<1> QED
  BY <1>1, <1>2, <1>3 DEF Next

LEMMA ReportInductive == Spec => [](StoresLast /\ RulesPartition /\ PendingWatched)
<1>1. Init => StoresLast /\ RulesPartition /\ PendingWatched
  BY DEF Init, StoresLast, RulesPartition, MadeByRule, PendingWatched
<1>2. Sound /\ (StoresLast /\ RulesPartition /\ PendingWatched) /\ [Next]_vars
        => (StoresLast /\ RulesPartition /\ PendingWatched)'
  BY StoresLastInductive, WatchInductive
<1> QED
  BY <1>1, <1>2, SoundInductive, PTL DEF Spec

(* A degraded report hides no failure, whenever it is read and stored.     *)
THEOREM DegradedReportHolds == Spec => []DegradedReport
<1>1. StoresLast /\ RulesPartition => DegradedReport
  <2> HAVE StoresLast /\ RulesPartition
  <2>1. status = "degraded" => \A page \in SUBSET cluster :
                                 DOMAIN failed \subseteq Named(page) \cup Unclustered(page)
    BY DEF StoresLast, Unclustered
  <2> QED
    BY <2>1 DEF DegradedReport, RulesPartition, MadeByRule
<1> QED
  BY <1>1, ReportInductive, PTL

(* A report that nobody works on is pending by a death or the race of two  *)
(* triages only.                                                           *)
THEOREM StuckOnlyByRaceHolds == Spec => []StuckOnlyByRace
<1>1. PendingWatched => StuckOnlyByRace
  <2> SUFFICES ASSUME PendingWatched, status = "pending", cluster = {},
                      \A t \in Tasks : pc[t] \in {"done", "dead"}
               PROVE  \E t \in Tasks : pc[t] = "dead"
    BY DEF StuckOnlyByRace
  <2> QED
    BY DEF PendingWatched, Working
<1> QED
  BY <1>1, ReportInductive, PTL

-----------------------------------------------------------------------------
(* The gate.                                                               *)

(* What a task has made sure of at each place: the run is no agent's, it   *)
(* has a policy, and its report is whole.                                  *)
ReadWell ==
  \A e \in Evaluators :
    /\ task[e].pc \in {"policy", "rows", "sync", "attach"} => source # "agent"
    /\ task[e].pc \in {"rows", "sync", "attach"} => task[e].view.policy \in Policies
    /\ task[e].pc \in {"sync", "attach"} =>
         ~Partial(task[e].view.report) /\ ~PerfMissing(task[e].view.report)

Sane == GateTypeOK /\ ReadWell

LEMMA ConstantViews ==
  /\ NoReport \in Report /\ NoView \in View
  /\ NewTask \in TaskState /\ NewReader \in ReaderState
<1>1. NoReport \in Report
  BY DEF NoReport, Report
<1>2. NoView \in View
  BY <1>1 DEF NoView, View, Statuses
<1> QED
  BY <1>1, <1>2 DEF NewTask, NewReader, TaskState, ReaderState, MaxSyncAttempts

LEMMA RunReadTyped == GateTypeOK => RunRead \in View
<1> SUFFICES ASSUME GateTypeOK PROVE RunRead \in View
  OBVIOUS
<1>1. [report EXCEPT !.rows = NoReport.rows] \in Report
  BY ConstantViews DEF GateTypeOK, Report
<1> QED
  BY <1>1, ConstantViews DEF GateTypeOK, RunRead, View

LEMMA RowsReadTyped ==
  ASSUME GateTypeOK, NEW v \in View
  PROVE  /\ RowsRead(v) \in View
         /\ RowsRead(v).gate = v.gate /\ RowsRead(v).status = v.status /\ RowsRead(v).policy = v.policy
<1>1. RowsRead(v) = [v EXCEPT !.report = [v.report EXCEPT !.rows = report.rows]]
  BY DEF RowsRead, View, GateTypeOK, Report
<1>2. [v.report EXCEPT !.rows = report.rows] \in Report
  BY DEF View, GateTypeOK, Report
<1> QED
  BY <1>1, <1>2 DEF View

LEMMA JudgedTyped ==
  ASSUME NEW p, NEW s
  PROVE  Result(p, s) \in Results /\ Conclusion(p, Result(p, s)) \in Conclusions
  BY DEF Result, Results, Conclusion, Conclusions

LEMMA EvaluationTyped ==
  ASSUME GateTypeOK, NEW e \in Evaluators, task[e].view.policy \in Policies
  PROVE  Evaluation(e) \in GateEvaluation
<1>1. task[e].view \in View /\ task[e].sync \in {"none", "completed", "failed"}
  BY DEF GateTypeOK, TaskState
<1> QED
  BY <1>1, JudgedTyped DEF Evaluation, Judged, GateEvaluation, View

LEMMA CheckRunTyped ==
  ASSUME NEW e \in Evaluators, NEW phase
  PROVE  CheckRun(e, phase) \in CheckState
  BY JudgedTyped DEF CheckRun, Judged, CheckState

(* An action that touches the tasks only at e, and nothing a task reads.   *)
LEMMA SaneTask ==
  ASSUME Sane, NEW e \in Evaluators, NEW t \in TaskState, task' = [task EXCEPT ![e] = t],
         t.pc \in {"policy", "rows", "sync", "attach"} => source # "agent",
         t.pc \in {"rows", "sync", "attach"} => t.view.policy \in Policies,
         t.pc \in {"sync", "attach"} => ~Partial(t.view.report) /\ ~PerfMissing(t.view.report),
         UNCHANGED <<facts, reader>>,
         gate' \in Evaluators \cup {None}, evaluation' \in [Evaluators -> GateEvaluation \cup {None}],
         checks' \subseteq CheckState,
         alert' \subseteq Evaluators
  PROVE  Sane'
<1>1. task' \in [Evaluators -> TaskState]
  BY DEF Sane, GateTypeOK, TaskState
<1>2. GateTypeOK'
  BY <1>1 DEF Sane, GateTypeOK, TaskState, facts, View
<1>3. \A f \in Evaluators : task'[f] = IF f = e THEN t ELSE task[f]
  BY DEF Sane, GateTypeOK
<1>4. ReadWell'
  BY <1>3 DEF Sane, ReadWell, facts, Partial, PerfMissing, Measured
<1> QED
  BY <1>2, <1>4 DEF Sane

(* Readers change nothing but themselves. *)
LEMMA SaneReader ==
  ASSUME Sane, UNCHANGED <<facts, gate, evaluation, checks, alert, task>>,
         reader' \in [Readers -> ReaderState]
  PROVE  Sane'
  BY DEF Sane, GateTypeOK, ReadWell, facts, View, Partial, PerfMissing, Measured

LEMMA SaneInductive == GateInit /\ [][GateNext]_gateVars => []Sane
<1>1. GateInit => Sane
  <2> SUFFICES ASSUME GateInit PROVE Sane
    OBVIOUS
  <2>1. GateTypeOK
    BY ConstantViews, GateAssumption DEF GateInit, GateTypeOK, Statuses
  <2>2. ReadWell
    BY DEF GateInit, ReadWell, NewTask
  <2> QED
    BY <2>1, <2>2 DEF Sane
<1>2. Sane /\ [GateNext]_gateVars => Sane'
  <2> SUFFICES ASSUME Sane, [GateNext]_gateVars PROVE Sane'
    OBVIOUS
  <2> USE DEF Sane
  <2>1. CASE Turn
    <3>1. report' \in Report /\ runStatus' \in Statuses
      BY <2>1, GateAssumption DEF Turn
    <3>2. turns' \in 0..MaxTurns
      BY <2>1, GateAssumption DEF Turn, GateTypeOK
    <3>3. GateTypeOK'
      BY <2>1, <3>1, <3>2 DEF Turn, GateTypeOK
    <3>4. ReadWell'
      BY <2>1 DEF Turn, ReadWell, Partial, PerfMissing, Measured
    <3> QED
      BY <3>3, <3>4
  <2>2. CASE EditPolicy
    <3>1. edits' \in 0..MaxEdits
      BY <2>2, GateAssumption DEF EditPolicy, GateTypeOK
    <3>2. GateTypeOK'
      BY <2>2, <3>1 DEF EditPolicy, GateTypeOK
    <3>3. ReadWell'
      BY <2>2 DEF EditPolicy, ReadWell, Partial, PerfMissing, Measured
    <3> QED
      BY <3>2, <3>3
  <2>3. ASSUME NEW e \in Evaluators, Schedule(e) \/ Evaluating(e) \/ EvaluatorDies(e)
        PROVE  Sane'
    <3>1. task[e] \in TaskState /\ task[e].view \in View
      BY DEF GateTypeOK, TaskState
    <3> DEFINE ended(place) == [NewTask EXCEPT !.pc = place]
    <3>2. \A place \in {"done", "dead"} : ended(place) \in TaskState /\ ended(place).pc = place
      BY ConstantViews DEF TaskState
    <3>3. \A place \in {"done", "dead"} :
            /\ End(e, place) => task' = [task EXCEPT ![e] = ended(place)]
      BY DEF End
    <3> HIDE DEF ended
    <3>4. ASSUME UNCHANGED <<facts, gate, evaluation, checks, alert, reader>>,
                 End(e, "done") \/ End(e, "dead")
          PROVE  Sane'
      BY <3>2, <3>3, <3>4, SaneTask DEF GateTypeOK
    <3>5. CASE Schedule(e)
      <4> DEFINE t == [task[e] EXCEPT !.pc = "run"]
      <4>1. t \in TaskState /\ t.pc = "run" /\ task' = [task EXCEPT ![e] = t]
        BY <3>1, <3>5 DEF Schedule, GoOn, TaskState
      <4> HIDE DEF t
      <4> QED
        BY <3>5, <4>1, SaneTask DEF Schedule, GateTypeOK
    <3>6. CASE ReadRun(e)
      <4> DEFINE t == [task[e] EXCEPT !.pc = "policy", !.view = RunRead]
      <4>1. t \in TaskState /\ t.pc = "policy"
        BY <3>1, RunReadTyped DEF TaskState
      <4>2. CASE gate # None \/ source = "agent" \/ runStatus # "terminal"
        BY <3>4, <3>6, <4>2 DEF ReadRun
      <4>3. CASE ~(gate # None \/ source = "agent" \/ runStatus # "terminal")
        <5>1. task' = [task EXCEPT ![e] = t]
          BY <3>6, <4>3 DEF ReadRun
        <5> HIDE DEF t
        <5> QED
          BY <3>6, <4>1, <4>3, <5>1, SaneTask DEF ReadRun, GateTypeOK
      <4> QED
        BY <4>2, <4>3
    <3>7. CASE ReadPolicy(e)
      <4> DEFINE t == [task[e] EXCEPT !.pc = "rows", !.view.policy = policy]
      <4>1. t \in TaskState /\ t.pc = "rows" /\ t.view.policy = policy
        BY <3>1 DEF TaskState, View, GateTypeOK
      <4>2. CASE policy = None
        BY <3>4, <3>7, <4>2 DEF ReadPolicy
      <4>3. CASE policy # None
        <5>1. task' = [task EXCEPT ![e] = t]
          BY <3>1, <3>7, <4>3 DEF ReadPolicy, TaskState, View
        <5>2. policy \in Policies /\ source # "agent"
          BY <3>7, <4>3 DEF GateTypeOK, ReadWell, ReadPolicy
        <5> HIDE DEF t
        <5> QED
          BY <3>7, <4>1, <5>1, <5>2, SaneTask DEF ReadPolicy, GateTypeOK
      <4> QED
        BY <4>2, <4>3
    <3>8. CASE ReadRows(e)
      <4> DEFINE seen == RowsRead(task[e].view)
                 t == [task[e] EXCEPT !.pc = "sync", !.view = seen]
      <4>1. t \in TaskState /\ t.pc = "sync" /\ t.view = seen
        BY <3>1, RowsReadTyped DEF TaskState
      <4>2. CASE Partial(seen.report) \/ PerfMissing(seen.report)
        BY <3>4, <3>8, <4>2 DEF ReadRows
      <4>3. CASE ~(Partial(seen.report) \/ PerfMissing(seen.report))
        <5>1. task' = [task EXCEPT ![e] = t]
          BY <3>8, <4>3 DEF ReadRows
        <5>2. seen.policy \in Policies /\ source # "agent"
          BY <3>1, <3>8, RowsReadTyped DEF GateTypeOK, ReadWell, ReadRows
        <5> HIDE DEF t, seen
        <5> QED
          BY <3>8, <4>1, <4>3, <5>1, <5>2, SaneTask DEF ReadRows, GateTypeOK
      <4> QED
        BY <4>2, <4>3
    <3>9. ASSUME task[e].pc = "sync", UNCHANGED <<facts, gate, evaluation, alert, reader>>,
                 NEW t \in TaskState, t.view = task[e].view, t.pc \in {"sync", "attach"},
                 task' = [task EXCEPT ![e] = t],
                 checks' = checks \/ \E phase \in {"queued", "completed"} : checks' = checks \cup {CheckRun(e, phase)}
          PROVE  Sane'
      <4>1. checks' \subseteq CheckState
        BY <3>9, CheckRunTyped DEF GateTypeOK
      <4>2. /\ source # "agent" /\ t.view.policy \in Policies
            /\ ~Partial(t.view.report) /\ ~PerfMissing(t.view.report)
        BY <3>9 DEF ReadWell
      <4> QED
        BY <3>9, <4>1, <4>2, SaneTask DEF GateTypeOK
    <3>10. CASE Synced(e) \/ SyncRetry(e) \/ SyncGivesUp(e)
      <4> DEFINE t == IF Synced(e) THEN [task[e] EXCEPT !.pc = "attach", !.sync = "completed"]
                      ELSE IF SyncRetry(e) THEN [task[e] EXCEPT !.attempt = @ + 1]
                      ELSE [task[e] EXCEPT !.pc = "attach", !.sync = "failed"]
      <4>1. t \in TaskState /\ t.view = task[e].view /\ t.pc \in {"sync", "attach"}
        <5>1. SyncRetry(e) => task[e].attempt + 1 \in 1..MaxSyncAttempts
          BY <3>1 DEF SyncRetry, TaskState, MaxSyncAttempts
        <5>2. task[e].pc = "sync"
          BY <3>10 DEF Synced, SyncRetry, SyncGivesUp, SyncFails
        <5> QED
          BY <3>1, <3>10, <5>1, <5>2 DEF TaskState
      <4>2. task' = [task EXCEPT ![e] = t]
        BY <3>10 DEF Synced, SyncRetry, SyncGivesUp
      <4> HIDE DEF t
      <4> QED
        BY <3>9, <3>10, <4>1, <4>2 DEF Synced, SyncRetry, SyncGivesUp, SyncFails
    <3>11. CASE Attach(e)
      <4>1. task[e].view.policy \in Policies
        BY <3>11 DEF Attach, ReadWell
      <4>2. /\ gate' \in Evaluators \cup {None} /\ alert' \subseteq Evaluators
            /\ evaluation' \in [Evaluators -> GateEvaluation \cup {None}]
        BY <3>11, <4>1, EvaluationTyped DEF Attach, GateTypeOK
      <4> QED
        BY <3>2, <3>3, <3>11, <4>2, SaneTask DEF Attach, GateTypeOK
    <3>12. CASE EvaluatorDies(e)
      BY <3>4, <3>12 DEF EvaluatorDies
    <3> QED
      BY <2>3, <3>5, <3>6, <3>7, <3>8, <3>10, <3>11, <3>12 DEF Evaluating
  <2>4. ASSUME NEW r \in Readers, Reading(r)
        PROVE  Sane'
    <3>1. /\ reader[r] \in ReaderState /\ reader[r].view \in View
          /\ UNCHANGED <<facts, gate, evaluation, checks, alert, task>>
      BY <2>4 DEF GateTypeOK, ReaderState, Reading, AskRun, FindEvaluation, AskPolicy, AskRows
    <3>2. ASSUME NEW s \in ReaderState, reader' = [reader EXCEPT ![r] = s]
          PROVE  Sane'
      BY <3>1, <3>2, SaneReader DEF GateTypeOK
    <3>3. ASSUME NEW a \in Evaluators \cup Reasons \cup {"state"}, Answer(r, a)
          PROVE  Sane'
      <4> DEFINE s == [reader[r] EXCEPT !.pc = "done", !.answer = a]
      <4>1. s \in ReaderState
        BY <3>1, <3>3 DEF ReaderState
      <4>2. reader' = [reader EXCEPT ![r] = s]
        BY <3>3 DEF Answer
      <4> QED
        BY <3>2, <4>1, <4>2
    <3>4. CASE AskRun(r)
      BY <3>1, <3>2, <3>4, RunReadTyped DEF AskRun, ReaderState
    <3>5. CASE FindEvaluation(r)
      <4>1. \/ \E a \in Evaluators \cup Reasons \cup {"state"} : Answer(r, a)
            \/ reader' = [reader EXCEPT ![r].pc = "policy"]
        BY <3>5 DEF FindEvaluation, Reasons
      <4> QED
        BY <3>1, <3>2, <3>3, <4>1 DEF ReaderState
    <3>6. CASE AskPolicy(r)
      <4>1. [reader[r] EXCEPT !.pc = "rows", !.view.policy = policy] \in ReaderState
        BY <3>1 DEF ReaderState, View, GateTypeOK
      <4>2. CASE policy = None
        BY <3>3, <3>6, <4>2 DEF AskPolicy, Reasons
      <4>3. CASE policy # None
        BY <3>2, <3>6, <4>1, <4>3 DEF AskPolicy
      <4> QED
        BY <4>2, <4>3
    <3>7. CASE AskRows(r)
      <4> DEFINE seen == RowsRead(reader[r].view)
                 reason == IF Partial(seen.report) THEN "partial_report"
                           ELSE IF PerfMissing(seen.report) THEN "perf_report_missing"
                           ELSE "not_terminal"
                 s == [pc |-> "done", view |-> seen, answer |-> reason]
      <4>1. seen \in View
        BY <3>1, RowsReadTyped
      <4>2. reason \in Reasons
        BY DEF Reasons
      <4>3. reader' = [reader EXCEPT ![r] = s]
        BY <3>7 DEF AskRows
      <4> HIDE DEF seen, reason
      <4>4. s \in ReaderState
        BY <4>1, <4>2 DEF ReaderState
      <4> QED
        BY <3>2, <4>3, <4>4
    <3> QED
      BY <2>4, <3>4, <3>5, <3>6, <3>7 DEF Reading
  <2>5. CASE UNCHANGED gateVars
    BY <2>5 DEF gateVars, facts, GateTypeOK, ReadWell, Partial, PerfMissing, Measured
  <2> QED
    BY <2>1, <2>2, <2>3, <2>4, <2>5 DEF GateNext
<1> QED
  BY <1>1, <1>2, PTL
-----------------------------------------------------------------------------
(* One evaluation *)

(* Who has stored an evaluation has ended.                                 *)
Once ==
  /\ OneEvaluation
  /\ \A e \in Evaluators : evaluation[e] # None => task[e].pc = "done"

(* Only the locked transaction at the end of a task touches the run's gate *)
(* and the evaluations; what the run is never changes.                     *)
LEMMA OnlyAttachStores ==
  ASSUME [GateNext]_gateVars
  PROVE  /\ UNCHANGED <<source, github>>
         /\ UNCHANGED <<gate, evaluation>> \/ \E e \in Evaluators : Attach(e)
<1>1. ASSUME NEW e \in Evaluators, Schedule(e) \/ Evaluating(e) \/ EvaluatorDies(e)
      PROVE  UNCHANGED <<source, github>> /\ (UNCHANGED <<gate, evaluation>> \/ Attach(e))
  BY <1>1 DEF Schedule, Evaluating, ReadRun, ReadPolicy, ReadRows, Synced, SyncRetry,
              SyncGivesUp, Attach, EvaluatorDies, facts
<1>2. ASSUME NEW r \in Readers, Reading(r)
      PROVE  UNCHANGED <<source, github, gate, evaluation>>
  BY <1>2 DEF Reading, AskRun, FindEvaluation, AskPolicy, AskRows, facts
<1>3. Turn \/ EditPolicy \/ UNCHANGED gateVars => UNCHANGED <<source, github, gate, evaluation>>
  BY DEF Turn, EditPolicy, gateVars, facts
<1> QED
  BY <1>1, <1>2, <1>3 DEF GateNext

Told(e) == {c \in checks : c.by = e /\ c.conclusion # None}

(* A task leaves what another one has done alone.                          *)
LEMMA OthersKeepOff ==
  ASSUME Sane, NEW e \in Evaluators, NEW f \in Evaluators, e # f,
         Schedule(f) \/ Evaluating(f) \/ EvaluatorDies(f)
  PROVE  /\ task'[e] = task[e] /\ Told(e)' = Told(e)
         /\ evaluation'[e] = evaluation[e] /\ gate' \in {gate, f} /\ alert \subseteq alert'
<1>1. task'[e] = task[e]
  BY DEF Sane, GateTypeOK, Schedule, Evaluating, ReadRun, ReadPolicy, ReadRows, Synced, SyncRetry,
         SyncGivesUp, Attach, EvaluatorDies, GoOn, End
<1>2. checks' = checks \/ \E phase \in {"queued", "completed"} : checks' = checks \cup {CheckRun(f, phase)}
  BY DEF Schedule, Evaluating, ReadRun, ReadPolicy, ReadRows, Synced, SyncRetry,
         SyncGivesUp, SyncFails, Attach, EvaluatorDies
<1>3. Told(e)' = Told(e)
  BY <1>2 DEF Told, CheckRun
<1>4. evaluation'[e] = evaluation[e] /\ gate' \in {gate, f} /\ alert \subseteq alert'
  BY DEF Sane, GateTypeOK, Schedule, Evaluating, ReadRun, ReadPolicy, ReadRows, Synced, SyncRetry,
         SyncGivesUp, Attach, EvaluatorDies
<1> QED
  BY <1>1, <1>3, <1>4

LEMMA OthersStoreNothing ==
  ASSUME \/ Turn \/ EditPolicy \/ UNCHANGED gateVars
         \/ \E r \in Readers : Reading(r)
  PROVE  UNCHANGED <<source, github, gate, evaluation, checks, alert, task>>
  BY DEF Turn, EditPolicy, gateVars, facts, Reading, AskRun, FindEvaluation, AskPolicy, AskRows

(* A task that has stored its evaluation is over.                          *)
LEMMA DoneStaysDone ==
  ASSUME Sane, [GateNext]_gateVars, NEW e \in Evaluators, task[e].pc = "done"
  PROVE  task'[e].pc = "done"
<1>1. ASSUME NEW f \in Evaluators, Schedule(f) \/ Evaluating(f) \/ EvaluatorDies(f)
      PROVE  task'[e].pc = "done"
  <2>1. f # e
    BY <1>1 DEF Schedule, Evaluating, ReadRun, ReadPolicy, ReadRows, Synced, SyncRetry,
                SyncGivesUp, SyncFails, Attach, EvaluatorDies
  <2> QED
    BY <1>1, <2>1, OthersKeepOff
<1> QED
  BY <1>1, OthersStoreNothing DEF GateNext

LEMMA OnceInductive == GateInit /\ [][GateNext]_gateVars => []Once
<1>1. GateInit => Once
  BY GateAssumption DEF GateInit, Once, OneEvaluation
<1>2. Sane /\ Once /\ [GateNext]_gateVars => Once'
  <2> SUFFICES ASSUME Sane, Once, [GateNext]_gateVars PROVE Once'
    OBVIOUS
  <2>1. \A e \in Evaluators : task[e].pc = "done" => task'[e].pc = "done"
    BY DoneStaysDone
  <2>2. CASE UNCHANGED <<gate, evaluation>>
    BY <2>1, <2>2 DEF Once, OneEvaluation
  <2>3. ASSUME NEW e \in Evaluators, Attach(e), ~UNCHANGED <<gate, evaluation>>
        PROVE  Once'
    <3>1. /\ gate = None /\ gate' = e /\ evaluation' = [evaluation EXCEPT ![e] = Evaluation(e)]
          /\ task[e].pc = "attach"
      BY <2>3 DEF Attach
    <3>2. Evaluation(e) # None
      BY <3>1, EvaluationTyped, GateAssumption DEF Sane, ReadWell
    <3>3. task'[e].pc = "done"
      BY <2>3 DEF Attach, End, NewTask, Sane, GateTypeOK
    <3>4. \A f \in Evaluators : evaluation[f] = None
      BY <3>1, GateAssumption DEF Once, OneEvaluation
    <3> QED
      BY <3>1, <3>2, <3>3, <3>4 DEF Once, OneEvaluation, Sane, GateTypeOK
  <2> QED
    BY <2>2, <2>3, OnlyAttachStores
<1> QED
  BY <1>1, <1>2, SaneInductive, PTL

-----------------------------------------------------------------------------
(* What an evaluation says *)

Judges(v) ==
  /\ source # "agent" /\ ~Partial(v.report) /\ ~PerfMissing(v.report)
  /\ v.result = Result(v.policy, v.report)
WellEvaluated == \A e \in Evaluators : evaluation[e] # None => Judges(evaluation[e])

LEMMA WellEvaluatedInductive == GateInit /\ [][GateNext]_gateVars => []WellEvaluated
<1>1. GateInit => WellEvaluated
  BY DEF GateInit, WellEvaluated
<1>2. Sane /\ WellEvaluated /\ [GateNext]_gateVars => WellEvaluated'
  <2> SUFFICES ASSUME Sane, WellEvaluated, [GateNext]_gateVars,
                      NEW e \in Evaluators, evaluation'[e] # None
               PROVE  Judges(evaluation[e])'
    BY DEF WellEvaluated
  <2>1. CASE evaluation'[e] = evaluation[e]
    BY <2>1, OnlyAttachStores DEF WellEvaluated, Judges, Partial, PerfMissing, Measured, Result
  <2>2. CASE evaluation'[e] # evaluation[e]
    <3>1. Attach(e)
      BY <2>2, OnlyAttachStores DEF Attach, Sane, GateTypeOK
    <3>2. evaluation'[e] = Evaluation(e) /\ task[e].pc = "attach"
      BY <2>2, <3>1 DEF Attach, Sane, GateTypeOK
    <3>3. /\ source # "agent"
          /\ ~Partial(task[e].view.report) /\ ~PerfMissing(task[e].view.report)
      BY <3>2 DEF Sane, ReadWell
    <3>4. Judges(evaluation'[e])
      BY <3>2, <3>3 DEF Judges, Evaluation, Judged
    <3> QED
      BY <3>4, OnlyAttachStores DEF Judges, Partial, PerfMissing, Measured, Result, RateMet
  <2> QED
    BY <2>1, <2>2
<1> QED
  BY <1>1, <1>2, SaneInductive, PTL

(* What is judged of a performance run is marked as a load: its task is    *)
(* scheduled behind the summary of the worker, and the run moves no more.  *)
Marked(e) ==
  source = "perf" =>
    /\ task[e].pc # "idle" => runStatus # "open" /\ (runStatus = "terminal" => report.perf)
    /\ task[e].pc \in {"policy", "rows", "sync", "attach"} => task[e].view.report.perf
    /\ evaluation[e] # None => evaluation[e].report.perf

(* A step of the task itself                                               *)
LEMMA OwnStepMarks ==
  ASSUME Sane, NEW e \in Evaluators, Marked(e), Schedule(e) \/ Evaluating(e) \/ EvaluatorDies(e)
  PROVE  Marked(e)'
<1>1. UNCHANGED facts /\ DOMAIN task = Evaluators /\ DOMAIN evaluation = Evaluators
  BY DEF Schedule, Evaluating, ReadRun, ReadPolicy, ReadRows, Synced, SyncRetry, SyncGivesUp,
         Attach, EvaluatorDies, Sane, GateTypeOK
<1>2. /\ task[e] \in TaskState /\ task[e].view \in View /\ task[e].view.report \in Report
      /\ report \in Report
  BY DEF Sane, GateTypeOK, TaskState, View
<1>3. ASSUME NEW p \in {"done", "dead"}, End(e, p), UNCHANGED evaluation, task[e].pc # "idle"
      PROVE  Marked(e)'
  BY <1>1, <1>3 DEF End, NewTask, Marked, facts
<1> USE <1>1 DEF Marked, facts
<1>4. CASE Schedule(e)
  BY <1>4 DEF Schedule, GoOn
<1>5. CASE ReadRun(e)
  <2>1. RunRead.report.perf = report.perf
    BY <1>2 DEF RunRead, NoView, Report
  <2>2. CASE End(e, "done")
    BY <1>5, <1>3, <2>2 DEF ReadRun
  <2>3. CASE task' = [task EXCEPT ![e].pc = "policy", ![e].view = RunRead] /\ runStatus = "terminal"
    <3>1. task'[e].pc = "policy" /\ task'[e].view = RunRead
      BY <1>2, <2>3 DEF TaskState
    <3> QED
      BY <1>5, <2>1, <2>3, <3>1 DEF ReadRun
  <2> QED
    BY <1>5, <2>2, <2>3 DEF ReadRun
<1>6. CASE ReadPolicy(e)
  <2>1. CASE End(e, "done")
    BY <1>6, <1>3, <2>1 DEF ReadPolicy
  <2>2. CASE task' = [task EXCEPT ![e].pc = "rows", ![e].view.policy = policy]
    <3>1. task'[e].pc = "rows" /\ task'[e].view.report = task[e].view.report
      BY <1>2, <2>2 DEF TaskState, View
    <3> QED
      BY <1>6, <3>1 DEF ReadPolicy
  <2> QED
    BY <1>6, <2>1, <2>2 DEF ReadPolicy
<1>7. CASE ReadRows(e)
  <2>1. CASE End(e, "done")
    BY <1>7, <1>3, <2>1 DEF ReadRows
  <2>2. CASE task' = [task EXCEPT ![e].pc = "sync", ![e].view = RowsRead(task[e].view)]
    <3>1. task'[e].pc = "sync" /\ task'[e].view = RowsRead(task[e].view)
      BY <1>2, <2>2 DEF TaskState
    <3>2. RowsRead(task[e].view).report.perf = task[e].view.report.perf
      BY <1>2 DEF RowsRead, View, Report
    <3> QED
      BY <1>7, <3>1, <3>2 DEF ReadRows
  <2> QED
    BY <1>7, <2>1, <2>2 DEF ReadRows
<1>8. CASE Synced(e) \/ SyncRetry(e) \/ SyncGivesUp(e)
  <2>1. task'[e].pc \in {"sync", "attach"} /\ task'[e].view = task[e].view /\ task[e].pc = "sync"
    BY <1>8, <1>2 DEF Synced, SyncRetry, SyncGivesUp, SyncFails, TaskState
  <2> QED
    BY <1>8, <2>1 DEF Synced, SyncRetry, SyncGivesUp
<1>9. CASE Attach(e)
  BY <1>9 DEF Attach, Evaluation, End, NewTask
<1>10. CASE EvaluatorDies(e)
  BY <1>10, <1>3 DEF EvaluatorDies
<1> QED
  BY <1>4, <1>5, <1>6, <1>7, <1>8, <1>9, <1>10 DEF Evaluating

LEMMA MarkedInductive == GateInit /\ [][GateNext]_gateVars => []\A e \in Evaluators : Marked(e)
<1> DEFINE AllMarked == \A e \in Evaluators : Marked(e)
<1>1. GateInit => AllMarked
  BY DEF GateInit, NewTask, Marked
<1>2. Sane /\ AllMarked /\ [GateNext]_gateVars => AllMarked'
  <2> SUFFICES ASSUME Sane, AllMarked, [GateNext]_gateVars, NEW e \in Evaluators PROVE Marked(e)'
    OBVIOUS
  <2>1. CASE Turn
    BY <2>1 DEF Turn, Marked
  <2>2. CASE EditPolicy \/ UNCHANGED gateVars \/ \E r \in Readers : Reading(r)
    BY <2>2 DEF EditPolicy, gateVars, facts, Reading, AskRun, FindEvaluation, AskPolicy, AskRows, Marked
  <2>3. ASSUME NEW f \in Evaluators, Schedule(f) \/ Evaluating(f) \/ EvaluatorDies(f)
        PROVE  Marked(e)'
    <3>1. UNCHANGED facts
      BY <2>3 DEF Schedule, Evaluating, ReadRun, ReadPolicy, ReadRows, Synced, SyncRetry, SyncGivesUp,
                  Attach, EvaluatorDies
    <3>2. f # e => task'[e] = task[e] /\ evaluation'[e] = evaluation[e]
      BY <2>3, OthersKeepOff
    <3> QED
      BY <2>3, <3>1, <3>2, OwnStepMarks DEF facts, Marked
  <2> QED
    BY <2>1, <2>2, <2>3 DEF GateNext
<1> QED
  BY <1>1, <1>2, SaneInductive, PTL

(* The rule of the pass rate, written with what may fail.                  *)
LEMMA RateMetTolerates ==
  ASSUME NEW passed \in Nat, NEW total \in Nat, NEW rate \in Nat, passed * 100 >= rate * total
  PROVE  100 * (total - passed) <= (100 - rate) * total
<1>1. 100 * (total - passed) = 100 * total - 100 * passed
  OBVIOUS
<1>2. (100 - rate) * total = 100 * total - rate * total
  OBVIOUS
<1>3. rate * total \in Nat
  OBVIOUS
<1> QED
  BY <1>1, <1>2, <1>3

LEMMA PassIsEarned ==
  GateTypeOK /\ WellEvaluated /\ (\A e \in Evaluators : Marked(e)) => PassEarned
<1> SUFFICES ASSUME GateTypeOK, WellEvaluated, \A x \in Evaluators : Marked(x),
                    NEW e \in Evaluators, evaluation[e] # None, evaluation[e].result = "pass"
             PROVE  LET s == evaluation[e].report  p == evaluation[e].policy
                    IN  /\ source # "agent" /\ p \in Policies
                        /\ ~s.partial /\ ~s.rows.gaps
                        /\ s.rows.total > 0 => 100 * (s.rows.total - s.rows.passed) <= (100 - p.rate) * s.rows.total
                        /\ s.rows.total = 0 => p.rate = 0
                        /\ ~\E m \in Measured(s) : s.metrics[m] > p.limit[m]
                        /\ source = "perf" => Measured(s) # {}
  BY DEF PassEarned
<1> DEFINE s == evaluation[e].report
           p == evaluation[e].policy
<1>1. s \in Report /\ p \in Policies /\ p \in [mode : Modes, rate : Nat, limit : [Metrics -> Nat]]
  BY GateAssumption DEF GateTypeOK, GateEvaluation
<1>2. Result(p, s) = "pass" /\ source # "agent" /\ ~Partial(s) /\ ~PerfMissing(s)
  BY DEF WellEvaluated, Judges
<1>3. RateMet(s.rows, p.rate) /\ \A m \in Measured(s) : s.metrics[m] <= p.limit[m]
  BY <1>2 DEF Result
<1>4. /\ s.rows.passed \in Nat /\ s.rows.total \in Nat /\ p.rate \in Nat
      /\ \A m \in Measured(s) : s.metrics[m] \in Nat /\ p.limit[m] \in Nat
  BY <1>1 DEF Report, Measured
<1>5. source = "perf" => s.perf
  BY DEF Marked
<1> HIDE DEF s, p
<1>6. s.rows.total > 0 => 100 * (s.rows.total - s.rows.passed) <= (100 - p.rate) * s.rows.total
  BY <1>3, <1>4, RateMetTolerates DEF RateMet
<1>7. s.rows.total = 0 => p.rate = 0
  BY <1>3 DEF RateMet
<1>8. ~\E m \in Measured(s) : s.metrics[m] > p.limit[m]
  BY <1>3, <1>4
<1>9. ~s.partial /\ ~s.rows.gaps /\ (source = "perf" => Measured(s) # {})
  BY <1>2, <1>5 DEF Partial, PerfMissing
<1> QED
  BY <1>1, <1>2, <1>6, <1>7, <1>8, <1>9 DEF s, p

-----------------------------------------------------------------------------
(* What GitHub is told *)

(* Until a task writes to GitHub there is no verdict of its own there, and *)
(* what it has written since is the verdict that it is about to store.     *)
ToldWhileJudging(e) ==
  /\ task[e].pc \in {"idle", "run", "policy", "rows"} => Told(e) = {}
  /\ task[e].pc \in {"sync", "attach"} =>
       \A c \in Told(e) : c.conclusion = Conclusion(task[e].view.policy, Judged(e))
  /\ task[e].pc = "attach" => task[e].sync = "failed" \/ (github => Told(e) # {})
ToldForGood(e) ==
  gate = e =>
    /\ evaluation[e].sync = "failed" => e \in alert
    /\ evaluation[e].sync # "failed" /\ github => Told(e) # {}
    /\ \A c \in Told(e) : c.conclusion = Conclusion(evaluation[e].policy, evaluation[e].result)
ToldTheResult == \A e \in Evaluators : ToldWhileJudging(e) /\ ToldForGood(e)

LEMMA ToldUnchanged ==
  ASSUME NEW e, ToldWhileJudging(e), ToldForGood(e), UNCHANGED <<github, Told(e)>>,
         task'[e] = task[e], evaluation'[e] = evaluation[e], gate' = e => gate = e,
         alert \subseteq alert'
  PROVE  (ToldWhileJudging(e) /\ ToldForGood(e))'
<1>1. Judged(e)' = Judged(e)
  BY DEF Judged, Result, RateMet, Measured
<1> QED
  BY <1>1 DEF ToldWhileJudging, ToldForGood, Conclusion

LEMMA ToldInductive == GateInit /\ [][GateNext]_gateVars => []ToldTheResult
<1>1. GateInit => ToldTheResult
  BY GateAssumption DEF GateInit, ToldTheResult, ToldWhileJudging, ToldForGood, Told, NewTask
<1>2. Sane /\ Once /\ ToldTheResult /\ [GateNext]_gateVars => ToldTheResult'
  <2> SUFFICES ASSUME Sane, Once, ToldTheResult, [GateNext]_gateVars, NEW e \in Evaluators
               PROVE  (ToldWhileJudging(e) /\ ToldForGood(e))'
    BY DEF ToldTheResult
  <2>1. ToldWhileJudging(e) /\ ToldForGood(e) /\ UNCHANGED <<source, github>>
    BY OnlyAttachStores DEF ToldTheResult
  <2>2. CASE \/ Turn \/ EditPolicy \/ UNCHANGED gateVars
             \/ \E r \in Readers : Reading(r)
    BY <2>1, <2>2, OthersStoreNothing, ToldUnchanged DEF Told
  <2>3. ASSUME NEW f \in Evaluators, f # e, Schedule(f) \/ Evaluating(f) \/ EvaluatorDies(f)
        PROVE  (ToldWhileJudging(e) /\ ToldForGood(e))'
    <3>1. gate' = e => gate = e
      BY <2>3, OthersKeepOff
    <3> QED
      BY <2>1, <2>3, <3>1, OthersKeepOff, ToldUnchanged
  <2>4. CASE Schedule(e) \/ Evaluating(e) \/ EvaluatorDies(e)
    <3>1. gate # e
      <4>1. task[e].pc # "done"
        BY <2>4 DEF Schedule, Evaluating, ReadRun, ReadPolicy, ReadRows, Synced, SyncRetry,
                    SyncGivesUp, SyncFails, Attach, EvaluatorDies
      <4> QED
        BY <4>1 DEF Once, OneEvaluation
    <3>2. ASSUME gate' = gate, NEW u, task'[e] = u,
                 u.pc \in {"done", "dead"} \/ (u.pc \in {"run", "policy", "rows", "sync"} /\ Told(e)' = {})
          PROVE  (ToldWhileJudging(e) /\ ToldForGood(e))'
      BY <3>1, <3>2 DEF ToldWhileJudging, ToldForGood
    <3>3. CASE Schedule(e) \/ ReadRun(e) \/ ReadPolicy(e) \/ ReadRows(e) \/ EvaluatorDies(e)
      <4>1. gate' = gate /\ Told(e)' = Told(e)
        BY <3>3 DEF Schedule, ReadRun, ReadPolicy, ReadRows, EvaluatorDies, Told
      <4>2. \/ task'[e].pc \in {"done", "dead"}
            \/ /\ task'[e].pc \in {"run", "policy", "rows", "sync"}
               /\ task[e].pc \in {"idle", "run", "policy", "rows"}
        BY <3>3 DEF Schedule, ReadRun, ReadPolicy, ReadRows, EvaluatorDies, GoOn, End, NewTask,
                    Sane, GateTypeOK, TaskState
      <4> QED
        BY <2>1, <3>2, <4>1, <4>2 DEF ToldWhileJudging
    <3>4. CASE Synced(e) \/ SyncRetry(e) \/ SyncGivesUp(e)
      <4>1. /\ gate' = gate /\ task[e].pc = "sync" /\ task'[e].view = task[e].view
            /\ task'[e].pc \in {"sync", "attach"}
        BY <3>4 DEF Synced, SyncRetry, SyncGivesUp, SyncFails, Sane, GateTypeOK, TaskState
      <4>2. CheckRun(e, "completed").conclusion = Conclusion(task[e].view.policy, Judged(e))
        BY DEF CheckRun
      <4>3. Told(e)' \subseteq Told(e) \cup {CheckRun(e, "completed")}
        BY <3>4 DEF Synced, SyncRetry, SyncGivesUp, SyncFails, Told, CheckRun
      <4>4. \A c \in Told(e)' : c.conclusion = Conclusion(task[e].view.policy, Judged(e))
        BY <2>1, <4>1, <4>2, <4>3 DEF ToldWhileJudging
      <4>5. task'[e].pc = "attach" => task'[e].sync = "failed" \/ (github => Told(e)' # {})
        <5>1. CASE Synced(e) /\ github
          <6>1. CheckRun(e, "completed") \in Told(e)'
            BY <5>1, <4>2, JudgedTyped, GateAssumption DEF Synced, Told, CheckRun, Judged
          <6> QED
            BY <6>1
        <5>2. CASE ~(Synced(e) /\ github)
          BY <3>4, <4>1, <5>2 DEF SyncRetry, SyncGivesUp, Sane, GateTypeOK, TaskState
        <5> QED
          BY <5>1, <5>2
      <4>6. Conclusion(task[e].view.policy, Judged(e))' = Conclusion(task[e].view.policy, Judged(e))
        BY <4>1 DEF Judged, Conclusion, Result, RateMet, Measured
      <4> QED
        BY <2>1, <3>1, <4>1, <4>4, <4>5, <4>6 DEF ToldWhileJudging, ToldForGood
    <3>5. CASE Attach(e)
      <4>1. task[e].pc = "attach" /\ task'[e].pc = "done" /\ Told(e)' = Told(e)
        BY <3>5 DEF Attach, End, NewTask, Sane, GateTypeOK, Told
      <4>2. CASE gate # None
        BY <3>1, <3>2, <3>5, <4>1, <4>2 DEF Attach
      <4>3. CASE gate = None
        <5>1. /\ gate' = e /\ evaluation'[e] = Evaluation(e)
              /\ task[e].sync = "failed" => e \in alert'
          BY <3>5, <4>3 DEF Attach, Sane, GateTypeOK
        <5>2. /\ Evaluation(e).sync = task[e].sync /\ Evaluation(e).result = Judged(e)
              /\ Evaluation(e).policy = task[e].view.policy
          BY DEF Evaluation
        <5>3. Conclusion(evaluation[e].policy, evaluation[e].result)'
                = Conclusion(task[e].view.policy, Judged(e))
          BY <5>1, <5>2 DEF Conclusion
        <5> QED
          BY <2>1, <4>1, <5>1, <5>2, <5>3 DEF ToldWhileJudging, ToldForGood
      <4> QED
        BY <4>2, <4>3
    <3> QED
      BY <2>4, <3>3, <3>4, <3>5 DEF Evaluating
  <2> QED
    BY <2>2, <2>3, <2>4 DEF GateNext
<1> QED
  BY <1>1, <1>2, SaneInductive, OnceInductive, PTL

LEMMA ToldIsNotSilent == GateTypeOK /\ ToldTheResult => NeverSilent
  BY DEF GateTypeOK, ToldTheResult, ToldForGood, Told, NeverSilent

-----------------------------------------------------------------------------
(* What a reader is told *)

(* What a reader has read holds for as long as it reads, the policy and    *)
(* the results apart: an evaluation it has seen stays the run's.           *)
ReadInOrder(x) ==
  /\ x.pc \in {"find", "policy", "rows"} => x.view.gate \in {None, gate}
  /\ x.pc \in {"find", "policy"} => x.view.policy = None
  /\ x.pc \in {"policy", "rows"} => source # "agent" /\ x.view.status = "terminal"
  /\ x.pc = "rows" => x.view.policy # None
  /\ x.pc = "done" =>
       /\ x.answer # "state"
       /\ x.answer \in Evaluators => gate = x.answer
       /\ x.answer \in Reasons \ {"not_terminal"} => ~Evaluable(x.view)
       /\ x.answer = "not_terminal" => x.view.status = "open" \/ Evaluable(x.view)
AllReadInOrder == \A r \in Readers : ReadInOrder(reader[r])

(* The gate of the run, once set, stays.                                   *)
LEMMA GateStays ==
  ASSUME [GateNext]_gateVars
  PROVE  gate # None => gate' = gate
  BY OnlyAttachStores DEF Attach

LEMMA ReadInOrderInductive == GateInit /\ [][GateNext]_gateVars => []AllReadInOrder
<1>1. GateInit => AllReadInOrder
  BY DEF GateInit, AllReadInOrder, ReadInOrder, NewReader
<1>2. Sane /\ Once /\ AllReadInOrder /\ [GateNext]_gateVars => AllReadInOrder'
  <2> SUFFICES ASSUME Sane, Once, AllReadInOrder, [GateNext]_gateVars, NEW q \in Readers
               PROVE  ReadInOrder(reader[q])'
    BY DEF AllReadInOrder
  <2>1. ReadInOrder(reader[q]) /\ reader[q] \in ReaderState /\ reader[q].view \in View
    BY DEF AllReadInOrder, Sane, GateTypeOK, ReaderState
  <2>2. CASE reader'[q] = reader[q]
    <3>1. UNCHANGED source /\ (gate # None => gate' = gate)
      BY GateStays, OnlyAttachStores
    <3>2. Evaluable(reader[q].view)' = Evaluable(reader[q].view)
      BY <2>2, <3>1 DEF Evaluable, Partial, PerfMissing, Measured
    <3>3. None \notin Evaluators
      BY GateAssumption
    <3> QED
      BY <2>1, <2>2, <3>1, <3>2, <3>3 DEF ReadInOrder
  <2>3. ASSUME reader'[q] # reader[q]
        PROVE  ReadInOrder(reader[q])'
    <3>1. Reading(q) /\ UNCHANGED <<facts, gate, evaluation>>
      <4>1. ASSUME NEW e \in Evaluators, Schedule(e) \/ Evaluating(e) \/ EvaluatorDies(e)
            PROVE  reader' = reader
        BY <4>1 DEF Schedule, Evaluating, ReadRun, ReadPolicy, ReadRows, Synced, SyncRetry,
                    SyncGivesUp, Attach, EvaluatorDies
      <4>2. Turn \/ EditPolicy \/ UNCHANGED gateVars => reader' = reader
        BY DEF Turn, EditPolicy, gateVars
      <4>3. PICK r \in Readers : Reading(r)
        BY <2>3, <4>1, <4>2 DEF GateNext
      <4>4. r = q
        BY <2>3, <4>3 DEF Reading, AskRun, FindEvaluation, AskPolicy, AskRows, Answer, Sane, GateTypeOK
      <4> QED
        BY <4>3, <4>4 DEF Reading, AskRun, FindEvaluation, AskPolicy, AskRows
    <3>2. SUFFICES ReadInOrder(reader'[q])
      BY <3>1 DEF ReadInOrder, Evaluable, Partial, PerfMissing, Measured, facts
    <3>3. ASSUME NEW answer \in Evaluators \cup Reasons, Answer(q, answer),
                 answer \in Evaluators => gate = answer,
                 answer \in Reasons \ {"not_terminal"} => ~Evaluable(reader[q].view),
                 answer = "not_terminal" => reader[q].view.status = "open"
          PROVE  ReadInOrder(reader'[q])
      <4>1. reader'[q] = [reader[q] EXCEPT !.pc = "done", !.answer = answer]
        BY <3>3 DEF Answer, Sane, GateTypeOK
      <4>2. /\ reader'[q].pc = "done" /\ reader'[q].answer = answer
            /\ reader'[q].view = reader[q].view
        BY <2>1, <4>1 DEF ReaderState
      <4>3. answer # "state"
        BY GateAssumption DEF Reasons
      <4> QED
        BY <3>3, <4>2, <4>3 DEF ReadInOrder
    <3>4. CASE AskRun(q)
      <4>1. reader'[q].pc = "find" /\ reader'[q].view = RunRead
        BY <3>4 DEF AskRun, Sane, GateTypeOK, ReaderState
      <4>2. RunRead.gate = gate /\ RunRead.policy = None
        BY DEF RunRead, NoView
      <4> QED
        BY <4>1, <4>2 DEF ReadInOrder
    <3>5. CASE FindEvaluation(q)
      <4>1. reader[q].view.gate \in {None, gate} /\ reader[q].view.policy = None
        BY <2>1, <3>5 DEF FindEvaluation, ReadInOrder
      <4>2. ASSUME NEW e \in Evaluators, evaluation[e] # None, Answer(q, e)
            PROVE  ReadInOrder(reader'[q])
        <5>1. gate = e /\ e \notin Reasons
          BY <4>2, GateAssumption DEF Once, OneEvaluation
        <5>2. e # "not_terminal"
          BY <5>1 DEF Reasons
        <5> QED
          BY <3>3, <4>2, <5>1, <5>2
      <4>3. ASSUME ~\E e \in Evaluators : evaluation[e] # None
            PROVE  reader[q].view.gate = None
        BY <4>1, <4>3 DEF Once, OneEvaluation, Sane, GateTypeOK
      <4>4. \A word \in Reasons : word \notin Evaluators
        BY GateAssumption
      <4>5. CASE source = "agent" /\ Answer(q, "agent_source")
        BY <3>3, <4>4, <4>5 DEF Reasons, Evaluable
      <4>6. CASE reader[q].view.status = "skipped" /\ Answer(q, "cancelled_or_timeout")
        BY <3>3, <4>4, <4>6 DEF Reasons, Evaluable
      <4>7. CASE reader[q].view.status = "open" /\ Answer(q, "not_terminal")
        BY <3>3, <4>4, <4>7 DEF Reasons
      <4>8. CASE /\ source # "agent" /\ reader[q].view.status = "terminal"
                 /\ reader' = [reader EXCEPT ![q].pc = "policy"]
        <5>1. reader'[q].pc = "policy" /\ reader'[q].view = reader[q].view
          BY <2>1, <4>8 DEF Sane, GateTypeOK, ReaderState
        <5> QED
          BY <4>1, <4>8, <5>1 DEF ReadInOrder
      <4> QED
        BY <3>5, <4>2, <4>3, <4>5, <4>6, <4>7, <4>8 DEF FindEvaluation
    <3>6. CASE AskPolicy(q)
      <4>1. /\ reader[q].view.gate \in {None, gate} /\ reader[q].view.policy = None
            /\ source # "agent" /\ reader[q].view.status = "terminal"
        BY <2>1, <3>6 DEF AskPolicy, ReadInOrder
      <4>2. CASE policy = None
        <5>1. "policy_unmet" \in Reasons /\ "policy_unmet" \notin Evaluators
          BY GateAssumption DEF Reasons
        <5>2. ~Evaluable(reader[q].view)
          BY <4>1 DEF Evaluable
        <5> QED
          BY <3>3, <3>6, <4>2, <5>1, <5>2 DEF AskPolicy
      <4>3. CASE policy # None
        <5>1. reader'[q] = [reader[q] EXCEPT !.pc = "rows", !.view.policy = policy]
          BY <3>6, <4>3 DEF AskPolicy, Sane, GateTypeOK
        <5>2. /\ reader'[q].pc = "rows" /\ reader'[q].view.gate = reader[q].view.gate
              /\ reader'[q].view.status = reader[q].view.status /\ reader'[q].view.policy = policy
          BY <2>1, <5>1 DEF ReaderState, View
        <5> QED
          BY <4>1, <4>3, <5>2 DEF ReadInOrder
      <4> QED
        BY <4>2, <4>3
    <3>7. CASE AskRows(q)
      <4> DEFINE seen == RowsRead(reader[q].view)
                 reason == IF Partial(seen.report) THEN "partial_report"
                           ELSE IF PerfMissing(seen.report) THEN "perf_report_missing"
                           ELSE "not_terminal"
      <4>1. seen.status = "terminal" /\ seen.policy # None /\ source # "agent"
        BY <2>1, <3>7, RowsReadTyped DEF AskRows, ReadInOrder, Sane
      <4>2. reader'[q] = [pc |-> "done", view |-> seen, answer |-> reason]
        BY <3>7 DEF AskRows, Sane, GateTypeOK
      <4>3. reason \in Reasons /\ reason \notin Evaluators /\ reason # "state"
        BY GateAssumption DEF Reasons
      <4>4. Evaluable(seen) <=> ~Partial(seen.report) /\ ~PerfMissing(seen.report)
        BY <4>1 DEF Evaluable
      <4>5. reason = "not_terminal" <=> Evaluable(seen)
        BY <4>4
      <4> HIDE DEF seen, reason
      <4> QED
        BY <4>2, <4>3, <4>5 DEF ReadInOrder
    <3> QED
      BY <3>1, <3>4, <3>5, <3>6, <3>7 DEF Reading
  <2> QED
    BY <2>2, <2>3
<1> QED
  BY <1>1, <1>2, SaneInductive, OnceInductive, PTL

LEMMA ReadersAreTold == AllReadInOrder => ReaderTold
  BY DEF AllReadInOrder, ReadInOrder, ReaderTold

-----------------------------------------------------------------------------
(* The theorems *)

(* Every variable of the gate keeps its type: at most three attempts to    *)
(* write the check run, and nothing is stored without a policy.            *)
THEOREM GateTypeCorrect == GateSpec => []GateTypeOK
<1>1. Sane => GateTypeOK
  BY DEF Sane
<1> QED
  BY <1>1, SaneInductive, PTL DEF GateSpec

(* However many tasks evaluate the run, one evaluation is stored, and it   *)
(* is the one that the run names (cas_attach_gate_evaluation).             *)
THEOREM OneEvaluationHolds == GateSpec => []OneEvaluation
<1>1. Once => OneEvaluation
  BY DEF Once
<1> QED
  BY <1>1, OnceInductive, PTL DEF GateSpec

(* No stored pass is a default: the report was whole, enough cases passed, *)
(* and every metric that counts was measured and within its limit.         *)
THEOREM PassEarnedHolds == GateSpec => []PassEarned
  BY SaneInductive, WellEvaluatedInductive, MarkedInductive, PassIsEarned, PTL DEF GateSpec, Sane

(* The run's evaluation has its conclusion on GitHub, or an alert, after   *)
(* any number of failed and lost requests (sync_check_run_stub).           *)
THEOREM NeverSilentHolds == GateSpec => []NeverSilent
  BY SaneInductive, ToldInductive, ToldIsNotSilent, PTL DEF GateSpec, Sane

(* No reader finds a run that names an evaluation nobody can show, and the *)
(* reason it is told follows from what it has read, however the run and    *)
(* the policy change meanwhile (unevaluated_reason_for_run).               *)
THEOREM ReaderToldHolds == GateSpec => []ReaderTold
  BY ReadInOrderInductive, ReadersAreTold, PTL DEF GateSpec

(* A verdict is final: once the run has an evaluation, neither it nor what *)
(* its task has told GitHub changes any more.                              *)
VerdictFinal == gate # None => UNCHANGED <<gate, evaluation, Told(gate)>>
THEOREM VerdictFinalHolds == GateSpec => [][VerdictFinal]_gateVars
<1>1. Sane /\ Once /\ [GateNext]_gateVars => [VerdictFinal]_gateVars
  <2> SUFFICES ASSUME Sane, Once, [GateNext]_gateVars, gate # None
               PROVE  UNCHANGED <<gate, evaluation, Told(gate)>>
    BY DEF VerdictFinal
  <2>1. UNCHANGED <<gate, evaluation>>
    BY OnlyAttachStores DEF Attach
  <2>2. gate \in Evaluators /\ task[gate].pc = "done"
    BY DEF Once, OneEvaluation, Sane, GateTypeOK
  <2>3. ASSUME NEW f \in Evaluators, Schedule(f) \/ Evaluating(f) \/ EvaluatorDies(f)
        PROVE  {c \in checks' : c.by = gate /\ c.conclusion # None} = Told(gate)
    <3>1. f # gate
      BY <2>2, <2>3 DEF Schedule, Evaluating, ReadRun, ReadPolicy, ReadRows, Synced, SyncRetry,
                        SyncGivesUp, SyncFails, Attach, EvaluatorDies
    <3>2. checks' = checks \/ \E phase \in {"queued", "completed"} : checks' = checks \cup {CheckRun(f, phase)}
      BY <2>3 DEF Schedule, Evaluating, ReadRun, ReadPolicy, ReadRows, Synced, SyncRetry,
                  SyncGivesUp, SyncFails, Attach, EvaluatorDies
    <3> QED
      BY <3>1, <3>2 DEF Told, CheckRun
  <2> QED
    BY <2>1, <2>3, OthersStoreNothing DEF Told, GateNext
<1> QED
  BY <1>1, SaneInductive, OnceInductive, PTL DEF GateSpec
=============================================================================
