--------------------------- MODULE CommandsProof ---------------------------
(***************************************************************************)
(* Proofs about Commands, for any number of requests, keys and contents.   *)
(* Every handler ends in one of three ways (Ends); only what is lost by a  *)
(* race depends on more of it than that.                                   *)
(***************************************************************************)
EXTENDS Commands, TLAPS

ReqRecords ==
  [pc : {"new", "elsewhere", "sent", "read", "done"}, cmd : Commands \cup {"none"},
   key : Keys \cup {"none"}, arg : Args \cup {"none"}, role : Roles, seen : Nat, view : Nat, base : Rows \cup {NoRow},
   answer : Answers \cup {"none"}]

ReqType ==
  /\ req \in [Requests -> ReqRecords]
  /\ \A q \in Requests : req[q].pc \in {"sent", "read", "done"} =>
       req[q].cmd \in CommandsOf[kind] /\ req[q].key \in Keys /\ req[q].arg \in Args
  /\ \A q \in Requests : req[q].pc = "read" => req[q].base \in Rows
  /\ \A q \in Requests : req[q].pc = "done" => req[q].answer \in Answers

Entries == [by : Requests, cmd : CommandsOf[kind], key : Keys, arg : Args, seen : Nat, view : Nat,
            from : Nat]

Records ==
  [cmd : CommandsOf[kind], key : Keys, body : (Args \cup {"path"}) \X Roles \X Nat]

Typed ==
  /\ kind \in Kinds /\ row \in Rows /\ ReqType
  /\ idem \subseteq Records
  /\ log \in Seq(Entries)

Recorded(r) == \E p \in idem : p.cmd = r.cmd /\ p.key = r.key /\ p.body = Body(r)

(* A request that is answered without effect; what it is told is so, of    *)
(* its version only if the row is locked.                                  *)
Fails(q) ==
  \E answer \in Answers \ {"ok"} :
    /\ NoEffect(q, answer)
    /\ answer = "replayed" => Recorded(req[q])
    /\ answer = "key_conflict" => Prior(req[q]) # {} /\ ~Recorded(req[q])
    /\ answer = "version" /\ kind \in LockedKinds => ~Seen(q, row)
    /\ answer = "version" /\ kind \in LockFirstKinds => Prior(req[q]) = {}

Looks(q) ==
  /\ req[q].pc = "sent"
  /\ req' = [req EXCEPT ![q].pc = "read", ![q].base = row]
  /\ UNCHANGED <<kind, row, idem, log>>

(* A request that takes effect.  On a row that is locked it has compared   *)
(* its version with that of the row it changes.                            *)
Succeeds(q) ==
  \E base, new \in Rows :
    /\ Prior(req[q]) = {}
    /\ TakesEffect(q, base, new)
    /\ kind \in LockedKinds =>
         base = row /\ new.ver = row.ver + 1 /\ new.there = row.there /\ Seen(q, row)

Ends(q) ==
  /\ req[q].pc \in {"sent", "read"}
  /\ Fails(q) \/ Looks(q) \/ Succeeds(q)

-----------------------------------------------------------------------------
(* The commands of a row that is locked are those of three kinds.          *)
LEMMA LockedCommands ==
  ASSUME NEW k \in LockedKinds
  PROVE  CommandsOf[k] \subseteq
           {"plan.patch", "plan.put_case_ids", "plan.put_schedule", "policy.patch",
            "connector.patch", "connector.bind", "connector.channels"}
<1>1. CommandsOf["plan"] = {"plan.patch", "plan.put_case_ids", "plan.put_schedule"}
  BY DEF CommandsOf
<1>2. CommandsOf["policy"] = {"policy.patch"}
  BY DEF CommandsOf
<1>3. CommandsOf["connector"] = {"connector.patch", "connector.bind", "connector.channels"}
  BY DEF CommandsOf
<1> QED
  BY <1>1, <1>2, <1>3 DEF LockedKinds, LockFirstKinds

LEMMA LockFirstCommands ==
  ASSUME NEW k \in LockFirstKinds
  PROVE  CommandsOf[k] \subseteq
           {"plan.patch", "plan.put_case_ids", "plan.put_schedule", "policy.patch"}
<1>1. CommandsOf["plan"] = {"plan.patch", "plan.put_case_ids", "plan.put_schedule"}
  BY DEF CommandsOf
<1>2. CommandsOf["policy"] = {"policy.patch"}
  BY DEF CommandsOf
<1> QED
  BY <1>1, <1>2 DEF LockFirstKinds

(* Neither a token nor a row that is inserted is locked.                   *)
LEMMA LockedKindsCount == \A k \in LockedKinds : k \notin {"token", "collection"}
  BY DEF LockedKinds, LockFirstKinds

(* The row that is written is a row, whatever kind it is of.               *)
LEMMA CountedRow ==
  ASSUME NEW base \in Rows, NEW new \in Rows
  PROVE  /\ Counted(base, new) \in Rows
         /\ kind \in LockedKinds => /\ Counted(base, new).ver = base.ver + 1
                                    /\ Counted(base, new).there = new.there
<1>1. base.ver + 1 \in Nat
  BY DEF Rows
<1>2. [new EXCEPT !.ver = base.ver + 1] \in Rows
  BY <1>1 DEF Rows
<1>3. /\ [new EXCEPT !.ver = base.ver + 1].ver = base.ver + 1
      /\ [new EXCEPT !.ver = base.ver + 1].there = new.there
  BY DEF Rows
<1> QED
  BY <1>2, <1>3, LockedKindsCount DEF Counted

(* A replay changes nothing, and a conflict is told for another body only. *)
LEMMA ReplayEnds ==
  ASSUME NEW q \in Requests, Prior(req[q]) # {}, Replay(q)
  PROVE  Fails(q)
  BY DEF Replay, Fails, Recorded, Prior, Answers

(* Whoever compares, decides and writes ends well, if what he compares     *)
(* with is the locked row wherever there is one.                           *)
LEMMA DecideEnds ==
  ASSUME NEW q \in Requests, NEW base \in Rows, NEW new \in Rows, NEW ok,
         Decide(q, base, ok, new),
         kind \in LockedKinds => base = row /\ new.there = row.there,
         kind \in LockFirstKinds => Prior(req[q]) = {}
  PROVE  Fails(q) \/ Succeeds(q)
<1>1. CASE ~Seen(q, base)
  <2>1. NoEffect(q, "version")
    BY <1>1 DEF Decide
  <2>2. kind \in LockFirstKinds => base = row
    BY DEF LockedKinds
  <2> QED
    BY <1>1, <2>1, <2>2 DEF Fails, Answers
<1>2. CASE Seen(q, base) /\ ~ok
  <2>1. NoEffect(q, "refused")
    BY <1>2 DEF Decide
  <2> QED
    BY <2>1 DEF Fails, Answers
<1>3. CASE Seen(q, base) /\ ok
  <2>1. TakesEffect(q, base, Counted(base, new))
    BY <1>3 DEF Decide
  <2>2. CASE Prior(req[q]) # {}
    <3>1. NoEffect(q, "error")
      BY <2>1, <2>2 DEF TakesEffect
    <3> QED
      BY <3>1 DEF Fails, Answers
  <2>3. CASE Prior(req[q]) = {}
    BY <1>3, <2>1, <2>3, CountedRow DEF Succeeds
  <2> QED
    BY <2>2, <2>3
<1> QED
  BY <1>1, <1>2, <1>3

(* What the handlers do to a row leaves a row.                             *)
LEMMA RowPatches ==
  ASSUME NEW r \in Rows
  PROVE  /\ \A b \in BOOLEAN : [r EXCEPT !.flag = b] \in Rows /\ [r EXCEPT !.there = b] \in Rows
         /\ [r EXCEPT !.rev = @ + 1] \in Rows
         /\ \A b \in BOOLEAN : [r EXCEPT !.flag = b, !.rev = @ + 1] \in Rows
         /\ \A t \in SUBSET Args : [r EXCEPT !.tight = t] \in Rows
         /\ \A u \in Args, role \in Roles : [r EXCEPT !.roles[u] = role] \in Rows
         /\ [r EXCEPT !.there = TRUE, !.ver = 1] \in Rows
         /\ [r EXCEPT !.there = TRUE, !.rev = @ + 1, !.ver = 1] \in Rows
<1>1. \A b \in BOOLEAN : [r EXCEPT !.flag = b] \in Rows /\ [r EXCEPT !.there = b] \in Rows
  BY DEF Rows
<1>2. \A x \in Rows : [x EXCEPT !.rev = @ + 1] \in Rows /\ [x EXCEPT !.ver = 1] \in Rows
  BY DEF Rows
<1>3. ASSUME NEW b \in BOOLEAN PROVE [r EXCEPT !.flag = b, !.rev = @ + 1] \in Rows
  <2>1. [r EXCEPT !.flag = b, !.rev = @ + 1] = [[r EXCEPT !.flag = b] EXCEPT !.rev = @ + 1]
    OBVIOUS
  <2> QED
    BY <1>1, <1>2, <2>1
<1>4. \A t \in SUBSET Args : [r EXCEPT !.tight = t] \in Rows
  BY DEF Rows
<1>5. \A u \in Args, role \in Roles : [r EXCEPT !.roles[u] = role] \in Rows
  BY DEF Rows
<1>6. [r EXCEPT !.there = TRUE, !.ver = 1] \in Rows
  BY DEF Rows
<1>7. [r EXCEPT !.there = TRUE, !.rev = @ + 1, !.ver = 1] \in Rows
  <2>1. [r EXCEPT !.there = TRUE, !.rev = @ + 1, !.ver = 1]
          = [[[r EXCEPT !.there = TRUE] EXCEPT !.rev = @ + 1] EXCEPT !.ver = 1]
    OBVIOUS
  <2> QED
    BY <1>1, <1>2, <2>1
<1> QED
  BY <1>1, <1>2, <1>3, <1>4, <1>5, <1>6, <1>7

LEMMA LockFirstEnds ==
  ASSUME Typed, NEW q \in Requests, NEW cmd, NEW ok, NEW new \in Rows, new.there = row.there,
         LockFirst(q, cmd, ok, new)
  PROVE  Ends(q)
<1>1. CASE Prior(req[q]) # {}
  BY <1>1, ReplayEnds DEF LockFirst, Ends
<1>2. CASE Prior(req[q]) = {}
  <2>1. Decide(q, row, ok, new)
    BY <1>2 DEF LockFirst
  <2> QED
    BY <1>2, <2>1, DecideEnds DEF LockFirst, Ends, Typed
<1> QED
  BY <1>1, <1>2

(* Handlers that go on with their row locked, or with one nobody locks.    *)
LEMMA GoingEnds ==
  ASSUME Typed, NEW q \in Requests, NEW cmd, NEW base \in Rows, NEW ok, NEW new \in Rows,
         Going(q, cmd), Decide(q, base, ok, new),
         \/ cmd \in {"connector.patch", "connector.bind", "connector.channels"}
              /\ base = row /\ new.there = row.there
         \/ cmd \notin {"plan.patch", "plan.put_case_ids", "plan.put_schedule", "policy.patch",
                        "connector.patch", "connector.bind", "connector.channels"}
  PROVE  Ends(q)
<1>1. cmd \in CommandsOf[kind] /\ req[q].pc = "read"
  BY DEF Going, Typed, ReqType
<1>2. kind \notin LockFirstKinds
  BY <1>1, LockFirstCommands
<1>3. kind \in LockedKinds => base = row /\ new.there = row.there
  BY <1>1, LockedCommands
<1> QED
  BY <1>1, <1>2, <1>3, DecideEnds DEF Ends

(* A refusal by the database.                                              *)
LEMMA ErrorEnds ==
  ASSUME NEW q \in Requests, req[q].pc \in {"sent", "read"}, NoEffect(q, "error")
  PROVE  Ends(q)
  BY DEF Ends, Fails, Answers

(* Every handler ends well.                                                *)
LEMMA HandleEnds ==
  ASSUME Typed, NEW q \in Requests, Handle(q)
  PROVE  Ends(q)
<1> DEFINE base == req[q].base
<1>1. req[q].pc = "read" => base \in Rows /\ req[q].arg \in Args /\ req[q].role \in Roles
  BY DEF Typed, ReqType, ReqRecords
<1>2. row \in Rows
  BY DEF Typed
<1>3. /\ \A b \in BOOLEAN : [row EXCEPT !.flag = b] \in Rows /\ [row EXCEPT !.there = b] \in Rows
      /\ [row EXCEPT !.rev = @ + 1] \in Rows
      /\ \A b \in BOOLEAN : [row EXCEPT !.flag = b, !.rev = @ + 1] \in Rows
      /\ \A t \in SUBSET Args : [row EXCEPT !.tight = t] \in Rows
      /\ \A u \in Args, role \in Roles : [row EXCEPT !.roles[u] = role] \in Rows
      /\ [row EXCEPT !.there = TRUE, !.ver = 1] \in Rows
      /\ [row EXCEPT !.there = TRUE, !.rev = @ + 1, !.ver = 1] \in Rows
  BY <1>2, RowPatches
<1>4. /\ [row EXCEPT !.rev = @ + 1].there = row.there
      /\ \A b \in BOOLEAN : [row EXCEPT !.flag = b, !.rev = @ + 1].there = row.there
  BY <1>2 DEF Rows
<1>5. CASE PatchPlan(q) \/ PutCaseIds(q)
  BY <1>2, <1>5, LockFirstEnds DEF PatchPlan, PutCaseIds
<1>6. CASE PutSchedule(q)
  BY <1>2, <1>6, LockFirstEnds DEF PutSchedule
<1>7. CASE PatchPolicy(q)
  <2>1. PICK confirmed, content \in BOOLEAN :
          LockFirst(q, "policy.patch", confirmed, [row EXCEPT !.rev = IF content THEN @ + 1 ELSE @])
    BY <1>7 DEF PatchPolicy
  <2>2. /\ [row EXCEPT !.rev = IF content THEN @ + 1 ELSE @] \in Rows
        /\ [row EXCEPT !.rev = IF content THEN @ + 1 ELSE @].there = row.there
    BY <1>2 DEF Rows
  <2> QED
    BY <2>1, <2>2, LockFirstEnds
<1>8. CASE LookUp(q)
  <2>1. CASE Prior(req[q]) # {}
    BY <1>8, <2>1, ReplayEnds DEF LookUp, Ends
  <2>2. CASE Prior(req[q]) = {}
    BY <1>8, <2>2 DEF LookUp, Ends, Looks
  <2> QED
    BY <2>1, <2>2
<1>9. CASE PatchConnector(q)
  <2>1. PICK outbound \in BOOLEAN :
          Decide(q, row, row.flag \/ ~outbound, [row EXCEPT !.flag = outbound, !.rev = @ + 1])
    BY <1>9 DEF PatchConnector
  <2> QED
    BY <1>2, <1>3, <1>4, <1>9, <2>1, GoingEnds DEF PatchConnector
<1>10. CASE BindCredential(q)
  BY <1>2, <1>10, GoingEnds DEF BindCredential
<1>11. CASE PutOutboundChannels(q)
  BY <1>2, <1>3, <1>4, <1>11, GoingEnds DEF PutOutboundChannels
<1>12. CASE PutTriggerBindings(q)
  <2>1. req[q].pc = "read" /\ kind \notin LockedKinds
    BY <1>12, LockedCommands DEF PutTriggerBindings, Going, Typed, ReqType
  <2>2. CASE NoEffect(q, "error")
    BY <2>1, <2>2, ErrorEnds
  <2>3. CASE Decide(q, row, TRUE, row)
    BY <1>2, <1>12, <2>3, GoingEnds DEF PutTriggerBindings
  <2>4. CASE TakesEffect(q, row, [row EXCEPT !.there = TRUE, !.ver = 1])
    <3>1. CASE Prior(req[q]) = {}
      BY <1>2, <1>3, <2>1, <2>4, <3>1 DEF Ends, Succeeds
    <3>2. CASE Prior(req[q]) # {}
      BY <2>1, <2>4, <3>2, ErrorEnds DEF TakesEffect
    <3> QED
      BY <3>1, <3>2
  <2>5. CASE NoEffect(q, "version")
    BY <2>1, <2>5 DEF Ends, Fails, Answers, LockedKinds
  <2> QED
    BY <1>12, <2>2, <2>3, <2>4, <2>5 DEF PutTriggerBindings
<1>13. CASE RevokeToken(q)
  BY <1>2, <1>3, <1>13, GoingEnds DEF RevokeToken
<1>14. CASE CreateBaseline(q)
  <2>1. req[q].pc = "read" /\ kind \notin LockedKinds
    BY <1>14, LockedCommands DEF CreateBaseline, Going, Typed, ReqType
  <2>2. CASE NoEffect(q, "error")
    BY <2>1, <2>2, ErrorEnds
  <2>3. CASE NoEffect(q, "version")
    BY <2>1, <2>3 DEF Ends, Fails, Answers, LockedKinds
  <2>4. CASE TakesEffect(q, row, [row EXCEPT !.there = TRUE, !.rev = @ + 1, !.ver = 1])
    <3>1. CASE Prior(req[q]) = {}
      BY <1>2, <1>3, <2>1, <2>4, <3>1 DEF Ends, Succeeds
    <3>2. CASE Prior(req[q]) # {}
      BY <2>1, <2>4, <3>2, ErrorEnds DEF TakesEffect
    <3> QED
      BY <3>1, <3>2
  <2> QED
    BY <1>14, <2>2, <2>3, <2>4 DEF CreateBaseline
<1>15. CASE DeactivateBaseline(q)
  <2>1. req[q].pc = "read" /\ kind \notin LockedKinds /\ base \in Rows
    BY <1>1, <1>15, LockedCommands DEF DeactivateBaseline, Going, Typed, ReqType
  <2>2. CASE NoEffect(q, "version")
    BY <2>1, <2>2 DEF Ends, Fails, Answers, LockedKinds
  <2>3. ASSUME NEW new \in Rows, TakesEffect(q, base, new) PROVE Ends(q)
    <3>1. CASE Prior(req[q]) = {}
      BY <2>1, <2>3, <3>1 DEF Ends, Succeeds
    <3>2. CASE Prior(req[q]) # {}
      BY <2>1, <2>3, <3>2, ErrorEnds DEF TakesEffect
    <3> QED
      BY <3>1, <3>2
  <2>4. [row EXCEPT !.there = FALSE, !.ver = base.ver + 1] \in Rows
    <3> DEFINE v == base.ver + 1
               x == [row EXCEPT !.there = FALSE]
    <3>1. v \in Nat /\ x \in Rows
      <4>1. \A r \in Rows : r.ver + 1 \in Nat
        BY DEF Rows
      <4> QED
        BY <1>3, <2>1, <4>1
    <3>2. [row EXCEPT !.there = FALSE, !.ver = v] = [x EXCEPT !.ver = v]
      OBVIOUS
    <3> HIDE DEF v, x
    <3>3. [x EXCEPT !.ver = v] \in Rows
      BY <3>1 DEF Rows
    <3> QED
      BY <3>2, <3>3 DEF v
  <2> QED
    BY <1>2, <1>15, <2>2, <2>3, <2>4 DEF DeactivateBaseline
<1>16. CASE Tighten(q)
  <2>1. Decide(q, base, TRUE, [row EXCEPT !.tight = base.tight \cup {req[q].arg}])
    BY <1>16 DEF Tighten
  <2>2. base \in Rows /\ base.tight \cup {req[q].arg} \in SUBSET Args
    BY <1>1, <1>16 DEF Tighten, Going, Rows
  <2> QED
    BY <1>3, <1>16, <2>1, <2>2, GoingEnds DEF Tighten
<1>17. CASE RestoreControls(q)
  <2>1. Decide(q, base, TRUE, [row EXCEPT !.tight = base.tight \ {req[q].arg}])
    BY <1>17 DEF RestoreControls
  <2>2. base \in Rows /\ base.tight \ {req[q].arg} \in SUBSET Args
    BY <1>1, <1>17 DEF RestoreControls, Going, Rows
  <2> QED
    BY <1>3, <1>17, <2>1, <2>2, GoingEnds DEF RestoreControls
<1>18. CASE PutSiemExport(q)
  BY <1>1, <1>2, <1>18, GoingEnds DEF PutSiemExport, Going
<1>19. CASE AddMember(q)
  <2>1. req[q].pc = "read"
    BY <1>19 DEF AddMember, Going
  <2>2. CASE NoEffect(q, "error")
    BY <2>1, <2>2, ErrorEnds
  <2>3. CASE Decide(q, base, base.roles[req[q].arg] = "none",
                    [row EXCEPT !.roles[req[q].arg] = req[q].role])
    BY <1>1, <1>3, <1>19, <2>1, <2>3, GoingEnds DEF AddMember
  <2> QED
    BY <1>19, <2>2, <2>3 DEF AddMember
<1>20. CASE PatchRole(q)
  <2>1. req[q].pc = "read"
    BY <1>20 DEF PatchRole, Going
  <2>2. CASE NoEffect(q, "error")
    BY <2>1, <2>2, ErrorEnds
  <2>3. CASE Decide(q, base, base.roles[req[q].arg] # "none"
                               /\ ~LastOwner(base, req[q].arg, req[q].role),
                    [row EXCEPT !.roles[req[q].arg] = req[q].role])
    BY <1>1, <1>3, <1>20, <2>1, <2>3, GoingEnds DEF PatchRole
  <2> QED
    BY <1>20, <2>2, <2>3 DEF PatchRole
<1>21. CASE RemoveMember(q)
  <2>1. req[q].pc = "read" /\ "none" \in Roles
    BY <1>21 DEF RemoveMember, Going, Roles
  <2>2. Decide(q, base, base.roles[req[q].arg] # "none" /\ ~LastOwner(base, req[q].arg, "none"),
               [row EXCEPT !.roles[req[q].arg] = "none"])
    BY <1>21 DEF RemoveMember
  <2> QED
    BY <1>1, <1>3, <1>21, <2>1, <2>2, GoingEnds DEF RemoveMember
<1>22. CASE PutModelRoute(q)
  <2>1. PICK bound \in BOOLEAN :
          Decide(q, base, TRUE, IF bound THEN row ELSE [row EXCEPT !.flag = FALSE])
    BY <1>22 DEF PutModelRoute
  <2> QED
    BY <1>1, <1>2, <1>3, <1>22, <2>1, GoingEnds DEF PutModelRoute, Going
<1>23. CASE CorrectCluster(q)
  <2>1. PICK fits \in BOOLEAN :
          Decide(q, base, fits, [row EXCEPT !.tight = base.tight \cup {req[q].arg}])
    BY <1>23 DEF CorrectCluster
  <2>2. base \in Rows /\ base.tight \cup {req[q].arg} \in SUBSET Args
    BY <1>1, <1>23 DEF CorrectCluster, Going, Rows
  <2> QED
    BY <1>3, <1>23, <2>1, <2>2, GoingEnds DEF CorrectCluster
<1>24. CASE CreatePlan(q) \/ CreatePolicy(q) \/ IssueToken(q)
  BY <1>1, <1>2, <1>24, GoingEnds DEF CreatePlan, CreatePolicy, IssueToken, Insert, Going
<1>25. CASE RegisterImport(q)
  BY <1>1, <1>2, <1>25, GoingEnds DEF RegisterImport, Going
<1>26. CASE CreateConnector(q)
  <2>1. req[q].pc = "read"
    BY <1>26 DEF CreateConnector, Going
  <2>2. CASE NoEffect(q, "error")
    BY <2>1, <2>2, ErrorEnds
  <2>3. CASE Insert(q, "connector.register")
    BY <1>1, <1>2, <2>3, GoingEnds DEF Insert, Going
  <2> QED
    BY <1>26, <2>2, <2>3 DEF CreateConnector
<1> QED
  BY <1>5, <1>6, <1>7, <1>8, <1>9, <1>10, <1>11, <1>12, <1>13, <1>14, <1>15, <1>16, <1>17, <1>18,
     <1>19, <1>20, <1>21, <1>22, <1>23, <1>24, <1>25, <1>26 DEF Handle

-----------------------------------------------------------------------------
(* A step is a request that is sent, sent again, goes elsewhere, or ends.  *)
LEMMA Steps ==
  ASSUME Typed, Next
  PROVE  \E q \in Requests :
           Send(q) \/ Elsewhere(q) \/ Ends(q) \/ \E p \in Requests : Resend(q, p)
<1>1. ASSUME NEW q \in Requests, Dies(q) PROVE Ends(q)
  BY <1>1, ErrorEnds DEF Dies
<1> QED
  BY <1>1, HandleEnds DEF Next

SameCommand(d, r) ==
  /\ d.cmd = r.cmd /\ d.key = r.key /\ d.arg = r.arg /\ d.role = r.role
  /\ d.seen = r.seen /\ d.view = r.view

LEMMA SameBody == \A d, r : SameCommand(d, r) => Body(d) = Body(r)
  BY DEF SameCommand, Body

(* A request that is answered, or has looked, is about the same command.   *)
LEMMA PlaceChanged ==
  ASSUME NEW r \in ReqRecords, NEW place \in {"new", "elsewhere", "sent", "read", "done"}
  PROVE  /\ [r EXCEPT !.pc = place] \in ReqRecords /\ [r EXCEPT !.pc = place].pc = place
         /\ SameCommand([r EXCEPT !.pc = place], r)
  BY DEF ReqRecords, SameCommand

LEMMA BaseChanged ==
  ASSUME NEW r \in ReqRecords, NEW base \in Rows \cup {NoRow}
  PROVE  /\ [r EXCEPT !.base = base] \in ReqRecords
         /\ [r EXCEPT !.base = base].base = base /\ [r EXCEPT !.base = base].pc = r.pc
         /\ SameCommand([r EXCEPT !.base = base], r)
  BY DEF ReqRecords, SameCommand

LEMMA AnswerChanged ==
  ASSUME NEW r \in ReqRecords, NEW answer \in Answers \cup {"none"}
  PROVE  /\ [r EXCEPT !.answer = answer] \in ReqRecords
         /\ [r EXCEPT !.answer = answer].answer = answer /\ [r EXCEPT !.answer = answer].pc = r.pc
         /\ SameCommand([r EXCEPT !.answer = answer], r)
  BY DEF ReqRecords, SameCommand

LEMMA Patched ==
  ASSUME NEW r \in ReqRecords, NEW place \in {"new", "elsewhere", "sent", "read", "done"},
         NEW answer \in Answers \cup {"none"}
  PROVE  /\ [r EXCEPT !.pc = place, !.base = NoRow, !.answer = answer] \in ReqRecords
         /\ [r EXCEPT !.pc = place, !.base = NoRow, !.answer = answer].pc = place
         /\ [r EXCEPT !.pc = place, !.base = NoRow, !.answer = answer].answer = answer
         /\ SameCommand([r EXCEPT !.pc = place, !.base = NoRow, !.answer = answer], r)
<1> DEFINE a == [r EXCEPT !.pc = place]
           b == [a EXCEPT !.base = NoRow]
           c == [b EXCEPT !.answer = answer]
<1>1. c = [r EXCEPT !.pc = place, !.base = NoRow, !.answer = answer]
  OBVIOUS
<1>2. a \in ReqRecords /\ a.pc = place /\ SameCommand(a, r)
  BY PlaceChanged
<1> HIDE DEF a
<1>3. b \in ReqRecords /\ b.pc = place /\ SameCommand(b, r)
  BY <1>2, BaseChanged DEF SameCommand
<1> HIDE DEF b
<1>4. c \in ReqRecords /\ c.pc = place /\ c.answer = answer /\ SameCommand(c, r)
  BY <1>3, AnswerChanged DEF SameCommand
<1> HIDE DEF c
<1> QED
  BY <1>1, <1>4

LEMMA HasLooked ==
  ASSUME NEW r \in ReqRecords, NEW base \in Rows
  PROVE  /\ [[r EXCEPT !.pc = "read"] EXCEPT !.base = base] \in ReqRecords
         /\ [[r EXCEPT !.pc = "read"] EXCEPT !.base = base].pc = "read"
         /\ [[r EXCEPT !.pc = "read"] EXCEPT !.base = base].base = base
         /\ SameCommand([[r EXCEPT !.pc = "read"] EXCEPT !.base = base], r)
<1> DEFINE a == [r EXCEPT !.pc = "read"]
           c == [a EXCEPT !.base = base]
<1>1. a \in ReqRecords /\ a.pc = "read" /\ SameCommand(a, r)
  BY PlaceChanged
<1> HIDE DEF a
<1>2. c \in ReqRecords /\ c.pc = "read" /\ c.base = base /\ SameCommand(c, r)
  BY <1>1, BaseChanged DEF SameCommand
<1>3. c = [[r EXCEPT !.pc = "read"] EXCEPT !.base = base]
  BY DEF a
<1> HIDE DEF c
<1> QED
  BY <1>2, <1>3

(* A request becomes d, the others stay as they are.                       *)
Becomes(q, d) == req'[q] = d /\ \A p \in Requests : p # q => req'[p] = req[p]

LEMMA AnsweredReq ==
  ASSUME Typed, NEW q \in Requests, req[q].pc \in {"sent", "read", "done"},
         NEW answer \in Answers, Answered(q, answer)
  PROVE  /\ ReqType'
         /\ \E d : /\ Becomes(q, d) /\ d.pc = "done" /\ d.answer = answer
                   /\ SameCommand(d, req[q])
<1> DEFINE d == [req[q] EXCEPT !.pc = "done", !.base = NoRow, !.answer = answer]
<1>1. req[q] \in ReqRecords /\ kind' = kind /\ req' = [req EXCEPT ![q] = d]
  BY DEF Typed, ReqType, Answered
<1>2. d \in ReqRecords /\ d.pc = "done" /\ d.answer = answer /\ SameCommand(d, req[q])
  BY <1>1, Patched
<1> HIDE DEF d
<1>3. Becomes(q, d) /\ req' \in [Requests -> ReqRecords]
  BY <1>1, <1>2 DEF Becomes, Typed, ReqType
<1>4. ReqType'
  BY <1>1, <1>2, <1>3 DEF Typed, ReqType, Becomes, SameCommand
<1> QED
  BY <1>2, <1>3, <1>4

LEMMA LooksReq ==
  ASSUME Typed, NEW q \in Requests, Looks(q)
  PROVE  ReqType' /\ \E d : Becomes(q, d) /\ d.pc = "read" /\ SameCommand(d, req[q])
<1> DEFINE d == [[req[q] EXCEPT !.pc = "read"] EXCEPT !.base = row]
<1>1. req[q] \in ReqRecords /\ row \in Rows
  BY DEF Typed, ReqType
<1>2. d \in ReqRecords /\ d.pc = "read" /\ d.base = row /\ SameCommand(d, req[q])
  BY <1>1, HasLooked
<1>3. req' = [req EXCEPT ![q] = d] /\ kind' = kind
  BY DEF Looks, Typed, ReqType
<1> HIDE DEF d
<1>4. Becomes(q, d) /\ req' \in [Requests -> ReqRecords]
  BY <1>2, <1>3 DEF Becomes, Typed, ReqType
<1>5. ReqType'
  BY <1>1, <1>2, <1>3, <1>4 DEF Looks, Typed, ReqType, Becomes, SameCommand
<1> QED
  BY <1>2, <1>4, <1>5

LEMMA ResendReq ==
  ASSUME Typed, NEW q \in Requests, NEW p \in Requests, Resend(q, p)
  PROVE  ReqType' /\ \E d : Becomes(q, d) /\ d.pc = "sent" /\ SameCommand(d, req[p])
<1> DEFINE d == [req[p] EXCEPT !.pc = "sent", !.base = NoRow, !.answer = "none"]
<1>1. /\ req[p] \in ReqRecords /\ req' = [req EXCEPT ![q] = d] /\ kind' = kind
      /\ req[p].pc \in {"sent", "read", "done"}
  BY DEF Typed, ReqType, Resend, HasSent
<1>2. d \in ReqRecords /\ d.pc = "sent" /\ SameCommand(d, req[p])
  BY <1>1, Patched
<1> HIDE DEF d
<1>3. Becomes(q, d) /\ req' \in [Requests -> ReqRecords]
  BY <1>1, <1>2 DEF Becomes, Typed, ReqType
<1>4. ReqType'
  BY <1>1, <1>2, <1>3 DEF Typed, ReqType, Becomes, SameCommand
<1> QED
  BY <1>2, <1>3, <1>4

(* A request is sent with a version, if with one, that its client has read.*)
LEMMA SendReq ==
  ASSUME Typed, NEW q \in Requests, Send(q)
  PROVE  /\ ReqType'
         /\ \E d : /\ Becomes(q, d) /\ d.pc = "sent" /\ d.view = Len(log)
                   /\ row.there => d.seen \in {0, row.ver}
<1>1. PICK x \in Asked : req' = [req EXCEPT ![q] = x]
  BY DEF Send
<1>2. PICK cmd \in CommandsOf[kind] :
        \E key \in Keys, arg \in Args, role \in RoleAsked(cmd), seen \in Versions(cmd) :
          x = [pc |-> "sent", cmd |-> cmd, key |-> key, arg |-> arg, role |-> role, seen |-> seen,
               view |-> Len(log), base |-> NoRow, answer |-> "none"]
  BY DEF Asked
<1>3. PICK key \in Keys, arg \in Args, role \in RoleAsked(cmd), seen \in Versions(cmd) :
         x = [pc |-> "sent", cmd |-> cmd, key |-> key, arg |-> arg, role |-> role, seen |-> seen,
              view |-> Len(log), base |-> NoRow, answer |-> "none"]
  BY <1>2
<1> DEFINE d == [pc |-> "sent", cmd |-> cmd, key |-> key, arg |-> arg, role |-> role, seen |-> seen,
                 view |-> Len(log), base |-> NoRow, answer |-> "none"]
<1>4. kind' = kind /\ Len(log) \in Nat
  BY DEF Typed, Send
<1>5. seen \in Nat /\ (row.there => seen \in {0, row.ver})
  BY DEF Versions, Typed, Rows
<1>6. role \in Roles /\ cmd \in Commands
  BY DEF RoleAsked, Roles, Commands, Typed
<1>7. /\ d \in ReqRecords /\ d.pc = "sent" /\ d.view = Len(log) /\ d.seen = seen
      /\ d.cmd = cmd /\ d.key = key /\ d.arg = arg
  BY <1>4, <1>5, <1>6 DEF ReqRecords
<1>8. req' = [req EXCEPT ![q] = d]
  BY <1>1, <1>3
<1> HIDE DEF d
<1>9. Becomes(q, d) /\ req' \in [Requests -> ReqRecords]
  BY <1>7, <1>8 DEF Becomes, Typed, ReqType
<1>10. ReqType'
  BY <1>4, <1>7, <1>9 DEF Typed, ReqType, Becomes
<1> QED
  BY <1>5, <1>7, <1>9, <1>10

(* A request that goes elsewhere leaves a record under an unused key.      *)
LEMMA ElsewhereReq ==
  ASSUME Typed, NEW q \in Requests, Elsewhere(q)
  PROVE  /\ ReqType' /\ req[q].pc = "new" /\ UNCHANGED <<kind, row, log>>
         /\ \E d : Becomes(q, d) /\ d.pc = "elsewhere" /\ SameCommand(d, req[q])
         /\ \E x \in Records :
              idem' = idem \cup {x} /\ \A p \in idem : ~(p.cmd = x.cmd /\ p.key = x.key)
<1>1. PICK r \in Asked : Prior(r) = {} /\ idem' = idem \cup {Record(r)}
  BY DEF Elsewhere
<1>2. PICK cmd \in CommandsOf[kind] :
        \E key \in Keys, arg \in Args, role \in RoleAsked(cmd), seen \in Versions(cmd) :
          r = [pc |-> "sent", cmd |-> cmd, key |-> key, arg |-> arg, role |-> role, seen |-> seen,
               view |-> Len(log), base |-> NoRow, answer |-> "none"]
  BY DEF Asked
<1>3. PICK key \in Keys, arg \in Args, role \in RoleAsked(cmd), seen \in Versions(cmd) :
         r = [pc |-> "sent", cmd |-> cmd, key |-> key, arg |-> arg, role |-> role, seen |-> seen,
              view |-> Len(log), base |-> NoRow, answer |-> "none"]
  BY <1>2
<1>4. seen \in Nat /\ role \in Roles
  BY DEF Versions, RoleAsked, Roles, Typed, Rows
<1>5. r.cmd = cmd /\ r.key = key /\ r.arg = arg /\ r.role = role /\ r.seen = seen
  BY <1>3
<1>6. Body(r) \in (Args \cup {"path"}) \X Roles \X Nat
  BY <1>4, <1>5 DEF Body
<1>7. /\ Record(r) \in Records /\ Record(r).cmd = r.cmd /\ Record(r).key = r.key
  BY <1>5, <1>6 DEF Record, Records
<1>8. \A p \in idem : ~(p.cmd = Record(r).cmd /\ p.key = Record(r).key)
  BY <1>1, <1>7 DEF Prior
<1> DEFINE d == [req[q] EXCEPT !.pc = "elsewhere"]
<1>9. /\ UNCHANGED <<kind, row, log>> /\ req[q].pc = "new" /\ req' = [req EXCEPT ![q] = d]
      /\ req[q] \in ReqRecords
  BY DEF Elsewhere, Typed, ReqType
<1>10. d \in ReqRecords /\ d.pc = "elsewhere" /\ SameCommand(d, req[q])
  BY <1>9, PlaceChanged
<1> HIDE DEF d
<1>11. Becomes(q, d) /\ req' \in [Requests -> ReqRecords]
  BY <1>9, <1>10 DEF Becomes, Typed, ReqType
<1>12. ReqType'
  BY <1>9, <1>10, <1>11 DEF Typed, ReqType, Becomes
<1> QED
  BY <1>1, <1>7, <1>8, <1>9, <1>10, <1>11, <1>12

(* What an effect writes besides the row.                                  *)
Entry(q, base) ==
  [by |-> q, cmd |-> req[q].cmd, key |-> req[q].key, arg |-> req[q].arg, seen |-> req[q].seen,
   view |-> req[q].view, from |-> base.ver]

LEMMA Effect ==
  ASSUME Typed, NEW q \in Requests, req[q].pc \in {"sent", "read", "done"}, Succeeds(q)
  PROVE  \E base, new \in Rows :
           /\ Prior(req[q]) = {} /\ Answered(q, "ok")
           /\ row' = new /\ idem' = idem \cup {Record(req[q])} /\ log' = Append(log, Entry(q, base))
           /\ Entry(q, base) \in Entries
           /\ kind \in LockedKinds =>
                base = row /\ new.ver = row.ver + 1 /\ new.there = row.there /\ Seen(q, row)
<1>1. PICK base, new \in Rows :
        /\ Prior(req[q]) = {} /\ TakesEffect(q, base, new)
        /\ kind \in LockedKinds =>
             base = row /\ new.ver = row.ver + 1 /\ new.there = row.there /\ Seen(q, row)
  BY DEF Succeeds
<1>2. /\ row' = new /\ idem' = idem \cup {Record(req[q])} /\ log' = Append(log, Entry(q, base))
      /\ Answered(q, "ok")
  BY <1>1 DEF TakesEffect, Record, Entry
<1>3. Entry(q, base) \in Entries
  BY DEF Typed, ReqType, ReqRecords, Entry, Entries, Rows
<1> QED
  BY <1>1, <1>2, <1>3

-----------------------------------------------------------------------------
(* The log says which requests were told "ok", and what each had asked for;*)
(* its entries and theirs in the idempotency table go together.            *)
Once ==
  /\ \A i, j \in DOMAIN log : log[i].cmd = log[j].cmd /\ log[i].key = log[j].key => i = j
  /\ \A i \in DOMAIN log :
       /\ req[log[i].by].pc = "done" /\ req[log[i].by].answer = "ok"
       /\ req[log[i].by].cmd = log[i].cmd /\ req[log[i].by].key = log[i].key
       /\ req[log[i].by].seen = log[i].seen
       /\ \E p \in idem : p.cmd = log[i].cmd /\ p.key = log[i].key
  /\ \A q \in Requests : req[q].pc = "done" /\ req[q].answer = "ok" =>
       Recorded(req[q]) /\ \E i \in DOMAIN log : log[i].by = q

(* A version that a client names says how many commands it had seen.       *)
Serial ==
  kind \in LockedKinds =>
    /\ row.there /\ row.ver = 1 + Len(log)
    /\ \A i \in DOMAIN log : log[i].from = i /\ (log[i].seen # 0 => log[i].view = i - 1)
    /\ \A q \in Requests : req[q].pc \in {"sent", "read", "done"} =>
         req[q].view <= Len(log) /\ req[q].seen \in {0, 1 + req[q].view}

(* The commands of a request's kind that took effect under its key and on  *)
(* its version.                                                            *)
Entered(r) ==
  {i \in DOMAIN log : log[i].cmd = r.cmd /\ log[i].key = r.key /\ log[i].seen = r.seen}

(* Who was told of a conflict has no record, and who was told of an old    *)
(* version no effect, and none comes: the key is taken, the version gone.  *)
ToldTrue ==
  \A q \in Requests : req[q].pc = "done" =>
    /\ req[q].answer = "key_conflict" => Prior(req[q]) # {} /\ ~Recorded(req[q])
    /\ req[q].answer = "version" /\ kind \in LockFirstKinds =>
         req[q].seen # 0 /\ req[q].seen < row.ver /\ Entered(req[q]) = {}

Inv == Typed /\ Once /\ Serial /\ ToldTrue

LEMMA InitInv == Init => Inv
<1> HAVE Init
<1>1. PICK roles \in [Args -> Roles] :
        row = [there |-> kind # "trigger", ver |-> IF kind = "trigger" THEN 0 ELSE 1, rev |-> 1,
               flag |-> TRUE, tight |-> {},
               roles |-> IF kind = "project" THEN roles ELSE [u \in Args |-> "none"]]
  BY DEF Init
<1>2. row \in Rows
  BY <1>1 DEF Rows, Roles
<1>3. NotSent \in ReqRecords /\ NotSent.pc = "new"
  BY DEF NotSent, ReqRecords, Roles
<1>4. req = [q \in Requests |-> NotSent] /\ log = <<>> /\ idem = {} /\ kind \in Kinds
  BY DEF Init
<1>5. req \in [Requests -> ReqRecords] /\ \A q \in Requests : req[q].pc = "new"
  BY <1>3, <1>4
<1>6. Typed
  BY <1>2, <1>4, <1>5 DEF Typed, ReqType
<1>7. Once /\ ToldTrue
  BY <1>4, <1>5 DEF Once, ToldTrue
<1>8. Serial
  <2> SUFFICES ASSUME kind \in LockedKinds PROVE row.there /\ row.ver = 1
    BY <1>4, <1>5 DEF Serial
  <2>1. kind # "trigger"
    BY DEF LockedKinds, LockFirstKinds
  <2> QED
    BY <1>1, <2>1
<1> QED
  BY <1>6, <1>7, <1>8 DEF Inv

(* A step that changes one request, neither answered "ok" before nor after,*)
(* and nothing else.                                                       *)
LEMMA QuietStep ==
  ASSUME Inv, NEW q \in Requests, NEW d, Becomes(q, d), ReqType', UNCHANGED <<kind, row, idem, log>>,
         req[q].pc # "done", ~(d.pc = "done" /\ d.answer = "ok"),
         kind \in LockedKinds => d.view <= Len(log) /\ d.seen \in {0, 1 + d.view},
         d.pc = "done" =>
           /\ d.answer = "key_conflict" => Prior(d) # {} /\ ~Recorded(d)
           /\ d.answer = "version" /\ kind \in LockFirstKinds =>
                d.seen # 0 /\ d.seen < row.ver /\ Entered(d) = {}
  PROVE  Inv'
<1>1. Typed'
  BY DEF Inv, Typed, Entries, Records
<1>2. /\ \A p \in Requests : p # q => req'[p] = req[p]
      /\ req'[q] = d
  BY DEF Becomes
<1>3. \A r : Recorded(r)' = Recorded(r) /\ Prior(r)' = Prior(r)
  BY DEF Recorded, Prior
<1>4. \A i \in DOMAIN log : log[i].by \in Requests /\ log[i].by # q
  <2>1. \A i \in DOMAIN log : log[i] \in Entries
    BY DEF Inv, Typed
  <2> QED
    BY <2>1 DEF Inv, Once, Entries
<1>5. Once'
  <2>1. \A p \in Requests : req'[p].pc = "done" /\ req'[p].answer = "ok" =>
          (\E x \in idem' : /\ x.cmd = req'[p].cmd /\ x.key = req'[p].key
                            /\ x.body = Body(req'[p]))
          /\ \E i \in DOMAIN log : log[i].by = p
    BY <1>2 DEF Inv, Once, Recorded
  <2> QED
    BY <1>2, <1>4, <2>1 DEF Inv, Once, Recorded
<1>6. Serial'
  BY <1>2 DEF Inv, Serial
<1>7. ToldTrue'
  BY <1>2 DEF Inv, ToldTrue, Recorded, Prior, Entered
<1> QED
  BY <1>1, <1>5, <1>6, <1>7 DEF Inv

(* A request that takes effect is the first under its key, and adds one    *)
(* entry about the row it has locked.                                      *)
LEMMA EffectStep ==
  ASSUME Inv, NEW q \in Requests, req[q].pc \in {"sent", "read"}, Succeeds(q)
  PROVE  Inv'
<1>1. PICK base, new \in Rows :
        /\ Prior(req[q]) = {} /\ Answered(q, "ok")
        /\ row' = new /\ idem' = idem \cup {Record(req[q])} /\ log' = Append(log, Entry(q, base))
        /\ Entry(q, base) \in Entries
        /\ kind \in LockedKinds =>
             base = row /\ new.ver = row.ver + 1 /\ new.there = row.there /\ Seen(q, row)
  BY Effect DEF Inv
<1>2. PICK d : /\ Becomes(q, d) /\ d.pc = "done" /\ d.answer = "ok" /\ SameCommand(d, req[q])
               /\ ReqType'
  BY <1>1, AnsweredReq DEF Inv, Answers
<1>3. kind' = kind /\ log \in Seq(Entries) /\ Len(log) \in Nat
  BY <1>1 DEF Answered, Inv, Typed
<1>4. /\ \A p \in Requests : p # q => req'[p] = req[p]
      /\ req'[q] = d
  BY <1>2 DEF Becomes
<1>5. /\ DOMAIN log = 1..Len(log) /\ DOMAIN log' = 1..(Len(log) + 1) /\ Len(log') = Len(log) + 1
      /\ \A i \in DOMAIN log : log'[i] = log[i]
      /\ log'[Len(log) + 1] = Entry(q, base)
      /\ \A i \in DOMAIN log : log[i] \in Entries
  BY <1>1, <1>3
<1>6. Typed'
  <2>1. Record(req[q]) \in Records
    BY DEF Inv, Typed, ReqType, ReqRecords, Record, Records, Body
  <2>2. log' \in Seq(Entries) /\ Entries' = Entries /\ Records' = Records
    BY <1>1, <1>3 DEF Entries, Records
  <2> QED
    BY <1>1, <1>2, <1>3, <2>1, <2>2 DEF Inv, Typed
<1>7. \A i \in DOMAIN log : ~(log[i].cmd = req[q].cmd /\ log[i].key = req[q].key)
  BY <1>1 DEF Inv, Once, Prior
<1>8. \A i \in DOMAIN log : log[i].by \in Requests /\ log[i].by # q
  BY <1>5 DEF Inv, Once, Entries
<1>9. /\ Record(req[q]) \in idem' /\ idem \subseteq idem'
      /\ Record(req[q]).cmd = d.cmd /\ Record(req[q]).key = d.key
      /\ Record(req[q]).body = Body(d)
  BY <1>1, <1>2, SameBody DEF Record, SameCommand
<1>10. /\ Entry(q, base).by = q /\ Entry(q, base).cmd = d.cmd /\ Entry(q, base).key = d.key
       /\ Entry(q, base).seen = d.seen /\ Entry(q, base).view = d.view
       /\ Entry(q, base).from = base.ver
  BY <1>2 DEF Entry, SameCommand
<1> DEFINE n == Len(log) + 1
<1>11. \A i \in DOMAIN log' : i = n \/ i \in DOMAIN log
  BY <1>3, <1>5
<1>12. Once'
  <2>1. ASSUME NEW i \in DOMAIN log', NEW j \in DOMAIN log',
               log'[i].cmd = log'[j].cmd, log'[i].key = log'[j].key
        PROVE  i = j
    <3>1. CASE i \in DOMAIN log /\ j \in DOMAIN log
      BY <1>5, <2>1, <3>1 DEF Inv, Once
    <3>2. CASE i = n /\ j \in DOMAIN log
      BY <1>2, <1>5, <1>7, <1>10, <2>1, <3>2 DEF SameCommand
    <3>3. CASE j = n /\ i \in DOMAIN log
      BY <1>2, <1>5, <1>7, <1>10, <2>1, <3>3 DEF SameCommand
    <3> QED
      BY <1>11, <3>1, <3>2, <3>3
  <2>2. ASSUME NEW i \in DOMAIN log'
        PROVE  /\ req'[log'[i].by].pc = "done" /\ req'[log'[i].by].answer = "ok"
               /\ req'[log'[i].by].cmd = log'[i].cmd /\ req'[log'[i].by].key = log'[i].key
               /\ req'[log'[i].by].seen = log'[i].seen
               /\ \E p \in idem' : p.cmd = log'[i].cmd /\ p.key = log'[i].key
    <3>1. CASE i \in DOMAIN log
      BY <1>4, <1>5, <1>8, <1>9, <3>1 DEF Inv, Once
    <3>2. CASE i = n
      BY <1>2, <1>4, <1>5, <1>9, <1>10, <3>2
    <3> QED
      BY <1>11, <3>1, <3>2
  <2>3. ASSUME NEW p \in Requests, req'[p].pc = "done", req'[p].answer = "ok"
        PROVE  /\ \E x \in idem' : /\ x.cmd = req'[p].cmd /\ x.key = req'[p].key
                                   /\ x.body = Body(req'[p])
               /\ \E i \in DOMAIN log' : log'[i].by = p
    <3>1. CASE p = q
      BY <1>3, <1>4, <1>5, <1>9, <1>10, <3>1
    <3>2. CASE p # q
      <4>1. req'[p] = req[p]
        BY <1>4, <3>2
      <4>2. /\ \E x \in idem : /\ x.cmd = req[p].cmd /\ x.key = req[p].key
                               /\ x.body = Body(req[p])
            /\ \E i \in DOMAIN log : log[i].by = p
        BY <2>3, <4>1 DEF Inv, Once, Recorded
      <4>3. DOMAIN log \subseteq DOMAIN log'
        BY <1>3, <1>5
      <4> QED
        BY <1>5, <1>9, <4>1, <4>2, <4>3
    <3> QED
      BY <3>1, <3>2
  <2> QED
    BY <2>1, <2>2, <2>3 DEF Once, Recorded
<1>13. Serial'
  <2> SUFFICES ASSUME kind \in LockedKinds
               PROVE  /\ row'.there /\ row'.ver = 1 + Len(log')
                      /\ \A i \in DOMAIN log' :
                           log'[i].from = i /\ (log'[i].seen # 0 => log'[i].view = i - 1)
                      /\ \A p \in Requests : req'[p].pc \in {"sent", "read", "done"} =>
                           req'[p].view <= Len(log') /\ req'[p].seen \in {0, 1 + req'[p].view}
    BY <1>3 DEF Serial
  <2>1. /\ row.there /\ row.ver = 1 + Len(log)
        /\ \A i \in DOMAIN log : log[i].from = i /\ (log[i].seen # 0 => log[i].view = i - 1)
        /\ \A p \in Requests : req[p].pc \in {"sent", "read", "done"} =>
             req[p].view <= Len(log) /\ req[p].seen \in {0, 1 + req[p].view}
    BY DEF Inv, Serial
  <2>2. \A p \in Requests : req[p].view \in Nat /\ req[p].seen \in Nat
    BY DEF Inv, Typed, ReqType, ReqRecords
  <2>3. row'.there /\ row'.ver = 1 + Len(log')
    <3>1. row'.ver = row.ver + 1 /\ row'.there = row.there
      BY <1>1
    <3>2. Len(log') = Len(log) + 1
      BY <1>5
    <3> QED
      BY <1>3, <2>1, <3>1, <3>2
  <2>4. base.ver = n /\ (d.seen # 0 => d.view = n - 1)
    BY <1>1, <1>2, <1>3, <2>1, <2>2 DEF Seen, SameCommand
  <2>5. \A i \in DOMAIN log' : log'[i].from = i /\ (log'[i].seen # 0 => log'[i].view = i - 1)
    BY <1>5, <1>10, <1>11, <2>1, <2>4
  <2>6. \A p \in Requests : req'[p].pc \in {"sent", "read", "done"} =>
          req'[p].view <= Len(log') /\ req'[p].seen \in {0, 1 + req'[p].view}
    BY <1>2, <1>3, <1>4, <1>5, <2>1, <2>2 DEF SameCommand
  <2> QED
    BY <2>3, <2>5, <2>6
<1>14. ToldTrue'
  <2> DEFINE Taken(r) == \E x \in idem' : x.cmd = r.cmd /\ x.key = r.key
             Stored(r) == \E x \in idem' : x.cmd = r.cmd /\ x.key = r.key /\ x.body = Body(r)
             Done(r) == {i \in DOMAIN log' : /\ log'[i].cmd = r.cmd /\ log'[i].key = r.key
                                            /\ log'[i].seen = r.seen}
  <2>1. ASSUME NEW p \in Requests, req'[p].pc = "done", req'[p].answer \in {"key_conflict", "version"}
        PROVE  p # q /\ req'[p] = req[p]
    BY <1>2, <1>4, <2>1
  <2>2. ASSUME NEW r, Stored(r) PROVE Recorded(r) \/ (d.cmd = r.cmd /\ d.key = r.key)
    <3>1. PICK x \in idem' : x.cmd = r.cmd /\ x.key = r.key /\ x.body = Body(r)
      BY <2>2
    <3>2. CASE x \in idem
      BY <3>1, <3>2 DEF Recorded
    <3>3. CASE x = Record(req[q])
      BY <1>9, <3>1, <3>3
    <3> QED
      BY <1>1, <3>2, <3>3
  <2>3. \A r : Prior(r) # {} => Taken(r)
    BY <1>9 DEF Prior
  <2>6. \A r : Entered(r) = {} /\ d.seen # r.seen => Done(r) = {}
    BY <1>5, <1>10, <1>11 DEF Entered
  <2> HIDE DEF Taken, Stored, Done
  <2>4. ASSUME NEW p \in Requests, req'[p].pc = "done", req'[p].answer = "key_conflict"
        PROVE  Taken(req'[p]) /\ ~Stored(req'[p])
    <3>1. p # q /\ req'[p] = req[p]
      BY <2>1, <2>4
    <3>2. Prior(req[p]) # {} /\ ~Recorded(req[p])
      BY <2>4, <3>1 DEF Inv, ToldTrue
    <3>3. ~(d.cmd = req[p].cmd /\ d.key = req[p].key)
      BY <1>1, <1>2, <3>2 DEF Prior, SameCommand
    <3> QED
      BY <2>2, <2>3, <3>1, <3>2, <3>3
  <2>5. ASSUME NEW p \in Requests, req'[p].pc = "done", req'[p].answer = "version",
               kind \in LockFirstKinds
        PROVE  req'[p].seen # 0 /\ req'[p].seen < row'.ver /\ Done(req'[p]) = {}
    <3>1. p # q /\ req'[p] = req[p]
      BY <2>1, <2>5
    <3>2. req[p].seen # 0 /\ req[p].seen < row.ver /\ Entered(req[p]) = {}
      BY <2>5, <3>1 DEF Inv, ToldTrue
    <3>3. req[p].seen \in Nat /\ row.ver \in Nat
      BY DEF Inv, Typed, ReqType, ReqRecords, Rows
    <3>4. kind \in LockedKinds
      BY <2>5 DEF LockedKinds
    <3>5. row'.ver = row.ver + 1 /\ d.seen \in {0, row.ver}
      BY <1>1, <1>2, <3>4 DEF Seen, SameCommand
    <3>6. Done(req[p]) = {}
      BY <2>6, <3>2, <3>3, <3>5
    <3> QED
      BY <3>1, <3>2, <3>3, <3>5, <3>6
  <2> QED
    BY <1>3, <2>4, <2>5 DEF ToldTrue, Prior, Recorded, Entered, Taken, Stored, Done
<1> QED
  BY <1>6, <1>12, <1>13, <1>14 DEF Inv

(* A request that ends without effect.                                     *)
LEMMA FailStep ==
  ASSUME Inv, NEW q \in Requests, req[q].pc \in {"sent", "read"}, Fails(q)
  PROVE  Inv'
<1>1. PICK answer \in Answers \ {"ok"} :
        /\ NoEffect(q, answer)
        /\ answer = "key_conflict" => Prior(req[q]) # {} /\ ~Recorded(req[q])
        /\ answer = "version" /\ kind \in LockFirstKinds => Prior(req[q]) = {} /\ ~Seen(q, row)
  BY DEF Fails, LockedKinds
<1>2. Answered(q, answer) /\ UNCHANGED <<kind, row, idem, log>>
  BY <1>1 DEF NoEffect, Answered
<1>3. PICK d : /\ Becomes(q, d) /\ d.pc = "done" /\ d.answer = answer /\ SameCommand(d, req[q])
               /\ ReqType'
  BY <1>1, <1>2, AnsweredReq DEF Inv
<1>4. Prior(d) = Prior(req[q]) /\ (Recorded(d) <=> Recorded(req[q]))
  BY <1>3, SameBody DEF Prior, Recorded, SameCommand
<1>5. kind \in LockedKinds => d.view <= Len(log) /\ d.seen \in {0, 1 + d.view}
  BY <1>3 DEF Inv, Serial, SameCommand
<1>6. ASSUME answer = "version", kind \in LockFirstKinds
      PROVE  d.seen # 0 /\ d.seen < row.ver /\ Entered(d) = {}
  <2>1. Prior(d) = {} /\ d.seen \notin {0, row.ver}
    BY <1>1, <1>3, <1>4, <1>6 DEF Seen, SameCommand
  <2>2. kind \in LockedKinds
    BY <1>6 DEF LockedKinds
  <2>3. row.ver = 1 + Len(log) /\ Len(log) \in Nat
    BY <2>2 DEF Inv, Serial, Typed
  <2>4. d.view \in Nat
    BY <1>3 DEF Inv, Typed, ReqType, ReqRecords, SameCommand
  <2>5. d.seen < row.ver
    BY <1>5, <2>1, <2>2, <2>3, <2>4
  <2>6. Entered(d) = {}
    BY <2>1 DEF Inv, Once, Prior, Entered
  <2> QED
    BY <2>1, <2>5, <2>6
<1>7. d.answer # "ok" /\ req[q].pc # "done"
  BY <1>3
<1> QED
  BY <1>1, <1>2, <1>3, <1>4, <1>5, <1>6, <1>7, QuietStep

(* A record left under a key that was not used concerns nobody who was     *)
(* answered.                                                               *)
LEMMA ElsewhereStep ==
  ASSUME Inv, NEW q \in Requests, Elsewhere(q)
  PROVE  Inv'
<1>1. ReqType' /\ req[q].pc = "new" /\ UNCHANGED <<kind, row, log>>
  BY ElsewhereReq DEF Inv
<1>2. PICK d : Becomes(q, d) /\ d.pc = "elsewhere" /\ SameCommand(d, req[q])
  BY ElsewhereReq DEF Inv
<1>3. PICK x \in Records :
        idem' = idem \cup {x} /\ \A p \in idem : ~(p.cmd = x.cmd /\ p.key = x.key)
  BY ElsewhereReq DEF Inv
<1>4. /\ \A p \in Requests : p # q => req'[p] = req[p]
      /\ req'[q] = d
  BY <1>2 DEF Becomes
<1>5. Typed'
  BY <1>1, <1>3 DEF Inv, Typed, Entries, Records
<1>6. \A i \in DOMAIN log : log[i].by \in Requests /\ log[i].by # q
  <2>1. \A i \in DOMAIN log : log[i] \in Entries
    BY DEF Inv, Typed
  <2> QED
    BY <1>1, <2>1 DEF Inv, Once, Entries
<1>7. Once'
  <2>1. \A p \in Requests : req'[p].pc = "done" /\ req'[p].answer = "ok" =>
          /\ \E y \in idem' : y.cmd = req'[p].cmd /\ y.key = req'[p].key /\ y.body = Body(req'[p])
          /\ \E i \in DOMAIN log : log[i].by = p
    BY <1>2, <1>3, <1>4 DEF Inv, Once, Recorded
  <2>2. \A i \in DOMAIN log : \E y \in idem' : y.cmd = log[i].cmd /\ y.key = log[i].key
    BY <1>3 DEF Inv, Once
  <2> QED
    BY <1>1, <1>4, <1>6, <2>1, <2>2 DEF Inv, Once, Recorded
<1>8. Serial'
  BY <1>1, <1>2, <1>4 DEF Inv, Serial
<1>9. ToldTrue'
  <2>1. ASSUME NEW p \in Requests, req'[p].pc = "done" PROVE p # q /\ req'[p] = req[p]
    BY <1>2, <1>4, <2>1
  <2>2. ASSUME NEW p \in Requests, Prior(req[p]) # {}, ~Recorded(req[p])
        PROVE  /\ \E y \in idem' : y.cmd = req[p].cmd /\ y.key = req[p].key
               /\ ~\E y \in idem' :
                    y.cmd = req[p].cmd /\ y.key = req[p].key /\ y.body = Body(req[p])
    BY <1>3, <2>2 DEF Prior, Recorded
  <2>3. ASSUME NEW p \in Requests, req'[p].pc = "done", req'[p].answer = "key_conflict"
        PROVE  /\ \E y \in idem' : y.cmd = req'[p].cmd /\ y.key = req'[p].key
               /\ ~\E y \in idem' :
                    y.cmd = req'[p].cmd /\ y.key = req'[p].key /\ y.body = Body(req'[p])
    BY <2>1, <2>2, <2>3 DEF Inv, ToldTrue
  <2>4. ASSUME NEW p \in Requests, req'[p].pc = "done", req'[p].answer = "version",
               kind \in LockFirstKinds
        PROVE  /\ req'[p].seen # 0 /\ req'[p].seen < row.ver
               /\ {i \in DOMAIN log : /\ log[i].cmd = req'[p].cmd /\ log[i].key = req'[p].key
                                      /\ log[i].seen = req'[p].seen} = {}
    BY <2>1, <2>4 DEF Inv, ToldTrue, Entered
  <2> QED
    BY <1>1, <2>3, <2>4 DEF ToldTrue, Prior, Recorded, Entered
<1> QED
  BY <1>5, <1>7, <1>8, <1>9 DEF Inv

LEMMA StepInv == Inv /\ [Next]_vars => Inv'
<1> SUFFICES ASSUME Inv, [Next]_vars PROVE Inv'
  OBVIOUS
<1>1. CASE UNCHANGED vars
  BY <1>1 DEF vars, Inv, Typed, ReqType, Entries, Records, Once, Serial, ToldTrue, Recorded, Prior,
              Entered
<1>2. CASE Next
  <2>1. PICK q \in Requests : \/ Send(q) \/ Elsewhere(q) \/ Ends(q)
                             \/ \E p \in Requests : Resend(q, p)
    BY <1>2, Steps DEF Inv
  <2>2. CASE Send(q)
    <3>1. PICK d : /\ Becomes(q, d) /\ d.pc = "sent" /\ d.view = Len(log)
                   /\ row.there => d.seen \in {0, row.ver}
                   /\ ReqType'
      BY <2>2, SendReq DEF Inv
    <3>2. UNCHANGED <<kind, row, idem, log>> /\ req[q].pc = "new" /\ Len(log) \in Nat
      BY <2>2 DEF Send, Inv, Typed
    <3>3. kind \in LockedKinds => d.view <= Len(log) /\ d.seen \in {0, 1 + d.view}
      BY <3>1, <3>2 DEF Inv, Serial
    <3> QED
      BY <3>1, <3>2, <3>3, QuietStep
  <2>3. CASE Ends(q)
    <3>1. CASE Fails(q)
      BY <2>3, <3>1, FailStep DEF Ends
    <3>2. CASE Looks(q)
      <4>1. PICK d : Becomes(q, d) /\ d.pc = "read" /\ SameCommand(d, req[q]) /\ ReqType'
        BY <3>2, LooksReq DEF Inv
      <4>2. UNCHANGED <<kind, row, idem, log>> /\ req[q].pc = "sent"
        BY <3>2 DEF Looks
      <4>3. kind \in LockedKinds => d.view <= Len(log) /\ d.seen \in {0, 1 + d.view}
        BY <4>1, <4>2 DEF Inv, Serial, SameCommand
      <4> QED
        BY <4>1, <4>2, <4>3, QuietStep
    <3>3. CASE Succeeds(q)
      BY <2>3, <3>3, EffectStep DEF Ends
    <3> QED
      BY <2>3, <3>1, <3>2, <3>3 DEF Ends
  <2>4. ASSUME NEW p \in Requests, Resend(q, p) PROVE Inv'
    <3>1. PICK d : Becomes(q, d) /\ d.pc = "sent" /\ SameCommand(d, req[p]) /\ ReqType'
      BY <2>4, ResendReq DEF Inv
    <3>2. /\ UNCHANGED <<kind, row, idem, log>> /\ req[q].pc = "new"
          /\ req[p].pc \in {"sent", "read", "done"}
      BY <2>4 DEF Resend, HasSent
    <3>3. kind \in LockedKinds => d.view <= Len(log) /\ d.seen \in {0, 1 + d.view}
      BY <3>1, <3>2 DEF Inv, Serial, SameCommand
    <3> QED
      BY <3>1, <3>2, <3>3, QuietStep
  <2> QED
    BY <2>1, <2>2, <2>3, <2>4, ElsewhereStep
<1> QED
  BY <1>1, <1>2

LEMMA InvHolds == Spec => []Inv
<1> QED
  BY InitInv, StepInv, PTL DEF Spec

-----------------------------------------------------------------------------
(* Every request and every record is one the handlers know: type           *)
(* correctness of the row, the idempotency table, the log and the requests.*)
THEOREM TypeCorrect == Spec => []TypeOK
<1>1. Inv => TypeOK
  <2> HAVE Inv
  <2>1. kind \in Kinds /\ row \in Rows /\ CommandsOf[kind] \subseteq Commands
    BY DEF Inv, Typed, Commands
  <2>2. \A r \in idem : r.cmd \in CommandsOf[kind] /\ r.key \in Keys
    BY <2>1 DEF Inv, Typed, Records
  <2>3. \A i \in DOMAIN log : log[i].by \in Requests /\ log[i].cmd \in CommandsOf[kind]
    <3>1. \A i \in DOMAIN log : log[i] \in Entries
      BY DEF Inv, Typed
    <3> QED
      BY <3>1 DEF Entries
  <2>4. \A q \in Requests : req[q].pc \in {"new", "elsewhere", "sent", "read", "done"}
    BY DEF Inv, Typed, ReqType, ReqRecords
  <2> QED
    BY <2>1, <2>2, <2>3, <2>4 DEF Inv, Typed, ReqType, TypeOK
<1> QED
  BY <1>1, InvHolds, PTL

(* A command takes effect at most once under a key, and exactly the request*)
(* that took effect is told "ok": the unique constraint of the idempotency *)
(* table decides, whatever the handler locks.                              *)
THEOREM OncePerKeyHolds == Spec => []OncePerKey
<1>1. Inv => OncePerKey
  <2> HAVE Inv
  <2>1. \A i, j \in DOMAIN log : log[i].cmd = log[j].cmd /\ log[i].key = log[j].key => i = j
    BY DEF Inv, Once
  <2>2. \A q \in Requests :
          (req[q].pc = "done" /\ req[q].answer = "ok") <=> \E i \in DOMAIN log : log[i].by = q
    <3> TAKE q \in Requests
    <3>1. ASSUME req[q].pc = "done", req[q].answer = "ok" PROVE \E i \in DOMAIN log : log[i].by = q
      BY <3>1 DEF Inv, Once
    <3>2. ASSUME NEW i \in DOMAIN log, log[i].by = q PROVE req[q].pc = "done" /\ req[q].answer = "ok"
      <4>1. req[log[i].by].pc = "done" /\ req[log[i].by].answer = "ok"
        BY DEF Inv, Once
      <4> QED
        BY <3>2, <4>1
    <3> QED
      BY <3>1, <3>2
  <2> QED
    BY <2>1, <2>2 DEF OncePerKey
<1> QED
  BY <1>1, InvHolds, PTL

(* On a plan, a gate policy or a connector no command is lost: the handlers*)
(* hold the row's lock from the look at the version to the commit.         *)
THEOREM LockedSerialHolds == Spec => []LockedSerial
<1>1. Inv => LockedSerial
  BY DEF Inv, Serial, LockedSerial
<1> QED
  BY <1>1, InvHolds, PTL

(* A handler that locks before it looks at the key tells nobody that the   *)
(* version is old, or the key taken, whose request took effect.            *)
THEOREM RetryAnsweredLockedHolds == Spec => []RetryAnsweredLocked
<1>1. Inv => RetryAnsweredLocked
  <2> SUFFICES ASSUME Inv, kind \in LockFirstKinds,
                      NEW p \in Requests, NEW q \in Requests, p # q, SameRequest(req[p], req[q]),
                      req[p].pc = "done", req[q].pc = "done", req[p].answer = "ok"
               PROVE  req[q].answer \notin {"ok", "version", "key_conflict"}
    BY DEF RetryAnsweredLocked, RetryAnswered
  <2>1. Recorded(req[p]) /\ \E i \in DOMAIN log : log[i].by = p
    BY DEF Inv, Once
  <2>2. Recorded(req[q])
    BY <2>1 DEF Recorded, SameRequest, Body
  <2>3. req[q].answer \notin {"version", "key_conflict"}
    <3>1. PICK i \in DOMAIN log : log[i].by = p
      BY <2>1
    <3>2. log[i].cmd = req[p].cmd /\ log[i].key = req[p].key /\ log[i].seen = req[p].seen
      BY <3>1 DEF Inv, Once
    <3>3. i \in Entered(req[q])
      BY <3>2 DEF Entered, SameRequest
    <3> QED
      BY <2>2, <3>3 DEF Inv, ToldTrue
  <2>4. req[q].answer # "ok"
    <3> SUFFICES ASSUME req[q].answer = "ok" PROVE FALSE
      OBVIOUS
    <3>1. PICK i \in DOMAIN log : log[i].by = p
      BY <2>1
    <3>2. PICK j \in DOMAIN log : log[j].by = q
      BY DEF Inv, Once
    <3>3. /\ log[i].cmd = req[p].cmd /\ log[i].key = req[p].key
          /\ log[j].cmd = req[q].cmd /\ log[j].key = req[q].key
      BY <3>1, <3>2 DEF Inv, Once
    <3>4. i = j
      BY <3>3 DEF Inv, Once, SameRequest
    <3> QED
      BY <3>1, <3>2, <3>4
  <2> QED
    BY <2>3, <2>4
<1> QED
  BY <1>1, InvHolds, PTL

-----------------------------------------------------------------------------
(* Lost updates.  As long as no two commands were computed from the same   *)
(* version, a request that has read the present version has read the       *)
(* present row, and whoever has read an older one would be the second to   *)
(* write from it.                                                          *)
Overwritten == {"organization", "project", "cluster"}

Told == TightenHolds /\ HasOwner /\ HistoryComplete

Apart ==
  /\ row.ver = 1 + Len(log)
  /\ \A i \in DOMAIN log : log[i].from = i
  /\ \A q \in Requests : req[q].pc = "read" =>
       req[q].base.ver \in 1..row.ver /\ (req[q].base.ver = row.ver => req[q].base = row)

RaceInv == kind \in Overwritten => Raced \/ (Apart /\ Told)

(* What an effect makes of the row its request had read.                   *)
Writes(q) ==
  LET u == req[q].arg
      base == req[q].base
  IN  /\ kind = "organization" =>
           \/ req[q].cmd = "org.tighten" /\ row'.tight = base.tight \cup {u}
           \/ req[q].cmd = "org.restore" /\ row'.tight = base.tight \ {u}
           \/ req[q].cmd = "org.siem" /\ row'.tight = row.tight
      /\ kind = "cluster" => row'.tight = base.tight \cup {u}
      /\ kind = "project" /\ base = row /\ Owners(row) # {} => Owners(row') # {}

Effected(q) ==
  /\ req[q].pc = "read" /\ Answered(q, "ok")
  /\ log' = Append(log, Entry(q, req[q].base))
  /\ row'.ver = req[q].base.ver + 1 /\ Writes(q)

Rests(q) ==
  /\ UNCHANGED <<kind, row, log>>
  /\ \E d : Becomes(q, d) /\ (d.pc = "read" => d.base = row)

LEMMA OverwrittenCommands ==
  /\ CommandsOf["organization"] = {"org.tighten", "org.siem", "org.restore"}
  /\ CommandsOf["project"] = {"member.add", "member.patch_role", "member.remove"}
  /\ CommandsOf["cluster"] = {"cluster.correct"}
  BY DEF CommandsOf

LEMMA AnsweredRests ==
  ASSUME Typed, NEW q \in Requests, req[q].pc \in {"sent", "read", "done"},
         NEW answer \in Answers, NoEffect(q, answer)
  PROVE  Rests(q)
<1>1. PICK d : Becomes(q, d) /\ d.pc = "done"
  BY AnsweredReq DEF NoEffect
<1> QED
  BY <1>1 DEF Rests, NoEffect, Answered

(* Whoever decides on what the request had read rests, or takes effect.    *)
LEMMA DecideOverwrites ==
  ASSUME Typed, kind \in Overwritten, NEW q \in Requests, req[q].pc = "read",
         NEW ok, NEW new \in Rows, Decide(q, req[q].base, ok, new)
  PROVE  \/ Rests(q)
         \/ /\ ok /\ Answered(q, "ok") /\ log' = Append(log, Entry(q, req[q].base))
            /\ row' = [new EXCEPT !.ver = req[q].base.ver + 1]
<1> DEFINE base == req[q].base
<1>1. CASE ~Seen(q, base)
  BY <1>1, AnsweredRests DEF Decide, Answers
<1>2. CASE Seen(q, base) /\ ~ok
  BY <1>2, AnsweredRests DEF Decide, Answers
<1>3. CASE Seen(q, base) /\ ok
  <2>1. TakesEffect(q, base, Counted(base, new))
    BY <1>3 DEF Decide
  <2>2. Counted(base, new) = [new EXCEPT !.ver = base.ver + 1]
    BY DEF Counted, Overwritten
  <2>3. CASE Prior(req[q]) # {}
    BY <2>1, <2>3, AnsweredRests DEF TakesEffect, Answers
  <2>4. CASE Prior(req[q]) = {}
    BY <1>3, <2>1, <2>2, <2>4 DEF TakesEffect, Entry
  <2> QED
    BY <2>3, <2>4
<1> QED
  BY <1>1, <1>2, <1>3

LEMMA TightChanged ==
  ASSUME NEW r \in Rows, NEW t \in SUBSET Args, NEW v \in Nat
  PROVE  /\ [r EXCEPT !.tight = t] \in Rows
         /\ [[r EXCEPT !.tight = t] EXCEPT !.ver = v].tight = t
         /\ [[r EXCEPT !.tight = t] EXCEPT !.ver = v].ver = v
         /\ [r EXCEPT !.ver = v].tight = r.tight /\ [r EXCEPT !.ver = v].ver = v
  BY DEF Rows

(* Those that write the set leave it as they say.                          *)
LEMMA TightOverwrites ==
  ASSUME Typed, kind \in Overwritten, NEW q \in Requests, req[q].pc = "read", NEW ok,
         NEW t \in SUBSET Args, Decide(q, req[q].base, ok, [row EXCEPT !.tight = t])
  PROVE  \/ Rests(q)
         \/ /\ Answered(q, "ok") /\ log' = Append(log, Entry(q, req[q].base))
            /\ row'.ver = req[q].base.ver + 1 /\ row'.tight = t
<1> DEFINE v == req[q].base.ver + 1
<1>1. row \in Rows /\ v \in Nat
  BY DEF Typed, ReqType, Rows
<1> HIDE DEF v
<1>2. /\ [row EXCEPT !.tight = t] \in Rows
      /\ [[row EXCEPT !.tight = t] EXCEPT !.ver = v].tight = t
      /\ [[row EXCEPT !.tight = t] EXCEPT !.ver = v].ver = v
  BY <1>1, TightChanged
<1>3. \/ Rests(q)
      \/ /\ Answered(q, "ok") /\ log' = Append(log, Entry(q, req[q].base))
         /\ row' = [[row EXCEPT !.tight = t] EXCEPT !.ver = v]
  BY <1>2, DecideOverwrites DEF v
<1> QED
  BY <1>2, <1>3 DEF v

LEMMA RoleChanged ==
  ASSUME NEW r \in Rows, NEW u \in Args, NEW role \in Roles, NEW v \in Nat
  PROVE  /\ [[r EXCEPT !.roles[u] = role] EXCEPT !.ver = v].roles = [r.roles EXCEPT ![u] = role]
         /\ [[r EXCEPT !.roles[u] = role] EXCEPT !.ver = v].ver = v
         /\ r.roles \in [Args -> Roles]
  BY DEF Rows

(* The check for the last owner leaves an owner, if it was made on the row *)
(* that is changed.                                                        *)
LEMMA OwnerLeft ==
  ASSUME NEW r \in Rows, NEW new, NEW u \in Args, NEW role \in Roles,
         new.roles = [r.roles EXCEPT ![u] = role], Owners(r) # {},
         r.roles[u] = "none" \/ ~LastOwner(r, u, role)
  PROVE  Owners(new) # {}
<1>1. r.roles \in [Args -> Roles]
  BY DEF Rows
<1>2. PICK w \in Args : r.roles[w] = "owner"
  BY DEF Owners
<1>3. CASE role = "owner"
  BY <1>1, <1>3 DEF Owners
<1>4. CASE role # "owner" /\ \E x \in Args : x # u /\ r.roles[x] = "owner"
  BY <1>1, <1>4 DEF Owners
<1>5. CASE role # "owner" /\ \A x \in Args : x # u => r.roles[x] # "owner"
  <2>1. w = u /\ Owners(r) = {u}
    BY <1>2, <1>5 DEF Owners
  <2> QED
    BY <1>2, <1>5, <2>1 DEF LastOwner
<1> QED
  BY <1>3, <1>4, <1>5

(* The handlers of the three rows.                                         *)
LEMMA HandleOverwrites ==
  ASSUME Typed, kind \in Overwritten, NEW q \in Requests, Handle(q)
  PROVE  Rests(q) \/ Effected(q)
<1> DEFINE base == req[q].base
           u == req[q].arg
<1>1. row \in Rows /\ req[q].role \in Roles /\ "none" \in Roles
  BY DEF Typed, ReqType, ReqRecords, Roles
<1>2. req[q].pc = "read" => base \in Rows /\ u \in Args /\ base.ver + 1 \in Nat
  BY DEF Typed, ReqType, Rows
<1>3. req[q].pc \in {"sent", "read", "done"} =>
        req[q].cmd \in {"org.tighten", "org.siem", "org.restore", "member.add",
                        "member.patch_role", "member.remove", "cluster.correct"}
  BY OverwrittenCommands DEF Typed, ReqType, Overwritten
<1>4. req[q].pc \in {"sent", "read", "done"} =>
        /\ req[q].cmd \in {"org.tighten", "org.siem", "org.restore"} <=> kind = "organization"
        /\ req[q].cmd = "cluster.correct" <=> kind = "cluster"
        /\ req[q].cmd \in {"member.add", "member.patch_role", "member.remove"} <=> kind = "project"
  BY OverwrittenCommands DEF Typed, ReqType, Overwritten
<1>5. CASE LookUp(q)
  <2>1. CASE Prior(req[q]) # {}
    BY <1>5, <2>1, AnsweredRests DEF LookUp, Replay, Answers
  <2>2. CASE Prior(req[q]) = {}
    <3>1. Looks(q)
      BY <1>5, <2>2 DEF LookUp, Looks
    <3> DEFINE d == [[req[q] EXCEPT !.pc = "read"] EXCEPT !.base = row]
    <3>2. req' = [req EXCEPT ![q] = d] /\ req \in [Requests -> ReqRecords]
      BY <3>1 DEF Looks, Typed, ReqType
    <3>3. d.base = row
      BY <1>1, HasLooked DEF Typed, ReqType
    <3> HIDE DEF d
    <3>4. Becomes(q, d)
      BY <3>2 DEF Becomes
    <3> QED
      BY <3>1, <3>3, <3>4 DEF Rests, Looks
  <2> QED
    BY <2>1, <2>2
<1>6. CASE Tighten(q)
  <2>1. /\ req[q].pc = "read" /\ req[q].cmd = "org.tighten" /\ kind = "organization"
        /\ Decide(q, base, TRUE, [row EXCEPT !.tight = base.tight \cup {u}])
    BY <1>4, <1>6 DEF Tighten, Going
  <2>2. base.tight \cup {u} \in SUBSET Args
    BY <1>2, <2>1 DEF Rows
  <2> QED
    BY <2>1, <2>2, TightOverwrites DEF Effected, Writes
<1>7. CASE RestoreControls(q)
  <2>1. /\ req[q].pc = "read" /\ req[q].cmd = "org.restore" /\ kind = "organization"
        /\ Decide(q, base, TRUE, [row EXCEPT !.tight = base.tight \ {u}])
    BY <1>4, <1>7 DEF RestoreControls, Going
  <2>2. base.tight \ {u} \in SUBSET Args
    BY <1>2, <2>1 DEF Rows
  <2> QED
    BY <2>1, <2>2, TightOverwrites DEF Effected, Writes
<1>8. CASE PutSiemExport(q)
  <2>1. PICK enabled \in BOOLEAN : Decide(q, base, ~enabled, row)
    BY <1>8 DEF PutSiemExport
  <2>2. req[q].pc = "read" /\ req[q].cmd = "org.siem" /\ kind = "organization"
    BY <1>4, <1>8 DEF PutSiemExport, Going
  <2>3. /\ [row EXCEPT !.ver = base.ver + 1].tight = row.tight
        /\ [row EXCEPT !.ver = base.ver + 1].ver = base.ver + 1
    BY <1>1, <1>2, <2>2, TightChanged DEF Rows
  <2>4. \/ Rests(q)
        \/ /\ Answered(q, "ok") /\ log' = Append(log, Entry(q, base))
           /\ row' = [row EXCEPT !.ver = base.ver + 1]
    BY <1>1, <2>1, <2>2, DecideOverwrites
  <2> QED
    BY <2>2, <2>3, <2>4 DEF Effected, Writes
<1>9. CASE CorrectCluster(q)
  <2>1. PICK fits \in BOOLEAN : Decide(q, base, fits, [row EXCEPT !.tight = base.tight \cup {u}])
    BY <1>9 DEF CorrectCluster
  <2>2. req[q].pc = "read" /\ req[q].cmd = "cluster.correct" /\ kind = "cluster"
    BY <1>4, <1>9 DEF CorrectCluster, Going
  <2>3. base.tight \cup {u} \in SUBSET Args
    BY <1>2, <2>2 DEF Rows
  <2> QED
    BY <2>1, <2>2, <2>3, TightOverwrites DEF Effected, Writes
<1>10. CASE AddMember(q)
  <2>1. req[q].pc = "read" /\ req[q].cmd = "member.add" /\ kind = "project"
    BY <1>4, <1>10 DEF AddMember, Going
  <2>2. CASE NoEffect(q, "error")
    BY <2>1, <2>2, AnsweredRests DEF Answers
  <2>3. CASE Decide(q, base, base.roles[u] = "none", [row EXCEPT !.roles[u] = req[q].role])
    <3>1. [row EXCEPT !.roles[u] = req[q].role] \in Rows
      BY <1>1, <1>2, <2>1, RowPatches
    <3>2. \/ Rests(q)
          \/ /\ base.roles[u] = "none" /\ Answered(q, "ok") /\ log' = Append(log, Entry(q, base))
             /\ row' = [[row EXCEPT !.roles[u] = req[q].role] EXCEPT !.ver = base.ver + 1]
      BY <2>1, <2>3, <3>1, DecideOverwrites
    <3>3. row' = [[row EXCEPT !.roles[u] = req[q].role] EXCEPT !.ver = base.ver + 1] =>
            row'.ver = base.ver + 1 /\ row'.roles = [row.roles EXCEPT ![u] = req[q].role]
      BY <1>1, <1>2, <2>1, RoleChanged
    <3> QED
      BY <1>1, <1>2, <2>1, <3>2, <3>3, OwnerLeft DEF Effected, Writes
  <2> QED
    BY <1>10, <2>2, <2>3 DEF AddMember
<1>11. CASE PatchRole(q)
  <2>1. req[q].pc = "read" /\ req[q].cmd = "member.patch_role" /\ kind = "project"
    BY <1>4, <1>11 DEF PatchRole, Going
  <2>2. CASE NoEffect(q, "error")
    BY <2>1, <2>2, AnsweredRests DEF Answers
  <2> DEFINE ok == base.roles[u] # "none" /\ ~LastOwner(base, u, req[q].role)
  <2>3. CASE Decide(q, base, ok, [row EXCEPT !.roles[u] = req[q].role])
    <3>1. [row EXCEPT !.roles[u] = req[q].role] \in Rows
      BY <1>1, <1>2, <2>1, RowPatches
    <3>2. \/ Rests(q)
          \/ /\ ok /\ Answered(q, "ok") /\ log' = Append(log, Entry(q, base))
             /\ row' = [[row EXCEPT !.roles[u] = req[q].role] EXCEPT !.ver = base.ver + 1]
      BY <2>1, <2>3, <3>1, DecideOverwrites
    <3>3. row' = [[row EXCEPT !.roles[u] = req[q].role] EXCEPT !.ver = base.ver + 1] =>
            row'.ver = base.ver + 1 /\ row'.roles = [row.roles EXCEPT ![u] = req[q].role]
      BY <1>1, <1>2, <2>1, RoleChanged
    <3> QED
      BY <1>1, <1>2, <2>1, <3>2, <3>3, OwnerLeft DEF Effected, Writes
  <2> QED
    BY <1>11, <2>2, <2>3 DEF PatchRole
<1>12. CASE RemoveMember(q)
  <2>1. req[q].pc = "read" /\ req[q].cmd = "member.remove" /\ kind = "project"
    BY <1>4, <1>12 DEF RemoveMember, Going
  <2> DEFINE ok == base.roles[u] # "none" /\ ~LastOwner(base, u, "none")
  <2>2. Decide(q, base, ok, [row EXCEPT !.roles[u] = "none"])
    BY <1>12 DEF RemoveMember
  <2>3. [row EXCEPT !.roles[u] = "none"] \in Rows
    BY <1>1, <1>2, <2>1, RowPatches
  <2>4. \/ Rests(q)
        \/ /\ ok /\ Answered(q, "ok") /\ log' = Append(log, Entry(q, base))
           /\ row' = [[row EXCEPT !.roles[u] = "none"] EXCEPT !.ver = base.ver + 1]
    BY <2>1, <2>2, <2>3, DecideOverwrites
  <2>5. row' = [[row EXCEPT !.roles[u] = "none"] EXCEPT !.ver = base.ver + 1] =>
          row'.ver = base.ver + 1 /\ row'.roles = [row.roles EXCEPT ![u] = "none"]
    BY <1>1, <1>2, <2>1, RoleChanged
  <2> QED
    BY <1>1, <1>2, <2>1, <2>4, <2>5, OwnerLeft DEF Effected, Writes
<1>13. CASE ~(LookUp(q) \/ Tighten(q) \/ RestoreControls(q) \/ PutSiemExport(q)
               \/ CorrectCluster(q) \/ AddMember(q) \/ PatchRole(q) \/ RemoveMember(q))
  BY <1>3, <1>13
     DEF Handle, LockFirst, PatchPlan, PutCaseIds, PutSchedule, PatchPolicy, Going, PatchConnector,
         BindCredential, PutOutboundChannels, PutTriggerBindings, RevokeToken, CreateBaseline,
         DeactivateBaseline, PutModelRoute, Insert, CreatePlan, RegisterImport, CreatePolicy,
         IssueToken, CreateConnector
<1> QED
  BY <1>5, <1>6, <1>7, <1>8, <1>9, <1>10, <1>11, <1>12, <1>13

LEMMA RaceInit == Init => RaceInv
<1> SUFFICES ASSUME Init, kind \in Overwritten PROVE Apart /\ Told
  BY DEF RaceInv
<1>1. PICK roles \in [Args -> Roles] :
        /\ \E u \in Args : roles[u] = "owner"
        /\ row = [there |-> kind # "trigger", ver |-> IF kind = "trigger" THEN 0 ELSE 1, rev |-> 1,
                  flag |-> TRUE, tight |-> {},
                  roles |-> IF kind = "project" THEN roles ELSE [u \in Args |-> "none"]]
  BY DEF Init
<1>2. log = <<>> /\ \A q \in Requests : req[q].pc = "new"
  BY DEF Init, NotSent
<1>3. row.ver = 1 /\ row.tight = {} /\ (kind = "project" => Owners(row) # {})
  BY <1>1 DEF Overwritten, Owners
<1>4. Apart
  BY <1>2, <1>3 DEF Apart
<1>5. Told
  BY <1>2, <1>3 DEF Told, TightenHolds, Effective, HasOwner, HistoryComplete
<1> QED
  BY <1>4, <1>5

(* A request that changes place without an effect has read the present row.*)
LEMMA RestStep ==
  ASSUME Inv, RaceInv, kind \in Overwritten, NEW q \in Requests,
         UNCHANGED <<kind, row, log>>, NEW d, Becomes(q, d), d.pc = "read" => d.base = row
  PROVE  RaceInv'
<1>1. Raced' = Raced /\ Told' = Told
  BY DEF Raced, Told, TightenHolds, Effective, HasOwner, HistoryComplete, Owners
<1>2. row.ver = 1 + Len(log) => row.ver \in 1..row.ver
  BY DEF Inv, Typed
<1>3. Apart => Apart'
  BY <1>2 DEF Apart, Becomes
<1> QED
  BY <1>1, <1>3 DEF RaceInv

(* An effect of a request that has not read the present row is a race: its *)
(* version is that of an entry.  An effect of one that has is told.        *)
LEMMA OverwriteStep ==
  ASSUME Inv, RaceInv, kind \in Overwritten, NEW q \in Requests, Effected(q)
  PROVE  RaceInv'
<1> DEFINE base == req[q].base
           n == Len(log) + 1
           e == Entry(q, base)
<1>1. log \in Seq(Entries) /\ Len(log) \in Nat /\ kind' = kind /\ req[q].pc = "read"
  BY DEF Inv, Typed, Effected, Answered
<1>2. /\ DOMAIN log = 1..Len(log) /\ DOMAIN log' = 1..n /\ Len(log') = n
      /\ \A i \in DOMAIN log : log'[i] = log[i]
      /\ log'[n] = e
      /\ e.by = q /\ e.cmd = req[q].cmd /\ e.arg = req[q].arg /\ e.from = base.ver
  <2>1. e \in Entries
    BY <1>1 DEF Inv, Typed, ReqType, ReqRecords, Entry, Entries, Rows
  <2>2. e.by = q /\ e.cmd = req[q].cmd /\ e.arg = req[q].arg /\ e.from = base.ver
    BY DEF Entry
  <2> HIDE DEF e
  <2>3. log' = Append(log, e)
    BY DEF Effected, e
  <2> QED
    BY <1>1, <2>1, <2>2, <2>3
<1>3. Raced => Raced'
  <2>1. DOMAIN log \subseteq DOMAIN log'
    BY <1>1, <1>2
  <2> QED
    BY <1>2, <2>1 DEF Raced
<1> SUFFICES ASSUME ~Raced', Apart, Told PROVE Apart' /\ Told'
  BY <1>3 DEF RaceInv
<1>4. base = row
  <2>1. base.ver \in 1..row.ver /\ row.ver = n
    BY <1>1 DEF Apart
  <2>2. CASE base.ver \in DOMAIN log
    <3>1. log'[base.ver].from = base.ver /\ log'[n].from = base.ver
      BY <1>2, <2>2 DEF Apart
    <3>2. base.ver \in DOMAIN log' /\ n \in DOMAIN log' /\ base.ver # n
      BY <1>1, <1>2, <2>2
    <3> QED
      BY <3>1, <3>2 DEF Raced
  <2>3. CASE base.ver = row.ver
    BY <1>1, <2>3 DEF Apart
  <2> QED
    BY <1>1, <1>2, <2>1, <2>2, <2>3
<1>5. Apart'
  <2>1. row'.ver = n + 1 /\ row.ver = n
    BY <1>1, <1>4 DEF Apart, Effected
  <2>2. \A i \in DOMAIN log' : log'[i].from = i
    <3> TAKE i \in DOMAIN log'
    <3>1. CASE i = n
      BY <1>2, <1>4, <2>1, <3>1
    <3>2. CASE i \in DOMAIN log
      BY <1>2, <3>2 DEF Apart
    <3> QED
      BY <1>1, <1>2, <3>1, <3>2
  <2>3. PICK d : Becomes(q, d) /\ d.pc = "done"
    BY <1>1, AnsweredReq DEF Inv, Effected, Answers
  <2>4. \A p \in Requests : req'[p].pc = "read" => p # q /\ req'[p] = req[p]
    BY <2>3 DEF Becomes
  <2>5. \A p \in Requests : req'[p].pc = "read" =>
          req'[p].base.ver \in 1..n
    BY <2>1, <2>4 DEF Apart
  <2> QED
    BY <1>1, <1>2, <2>1, <2>2, <2>5 DEF Apart
<1>6. \A i \in DOMAIN log' : i = n \/ i \in DOMAIN log
  BY <1>1, <1>2
<1>7. TightenHolds'
  <2> SUFFICES ASSUME kind = "organization" PROVE row'.tight = Effective'
    BY <1>1 DEF TightenHolds
  <2>1. row.tight = Effective /\ req[q].arg \in Args
    BY <1>1 DEF Told, TightenHolds, Inv, Typed, ReqType
  <2>2. \A i \in DOMAIN log : i \in DOMAIN log' /\ n > i /\ n \in DOMAIN log'
    BY <1>1, <1>2
  <2>3. CASE req[q].cmd = "org.tighten" /\ row'.tight = base.tight \cup {req[q].arg}
    <3>1. Effective' = Effective \cup {req[q].arg}
      <4>1. ASSUME NEW t \in Effective PROVE t \in Effective'
        BY <1>2, <1>6, <2>2, <2>3, <4>1 DEF Effective
      <4>2. req[q].arg \in Effective'
        <5>1. n \in DOMAIN log' /\ \A j \in DOMAIN log' : ~(j > n)
          BY <1>1, <1>2
        <5> QED
          BY <1>2, <2>1, <2>3, <5>1 DEF Effective
      <4>3. ASSUME NEW t \in Effective', t # req[q].arg PROVE t \in Effective
        BY <1>2, <1>6, <2>2, <2>3, <4>3 DEF Effective
      <4> QED
        BY <4>1, <4>2, <4>3
    <3> QED
      BY <1>4, <2>1, <2>3, <3>1
  <2>4. CASE req[q].cmd = "org.restore" /\ row'.tight = base.tight \ {req[q].arg}
    <3>1. Effective' = Effective \ {req[q].arg}
      <4>1. ASSUME NEW t \in Effective, t # req[q].arg PROVE t \in Effective'
        BY <1>2, <1>6, <2>2, <2>4, <4>1 DEF Effective
      <4>2. ASSUME NEW t \in Effective' PROVE t \in Effective /\ t # req[q].arg
        BY <1>2, <1>6, <2>2, <2>4, <4>2 DEF Effective
      <4> QED
        BY <4>1, <4>2
    <3> QED
      BY <1>4, <2>1, <2>4, <3>1
  <2>5. CASE req[q].cmd = "org.siem" /\ row'.tight = row.tight
    <3>1. Effective' = Effective
      <4>1. ASSUME NEW t \in Effective PROVE t \in Effective'
        BY <1>2, <1>6, <2>2, <2>5, <4>1 DEF Effective
      <4>2. ASSUME NEW t \in Effective' PROVE t \in Effective
        BY <1>2, <1>6, <2>2, <2>5, <4>2 DEF Effective
      <4> QED
        BY <4>1, <4>2
    <3> QED
      BY <2>1, <2>5, <3>1
  <2> QED
    BY <2>3, <2>4, <2>5 DEF Effected, Writes
<1>8. HasOwner'
  BY <1>1, <1>4 DEF Told, HasOwner, Effected, Writes
<1>9. HistoryComplete'
  <2> SUFFICES ASSUME kind = "cluster" PROVE row'.tight = {log'[i].arg : i \in DOMAIN log'}
    BY <1>1 DEF HistoryComplete
  <2>1. row'.tight = row.tight \cup {e.arg} /\ row.tight = {log[i].arg : i \in DOMAIN log}
    BY <1>2, <1>4 DEF Told, HistoryComplete, Effected, Writes
  <2>2. {log'[i].arg : i \in DOMAIN log'} = {log[i].arg : i \in DOMAIN log} \cup {e.arg}
    <3>1. DOMAIN log' = DOMAIN log \cup {n}
      BY <1>1, <1>2
    <3>2. /\ {log'[i].arg : i \in DOMAIN log} = {log[i].arg : i \in DOMAIN log}
          /\ log'[n].arg = e.arg
      BY <1>2
    <3> HIDE DEF e, n
    <3>3. {log'[i].arg : i \in DOMAIN log \cup {n}} =
            {log'[i].arg : i \in DOMAIN log} \cup {log'[n].arg}
      OBVIOUS
    <3> QED
      BY <3>1, <3>2, <3>3
  <2> QED
    BY <2>1, <2>2
<1> QED
  BY <1>5, <1>7, <1>8, <1>9 DEF Told

LEMMA RaceStep == Inv /\ RaceInv /\ [Next]_vars => RaceInv'
<1> SUFFICES ASSUME Inv, RaceInv, [Next]_vars, kind' \in Overwritten PROVE RaceInv'
  BY DEF RaceInv
<1>1. CASE UNCHANGED vars
  BY <1>1 DEF vars, RaceInv, Apart, Told, Raced, TightenHolds, Effective, HasOwner, Owners,
              HistoryComplete
<1>2. CASE Next
  <2>1. PICK q \in Requests : \/ Send(q) \/ Elsewhere(q) \/ Handle(q) \/ Dies(q)
                             \/ \E p \in Requests : Resend(q, p)
    BY <1>2 DEF Next
  <2>2. CASE Send(q)
    <3>1. kind \in Overwritten /\ UNCHANGED <<kind, row, log>>
      BY <2>2 DEF Send
    <3>2. PICK d : Becomes(q, d) /\ d.pc = "sent"
      BY <2>2, SendReq DEF Inv
    <3> QED
      BY <3>1, <3>2, RestStep
  <2>3. CASE Handle(q)
    <3>1. kind \in Overwritten
      <4>1. kind' = kind
        BY <2>3, HandleEnds DEF Inv, Ends, Fails, Looks, Succeeds, NoEffect, Answered, TakesEffect
      <4> QED
        BY <4>1
    <3>2. CASE Rests(q)
      BY <3>1, <3>2, RestStep DEF Rests
    <3>3. CASE Effected(q)
      BY <3>1, <3>3, OverwriteStep
    <3> QED
      BY <2>3, <3>1, <3>2, <3>3, HandleOverwrites DEF Inv
  <2>4. CASE Dies(q)
    <3>1. req[q].pc \in {"sent", "read", "done"} /\ NoEffect(q, "error") /\ kind' = kind
      BY <2>4 DEF Dies, NoEffect, Answered
    <3>2. Rests(q)
      BY <3>1, AnsweredRests DEF Inv, Answers
    <3> QED
      BY <3>1, <3>2, RestStep DEF Rests
  <2>5. ASSUME NEW p \in Requests, Resend(q, p) PROVE RaceInv'
    <3>1. kind \in Overwritten /\ UNCHANGED <<kind, row, log>>
      BY <2>5 DEF Resend
    <3>2. PICK d : Becomes(q, d) /\ d.pc = "sent"
      BY <2>5, ResendReq DEF Inv
    <3> QED
      BY <3>1, <3>2, RestStep
  <2>6. CASE Elsewhere(q)
    <3>1. kind \in Overwritten /\ UNCHANGED <<kind, row, log>>
      BY <2>6 DEF Elsewhere
    <3>2. PICK d : Becomes(q, d) /\ d.pc = "elsewhere"
      BY <2>6, ElsewhereReq DEF Inv
    <3> QED
      BY <3>1, <3>2, RestStep
  <2> QED
    BY <2>1, <2>2, <2>3, <2>4, <2>5, <2>6
<1> QED
  BY <1>1, <1>2

(* What tightening, membership changes and corrections without a lock lose *)
(* is lost by a race: as long as no two of them were computed from the same*)
(* row, the switches are as asked for, the project has an owner and the    *)
(* history of the cluster is complete.                                     *)
THEOREM LostByRaceOnlyHolds == Spec => []LostByRaceOnly
<1>1. RaceInv => LostByRaceOnly
  BY DEF RaceInv, Overwritten, Told, LostByRaceOnly, TightenHolds, HasOwner, HistoryComplete
<1>2. Spec => []RaceInv
  BY InvHolds, RaceInit, RaceStep, PTL DEF Spec
<1> QED
  BY <1>1, <1>2, PTL

-----------------------------------------------------------------------------
(* The contract of commands                                                *)

ShownVersion == IF kind \in LockedKinds THEN row.ver ELSE 1 + Len(log)
ShownDone ==
  {[id |-> <<p.cmd, p.key>>, body |-> p.body] : p \in idem}
ShownAsked == [q \in Requests |-> ContractAsked(req[q])]
ShownAnswer == [q \in Requests |-> ContractAnswer(req[q])]
ShownKeyFirst == kind \in LockFirstKinds

(* Of a request that changes the contract sees the answer, and as long as  *)
(* it is about the same command nothing else.                              *)
LEMMA OneCallShown ==
  ASSUME NEW q \in Requests, NEW d, Becomes(q, d), kind' = kind
  PROVE  /\ \A p \in Requests \ {q} : ShownAnswer'[p] = ShownAnswer[p] /\ ShownAsked'[p] = ShownAsked[p]
         /\ ShownAnswer[q] = ContractAnswer(req[q]) /\ ShownAnswer'[q] = ContractAnswer(d)
         /\ SameCommand(d, req[q]) => ShownAsked' = ShownAsked
         /\ ShownKeyFirst' = ShownKeyFirst
<1>1. \A p \in Requests \ {q} : ContractAnswer(req[p])' = ContractAnswer(req[p])
                              /\ ContractAsked(req[p])' = ContractAsked(req[p])
  BY DEF Becomes, ContractAnswer, ContractAsked
<1>2. ContractAnswer(req[q])' = ContractAnswer(d) /\ ContractAsked(req[q])' = ContractAsked(d)
  BY DEF Becomes, ContractAnswer, ContractAsked
<1>3. SameCommand(d, req[q]) => ContractAsked(d) = ContractAsked(req[q])
  BY SameBody DEF SameCommand, ContractAsked
<1> QED
  BY <1>1, <1>2, <1>3 DEF ShownAnswer, ShownAsked, ShownKeyFirst

(* What is stored under a key, and whether the version a request names is  *)
(* the present one, look the same to the handlers and to the contract.     *)
LEMMA LookShown ==
  ASSUME NEW q \in Requests
  PROVE  /\ Contract!Prior(q) = {} <=> Prior(req[q]) = {}
         /\ Contract!Command(q) \in ShownDone <=> Recorded(req[q])
         /\ Contract!Current(q) <=> (kind \in LockedKinds => Seen(q, row))
<1> DEFINE shown(p) == [id |-> <<p.cmd, p.key>>, body |-> p.body]
<1>1. Contract!Prior(q) = {} <=> Prior(req[q]) = {}
  <2>1. Contract!Prior(q) = {x \in ShownDone : x.id = <<req[q].cmd, req[q].key>>}
    BY DEF Contract!Prior, ShownDone, ContractAsked
  <2>2. ASSUME NEW p \in Prior(req[q]) PROVE Contract!Prior(q) # {}
    <3>1. shown(p) \in ShownDone /\ shown(p).id = <<req[q].cmd, req[q].key>>
      BY <2>2 DEF Prior, ShownDone
    <3> QED
      BY <2>1, <3>1
  <2>3. ASSUME NEW x \in Contract!Prior(q) PROVE Prior(req[q]) # {}
    <3>1. PICK p \in idem : x = shown(p)
      BY <2>1, <2>3 DEF ShownDone
    <3>2. p.cmd = req[q].cmd /\ p.key = req[q].key
      BY <2>1, <2>3, <3>1
    <3> QED
      BY <3>1, <3>2 DEF Prior
  <2> QED
    BY <2>2, <2>3
<1>2. Contract!Command(q) \in ShownDone <=> Recorded(req[q])
  BY DEF Contract!Command, ShownDone, Recorded, ContractAsked
<1>3. Contract!Current(q) <=> (kind \in LockedKinds => Seen(q, row))
  BY DEF Contract!Current, ContractAsked, Seen
<1> QED
  BY <1>1, <1>2, <1>3

(* The contract's names for what it is shown.                              *)
LEMMA ContractSteps ==
  /\ \A q \in Requests :
       /\ Contract!Send(q) <=>
            /\ ShownAnswer[q] = "unsent" /\ ShownAnswer'[q] = "pending"
            /\ \A p \in Requests \ {q} : ShownAsked'[p] = ShownAsked[p]
            /\ UNCHANGED <<ShownVersion, ShownDone, ShownKeyFirst>>
       /\ Contract!TakeEffect(q) <=>
            /\ ShownAnswer'[q] = "ok" /\ Contract!Prior(q) = {} /\ Contract!Current(q)
            /\ ShownVersion' = ShownVersion + 1
            /\ ShownDone' = ShownDone \cup {Contract!Command(q)}
       /\ Contract!Replay(q) <=> ShownAnswer'[q] = "replayed" /\ Contract!Command(q) \in ShownDone
       /\ Contract!Conflict(q) <=>
            /\ ShownAnswer'[q] = "key_conflict" /\ Contract!Prior(q) # {}
            /\ Contract!Command(q) \notin ShownDone
       /\ Contract!Stale(q) <=>
            /\ ShownAnswer'[q] = "version" /\ ~Contract!Current(q)
            /\ ShownKeyFirst => Contract!Prior(q) = {}
       /\ Contract!Refuse(q) <=> ShownAnswer'[q] \in {"refused", "error"}
       /\ Contract!Reply(q) <=>
            /\ ShownAnswer[q] = "pending" /\ ShownAnswer'[q] # "pending"
            /\ UNCHANGED <<ShownAsked, ShownKeyFirst>>
            /\ \/ Contract!TakeEffect(q)
               \/ /\ Contract!Replay(q) \/ Contract!Conflict(q) \/ Contract!Stale(q) \/ Contract!Refuse(q)
                  /\ UNCHANGED <<ShownVersion, ShownDone>>
  /\ Contract!Next <=>
       \/ \E q \in Requests : /\ Contract!Send(q) \/ Contract!Reply(q)
                              /\ \A p \in Requests \ {q} : ShownAnswer'[p] = ShownAnswer[p]
       \/ \E d \in ShownDone' :
            /\ d \notin ShownDone /\ \A p \in ShownDone : p.id # d.id
            /\ ShownDone' = ShownDone \cup {d}
            /\ UNCHANGED <<ShownVersion, ShownAsked, ShownAnswer, ShownKeyFirst>>
<1> USE DEF ShownVersion, ShownDone, ShownAsked, ShownAnswer, ShownKeyFirst
<1>1. ASSUME NEW q \in Requests
      PROVE  /\ Contract!Send(q) <=>
                  /\ ShownAnswer[q] = "unsent" /\ ShownAnswer'[q] = "pending"
                  /\ \A p \in Requests \ {q} : ShownAsked'[p] = ShownAsked[p]
                  /\ UNCHANGED <<ShownVersion, ShownDone, ShownKeyFirst>>
             /\ Contract!TakeEffect(q) <=>
                  /\ ShownAnswer'[q] = "ok" /\ Contract!Prior(q) = {} /\ Contract!Current(q)
                  /\ ShownVersion' = ShownVersion + 1
                  /\ ShownDone' = ShownDone \cup {Contract!Command(q)}
  BY DEF Contract!Send, Contract!TakeEffect
<1> QED
  BY <1>1
     DEF Contract!Replay, Contract!Conflict, Contract!Stale, Contract!Refuse, Contract!Reply,
         Contract!Elsewhere, Contract!Next

LEMMA SendShown ==
  ASSUME NEW q \in Requests, NEW d, Becomes(q, d), d.pc = "sent", req[q].pc = "new",
         UNCHANGED <<kind, row, idem, log>>
  PROVE  Contract!Next
<1>1. ShownAnswer[q] = "unsent" /\ ShownAnswer'[q] = "pending"
  BY OneCallShown DEF ContractAnswer, HasSent
<1>2. UNCHANGED <<ShownVersion, ShownDone, ShownKeyFirst>>
  BY DEF ShownVersion, ShownDone, ShownKeyFirst
<1> QED
  BY <1>1, <1>2, OneCallShown, ContractSteps

(* The first look is not seen.                                             *)
LEMMA LooksShown ==
  ASSUME Typed, NEW q \in Requests, Looks(q)
  PROVE  UNCHANGED Contract!vars
<1>1. PICK d : Becomes(q, d) /\ d.pc = "read" /\ SameCommand(d, req[q])
  BY LooksReq
<1>2. UNCHANGED <<kind, row, idem, log>> /\ req[q].pc = "sent"
  BY DEF Looks
<1>3. UNCHANGED <<ShownVersion, ShownDone, ShownKeyFirst>>
  BY <1>2 DEF ShownVersion, ShownDone, ShownKeyFirst
<1>4. ShownAsked' = ShownAsked /\ \A p \in Requests : ShownAnswer'[p] = ShownAnswer[p]
  BY <1>1, <1>2, OneCallShown DEF ContractAnswer, HasSent
<1>5. ShownAnswer' = ShownAnswer
  BY <1>4 DEF ShownAnswer
<1> QED
  BY <1>3, <1>4, <1>5 DEF Contract!vars, ShownVersion, ShownDone, ShownAsked, ShownAnswer, ShownKeyFirst

(* Who gets an answer without an effect gets it in one step, and it is so. *)
LEMMA FailsShown ==
  ASSUME Typed, NEW q \in Requests, req[q].pc \in {"sent", "read"}, Fails(q)
  PROVE  Contract!Next
<1>1. PICK answer \in Answers \ {"ok"} :
        /\ NoEffect(q, answer)
        /\ answer = "replayed" => Recorded(req[q])
        /\ answer = "key_conflict" => Prior(req[q]) # {} /\ ~Recorded(req[q])
        /\ answer = "version" /\ kind \in LockedKinds => ~Seen(q, row)
        /\ answer = "version" /\ kind \in LockFirstKinds => Prior(req[q]) = {}
  BY DEF Fails
<1>2. Answered(q, answer) /\ UNCHANGED <<kind, row, idem, log>>
  BY <1>1 DEF NoEffect, Answered
<1>3. PICK d : Becomes(q, d) /\ d.pc = "done" /\ d.answer = answer /\ SameCommand(d, req[q])
  BY <1>1, <1>2, AnsweredReq
<1>4. UNCHANGED <<ShownVersion, ShownDone, ShownKeyFirst>>
  BY <1>2 DEF ShownVersion, ShownDone, ShownKeyFirst
<1>5. /\ ShownAnswer[q] = "pending"
      /\ ShownAnswer'[q] = IF answer = "version" /\ kind \notin LockedKinds THEN "refused" ELSE answer
  BY <1>2, <1>3, OneCallShown DEF ContractAnswer, HasSent
<1>6. Contract!Replay(q) \/ Contract!Conflict(q) \/ Contract!Stale(q) \/ Contract!Refuse(q)
  BY <1>1, <1>5, ContractSteps, LookShown DEF Answers, ShownKeyFirst
<1>7. ShownAnswer'[q] # "pending"
  BY <1>1, <1>5 DEF Answers
<1>8. Contract!Reply(q)
  BY <1>2, <1>3, <1>4, <1>5, <1>6, <1>7, OneCallShown, ContractSteps
<1> QED
  BY <1>2, <1>3, <1>8, OneCallShown, ContractSteps

(* An effect is seen as one step: under the key nothing was stored, and a  *)
(* row that is locked still has the version that was named.                *)
LEMMA EffectShown ==
  ASSUME Typed, NEW q \in Requests, req[q].pc \in {"sent", "read"}, Succeeds(q)
  PROVE  Contract!Next
<1>1. PICK base, new \in Rows :
        /\ Prior(req[q]) = {} /\ Answered(q, "ok")
        /\ row' = new /\ idem' = idem \cup {Record(req[q])} /\ log' = Append(log, Entry(q, base))
        /\ Entry(q, base) \in Entries
        /\ kind \in LockedKinds =>
             base = row /\ new.ver = row.ver + 1 /\ new.there = row.there /\ Seen(q, row)
  BY Effect
<1>2. PICK d : Becomes(q, d) /\ d.pc = "done" /\ d.answer = "ok" /\ SameCommand(d, req[q])
  BY <1>1, AnsweredReq DEF Answers
<1>3. kind' = kind
  BY <1>1 DEF Answered
<1>4. ShownAnswer[q] = "pending" /\ ShownAnswer'[q] = "ok"
  BY <1>2, <1>3, OneCallShown DEF ContractAnswer, HasSent
<1>5. Contract!Prior(q) = {} /\ Contract!Current(q)
  BY <1>1, LookShown
<1>6. ShownVersion' = ShownVersion + 1
  <2>1. Len(log') = Len(log) + 1 /\ Len(log) \in Nat
    BY <1>1 DEF Typed
  <2> QED
    BY <1>1, <1>3, <2>1 DEF ShownVersion
<1>7. ShownDone' = ShownDone \cup {Contract!Command(q)}
  <2>1. Contract!Command(q) = [id |-> <<Record(req[q]).cmd, Record(req[q]).key>>,
                               body |-> Record(req[q]).body]
    BY DEF Contract!Command, Record, ContractAsked
  <2> QED
    BY <1>1, <2>1 DEF ShownDone
<1>8. Contract!Reply(q)
  BY <1>2, <1>3, <1>4, <1>5, <1>6, <1>7, OneCallShown, ContractSteps
<1> QED
  BY <1>2, <1>3, <1>8, OneCallShown, ContractSteps

(* A request that goes elsewhere is seen as a command that takes effect on *)
(* what no version counts.                                                 *)
LEMMA ElsewhereShown ==
  ASSUME Typed, NEW q \in Requests, Elsewhere(q)
  PROVE  Contract!Next
<1>1. UNCHANGED <<kind, row, log>> /\ req[q].pc = "new"
  BY ElsewhereReq
<1>2. PICK d : Becomes(q, d) /\ d.pc = "elsewhere" /\ SameCommand(d, req[q])
  BY ElsewhereReq
<1>3. PICK x \in Records :
        idem' = idem \cup {x} /\ \A p \in idem : ~(p.cmd = x.cmd /\ p.key = x.key)
  BY ElsewhereReq
<1> DEFINE e == [id |-> <<x.cmd, x.key>>, body |-> x.body]
<1>4. ShownDone' = ShownDone \cup {e}
  BY <1>3 DEF ShownDone
<1>5. \A y \in ShownDone : y.id # e.id
  BY <1>3 DEF ShownDone
<1>6. e \in ShownDone' /\ e \notin ShownDone
  BY <1>4, <1>5
<1>7. ShownAsked' = ShownAsked /\ \A p \in Requests : ShownAnswer'[p] = ShownAnswer[p]
  BY <1>1, <1>2, OneCallShown DEF ContractAnswer, HasSent
<1>8. ShownAnswer' = ShownAnswer
  BY <1>7 DEF ShownAnswer
<1>9. UNCHANGED <<ShownVersion, ShownKeyFirst>>
  BY <1>1 DEF ShownVersion, ShownKeyFirst
<1> HIDE DEF e
<1> QED
  BY <1>4, <1>5, <1>6, <1>7, <1>8, <1>9, ContractSteps

(* Handlers that look at the key and at the row in one transaction step and*)
(* write in a later one keep the contract of atomic commands: once under a *)
(* key, on the version that was named where the row is locked, and every   *)
(* answer is so when it is given.                                          *)
THEOREM KeepsContractHolds == Spec => KeepsContract
<1>1. Init => Contract!Init
  <2> SUFFICES ASSUME Init PROVE Contract!Init
    OBVIOUS
  <2>1. Inv
    BY InitInv
  <2>2. ShownVersion = 1
    BY <2>1 DEF ShownVersion, Inv, Serial, Init
  <2>3. ShownDone = {} /\ \A q \in Requests : ShownAnswer[q] = "unsent"
    BY DEF Init, NotSent, ShownDone, ShownAnswer, ContractAnswer, HasSent
  <2> QED
    BY <2>2, <2>3 DEF Contract!Init, ShownVersion, ShownDone, ShownAnswer
<1>2. Inv /\ [Next]_vars => [Contract!Next]_Contract!vars
  <2> SUFFICES ASSUME Inv, [Next]_vars PROVE [Contract!Next]_Contract!vars
    OBVIOUS
  <2>1. CASE UNCHANGED vars
    <3>1. UNCHANGED <<ShownVersion, ShownDone, ShownAsked, ShownAnswer, ShownKeyFirst>>
      BY <2>1 DEF vars, ShownVersion, ShownDone, ShownAsked, ShownAnswer, ShownKeyFirst,
                  ContractAsked, ContractAnswer
    <3> QED
      BY <3>1 DEF Contract!vars, ShownVersion, ShownDone, ShownAsked, ShownAnswer, ShownKeyFirst
  <2>2. CASE Next
    <3>1. PICK q \in Requests : \/ Send(q) \/ Elsewhere(q) \/ Ends(q)
                             \/ \E p \in Requests : Resend(q, p)
      BY <2>2, Steps DEF Inv
    <3>2. CASE Send(q)
      <4>1. req[q].pc = "new" /\ UNCHANGED <<kind, row, idem, log>>
        BY <3>2 DEF Send
      <4> QED
        BY <3>2, <4>1, SendReq, SendShown DEF Inv
    <3>3. CASE \E p \in Requests : Resend(q, p)
      <4>1. req[q].pc = "new" /\ UNCHANGED <<kind, row, idem, log>>
        BY <3>3 DEF Resend
      <4> QED
        BY <3>3, <4>1, ResendReq, SendShown DEF Inv
    <3>4. CASE Ends(q)
      BY <3>4, FailsShown, LooksShown, EffectShown DEF Ends, Inv
    <3> QED
      BY <3>1, <3>2, <3>3, <3>4, ElsewhereShown DEF Inv
  <2> QED
    BY <2>1, <2>2
<1> QED
  BY <1>1, <1>2, InvHolds, PTL DEF Spec, KeepsContract, Contract!Spec
=============================================================================
