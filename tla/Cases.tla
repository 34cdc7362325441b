------------------------------- MODULE Cases -------------------------------
(***************************************************************************)
(* Test cases: the draft, its review, the chain of immutable versions with *)
(* a pointer to the current one, rollback of the pointer, and the version  *)
(* that an approved heal adds.  Every writer locks the row of the case and *)
(* compares the version its caller expects, so each handler is one step on *)
(* the row its caller has seen.  What an approval carries out (apply_heal) *)
(* is an operator here and a step of Approval.                             *)
(***************************************************************************)
EXTENDS Naturals

CONSTANTS
  CaseIds,       \* test cases
  MaxCaseEdits   \* changes of one case, heals not counted

ASSUME CasesAssumption == MaxCaseEdits \in Nat

VARIABLE case   \* test_cases and test_case_versions

(* ver: aggregate_version; last: the greatest version_seq of the case, whose *)
(* versions are 1..last; cur: the one current_version_id names; reviewed:    *)
(* versions that a reviewer, or an approver of a heal, has accepted; heals:  *)
(* versions that heals added.                                                *)
CaseRows == [status : {"absent", "DRAFT", "PENDING_REVIEW", "ACTIVE"}, ver : Nat, last : Nat,
             cur : Nat, reviewed : SUBSET Nat, heals : Nat, valid : BOOLEAN]

NoCase == [status |-> "absent", ver |-> 0, last |-> 0, cur |-> 0, reviewed |-> {},
           heals |-> 0, valid |-> TRUE]

CasesTypeOK == case \in [CaseIds -> CaseRows]
CasesInit == case = [c \in CaseIds |-> NoCase]

(* A change of an existing case.                                            *)
Edit(c, row) ==
  /\ case[c].status # "absent" /\ case[c].ver - case[c].heals <= MaxCaseEdits
  /\ case' = [case EXCEPT ![c] = [row EXCEPT !.ver = row.ver + 1]]

(* The sequence number after that of the current version; UNIQUE(case, seq) *)
(* refuses one that is taken.                                               *)
Collides(row) == row.cur < row.last
Extended(row) == [row EXCEPT !.last = row.cur + 1, !.cur = row.cur + 1]

Drafted(c) ==
  /\ case[c].status = "absent"
  /\ case' = [case EXCEPT ![c] =
       [NoCase EXCEPT !.status = "DRAFT", !.ver = 1, !.last = 1, !.cur = 1]]

CreateDraft(c) == Drafted(c)

(* create_script_draft_from_trajectory: the steps an agent took, as a draft *)
DraftFromTrajectory(c) == Drafted(c)

(* A patch that collides is refused by the database: nothing is written.    *)
PatchDraft(c) ==
  /\ case[c].status = "DRAFT" /\ ~Collides(case[c])
  /\ Edit(c, Extended(case[c]))

SubmitReview(c) ==
  /\ case[c].status = "DRAFT"
  /\ Edit(c, [case[c] EXCEPT !.status = "PENDING_REVIEW"])

Review(c, approve) ==
  /\ case[c].status = "PENDING_REVIEW"
  /\ Edit(c, IF approve
               THEN [case[c] EXCEPT !.status = "ACTIVE", !.reviewed = @ \cup {case[c].cur}]
               ELSE [case[c] EXCEPT !.status = "DRAFT"])

(* Whatever the status of the case, any of its versions                     *)
Rollback(c, seq) ==
  /\ seq \in 1..case[c].last
  /\ Edit(c, [case[c] EXCEPT !.cur = seq])

(* invalidate_case_for_missing_job                                          *)
Invalidate(c) == Edit(c, [case[c] EXCEPT !.valid = FALSE])

(* apply_heal_after_approval                                                *)
Healable(row, expected) == row.status = "ACTIVE" /\ row.ver = expected
Healed(row) ==
  [Extended(row) EXCEPT !.ver = @ + 1, !.heals = @ + 1, !.reviewed = @ \cup {row.cur + 1}]

CasesNext ==
  \E c \in CaseIds :
    \/ CreateDraft(c) \/ DraftFromTrajectory(c)
    \/ PatchDraft(c) \/ SubmitReview(c)
    \/ \E approve \in BOOLEAN : Review(c, approve)
    \/ \E seq \in 1..case[c].last : Rollback(c, seq)
    \/ Invalidate(c)

(* The version an active case runs was accepted by a reviewer or approved   *)
(* as a heal.                                                               *)
ActiveIsReviewed == \A c \in CaseIds : case[c].status = "ACTIVE" => case[c].cur \in case[c].reviewed

(* A case can always get its next version.                                  *)
NextVersionFree == \A c \in CaseIds : ~Collides(case[c])
=============================================================================
