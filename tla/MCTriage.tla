------------------------------ MODULE MCTriage ------------------------------
(* Small instances of Triage for TLC.                                       *)
EXTENDS Triage, TLC

CONSTANTS c1, c2, alien, l1, l2, l3

Draft(refs, cited, stale) == [refs |-> refs, evidence |-> cited, stale |-> stale]
Output(drafts, others) == [ok |-> TRUE, drafts |-> drafts, rest |-> others]

(* No answer; no draft; one draft of one failure, of both, of a stranger;    *)
(* evidence of its own, of the other failure, of nobody; a failure in two    *)
(* drafts; lists that are whole, partial, strange.                           *)
MCReplies ==
  {[ok |-> FALSE], Output({}, {}), Output({}, {c1}), Output({}, {alien}),
   Output({Draft({c1}, {}, FALSE)}, {c2}), Output({Draft({c1}, {c2}, TRUE)}, {}),
   Output({Draft({c1, c2}, {c1}, TRUE)}, {}), Output({Draft({}, {c1}, TRUE)}, {c2}),
   Output({Draft({c1}, {}, TRUE), Draft({c1, c2}, {}, FALSE)}, {alien}),
   Output({Draft({c1}, {alien}, FALSE)}, {}), Output({Draft({alien}, {}, TRUE)}, {c1})}

MCCurrent == [l \in {l1, l2} |-> l = l1]

MCHeals ==
  {[failing |-> l1, candidate |-> l1], [failing |-> l1, candidate |-> l3],
   [failing |-> l2, candidate |-> l3], [failing |-> l1, candidate |-> NoCandidate]}
=============================================================================
