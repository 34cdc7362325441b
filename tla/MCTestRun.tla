----------------------------- MODULE MCTestRun -----------------------------
(* Small instances of TestRun for TLC: the case types of a run.            *)
EXTENDS TestRun, TLC

MCKindMixed == <<"web", "api", "web">>
MCKindOther == <<"other">>
MCKindApiWeb == <<"api", "web">>
MCKindApi == <<"api">>

(* Runs, keys, bodies and starters are interchangeable.                    *)
MCSymmetry == Permutations(Runs) \cup Permutations(Keys)
                \cup Permutations(Bodies) \cup Permutations(Starters)
=============================================================================
