----------------------------- MODULE MCPerfRun -----------------------------
(* Small instances of PerfRun for TLC: scenarios and risks of the runs.    *)
EXTENDS PerfRun

MCTwoOfThree == <<"s1", "s1", "s2">>
MCSecond == <<FALSE, TRUE, FALSE>>
MCPair == <<"s1", "s1">>
MCNone == <<FALSE, FALSE>>
MCTwo == <<TRUE, FALSE>>
=============================================================================
