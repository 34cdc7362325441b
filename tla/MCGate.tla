------------------------------- MODULE MCGate -------------------------------
EXTENDS Gate, TLC

Limits(p95, rate) == [m \in Metrics |-> IF m = "p95_ms" THEN p95 ELSE rate]
MCPolicies ==
  {[mode |-> "blocking", rate |-> 100, limit |-> Limits(1, 0)],
   [mode |-> "report_only", rate |-> 50, limit |-> Limits(0, 1)]}

Nothing == Limits(None, None)
Rows(passed, total, gaps) == [passed |-> passed, total |-> total, gaps |-> gaps]
ReportOf(partial, rows) ==
  [partial |-> partial, perf |-> FALSE, metrics |-> Nothing, rows |-> rows]
LoadOf(metrics, rows) ==
  [partial |-> FALSE, perf |-> TRUE, metrics |-> metrics, rows |-> rows]
MCReports ==
  {ReportOf(FALSE, Rows(1, 2, FALSE)), ReportOf(TRUE, Rows(2, 2, TRUE)), ReportOf(FALSE, Rows(0, 0, FALSE)),
   LoadOf(Limits(1, None), Rows(1, 1, FALSE)), LoadOf(Limits(0, 1), Rows(1, 1, FALSE)),
   LoadOf(Nothing, Rows(1, 1, FALSE))}

MCSymmetry == Permutations(Evaluators)
=============================================================================
