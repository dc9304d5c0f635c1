SPECIFICATION Spec
CONSTANTS
  a = a
  r1 = r1
  r2 = r2
  r3 = r3
  integration = integration
  Task = {a}
  Req = {r1, r2, r3}
  Integration = integration
  Ops = {"start", "complete", "merge", "abort", "run", "index"}
  Env = {"crash"}
  MaxCommits = 1
SYMMETRY Threads
\* every task merged, aborted or completed and all threads idle: nothing left to do
CHECK_DEADLOCK FALSE
INVARIANTS
  CleanupCannotFail
PROPERTIES
  MergesRecordedHead
