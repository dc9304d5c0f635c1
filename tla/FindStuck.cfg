SPECIFICATION Spec
CONSTANTS
  a = a
  r1 = r1
  integration = integration
  Task = {a}
  Req = {r1}
  Integration = integration
  Ops = {"start", "complete", "merge", "abort"}
  Env = {"crash"}
  MaxCommits = 1
SYMMETRY ThreadsAndTasks
\* every task merged, aborted or completed and all threads idle: nothing left to do
CHECK_DEADLOCK FALSE
INVARIANTS
  PendingCanBeAborted
