SPECIFICATION Spec
CONSTANTS
  a = a
  r1 = r1
  r2 = r2
  integration = integration
  Task = {a}
  Req = {r1, r2}
  Integration = integration
  Ops = {"start", "complete", "merge", "abort"}
  Env = {}
  MaxCommits = 1
SYMMETRY ThreadsAndTasks
\* every task merged, aborted or completed and all threads idle: nothing left to do
CHECK_DEADLOCK FALSE
PROPERTIES
  MergedIsFinal
