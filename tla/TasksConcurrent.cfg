SPECIFICATION Spec
CONSTANTS
  a = a
  b = b
  r1 = r1
  r2 = r2
  integration = integration
  Task = {a, b}
  Req = {r1, r2}
  Integration = integration
  Ops = {"start", "complete", "merge", "abort", "run"}
  Env = {"crash", "conflict"}
  MaxCommits = 2
SYMMETRY ThreadsAndTasks
\* every task merged, aborted or completed and all threads idle: nothing left to do
CHECK_DEADLOCK FALSE
INVARIANTS
  TypeOK
  WorkspaceExclusive
  DeadlockFree
  OneActiveSequential
  MergedIsIntegrated
  RecordedHeadIsCurrent
  CleanupCannotFail
PROPERTIES
  StartsFresh
