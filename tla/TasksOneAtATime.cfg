SPECIFICATION Spec
CONSTANTS
  a = a
  b = b
  r1 = r1
  integration = integration
  Task = {a, b, integration}
  Req = {r1}
  Integration = integration
  Ops = {"start", "complete", "merge", "abort", "sync", "run"}
  Env = {"crash", "survive", "human"}
  MaxCommits = 1
INVARIANTS
  DeadlockFree
  ModesExclude
  DependenciesInBase
PROPERTIES
  LedgerSpec
