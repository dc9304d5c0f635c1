SPECIFICATION Spec
CONSTANTS
  a = a
  r1 = r1
  integration = integration
  Task = {a}
  Req = {r1}
  Integration = integration
  Ops = {"start", "complete", "run"}
  Env = {"crash", "survive"}
  MaxCommits = 1
CHECK_DEADLOCK FALSE
INVARIANTS
  StraysOnlyWhileActive
