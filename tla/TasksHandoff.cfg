SPECIFICATION FairSpec
CONSTANTS
  a = a
  r1 = r1
  r2 = r2
  integration = integration
  Task = {a}
  Req = {r1, r2}
  Integration = integration
  Ops = {"start", "complete", "merge", "abort", "sync", "export", "run", "index"}
  Env = {"crash", "untidy", "human", "conflict"}
  MaxCommits = 2
INVARIANTS
  ExportConsistent
PROPERTIES
  IntegrationGrows
  RequestsDrain
