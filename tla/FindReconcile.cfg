SPECIFICATION Spec
CONSTANTS
  r1 = r1
  r2 = r2
  p1 = p1
  p2 = p2
  None = None
  Req = {r1, r2}
  Volumes <- CursorVolumes
  Managed = TRUE
  Policies = {p1, p2}
  Env = {}
  MaxCrashes = 0
SYMMETRY Threads
PROPERTIES
  ManagedAtStart
