SPECIFICATION Spec
CONSTANTS
  github = github
  pypi = pypi
  Malformed = Malformed
  Absent = Absent
  Destination <- Network
  Requests <- AllRequests
\* a request is answered
CHECK_DEADLOCK FALSE
INVARIANTS
  PolicyTypeOK
  LayersKept
  ProfileIntent
  HardenedFailsClosed
  ControlsWithinPolicy
  SharedLockWritesNothing
PROPERTIES
  NothingWidens
  HarmlessAccepted
