SPECIFICATION FairSpec
CONSTANTS
  Interactive = TRUE
  Events = {"keys", "sigint", "sigwinch", "hangup", "deadline", "crash"}
  Room = 2
  MaxOutput = 1
  MaxKeys = 1
  MaxSignals = 2
\* the session is over and agentctl has returned
CHECK_DEADLOCK FALSE
INVARIANTS
  SessionTypeOK
  ContainerUnderLock
  OutputBeforeExit
PROPERTIES
  HangupEnds
  TimeoutEnds
  ContractSpec
