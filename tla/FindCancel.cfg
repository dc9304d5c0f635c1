SPECIFICATION FairSpec
CONSTANTS
  Interactive = TRUE
  Events = {"keys"}
  Room = 2
  MaxOutput = 1
  MaxKeys = 1
  MaxSignals = 1
\* the session is over and agentctl has returned
CHECK_DEADLOCK FALSE
PROPERTIES
  CancelEnds
