SPECIFICATION SessionSpec
CONSTANTS
  MaxSequenceId = 3
  MaxInFlight = 3
  MaxSent = 5
  Keepalive = TRUE
INVARIANT FailedBindLeavesNoSocket
CHECK_DEADLOCK FALSE
