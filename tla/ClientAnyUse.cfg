SPECIFICATION Spec
CONSTANTS
  Callers = {u1}
  Closers = {d1}
  Sockets = {s1, s2, s3}
  Channels = {c1}
  HeartbeatMaxFailures = 2
  Loop = loop
  None = none
  Beats = {h1, h2}
  AutoReconnect = {TRUE, FALSE}
  OverTcp = {TRUE, FALSE}
  Habits = {{"disconnected", "connecting", "connected", "disconnecting", "reconnecting", "retrying"}}
  StrayRequests = TRUE
  ConnectAnyTime = TRUE
INVARIANTS TypeOK NobodyStranded SlotOwnerWaits
CHECK_DEADLOCK FALSE
