SPECIFICATION NodeSpec
CONSTANTS
  Children = {n1, n2}
  AttachWhen = {"disconnected", "disconnecting"}
  Callers = {u1}
  Closers = {d1}
  Sockets = {s1, s2, s3}
  Channels = {c1}
  HeartbeatMaxFailures = 2
  Loop = loop
  None = none
  Beats = {}
  AutoReconnect = {TRUE}
  OverTcp = {FALSE}
  Habits = {{"connected"}}
  StrayRequests = FALSE
  ConnectAnyTime = TRUE
PROPERTY FirstAttachConnects
CHECK_DEADLOCK FALSE
