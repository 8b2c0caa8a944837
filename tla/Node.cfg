SPECIFICATION NodeFairSpec
CONSTANTS
  Children = {n1, n2}
  AttachWhen = {"disconnected"}
  Callers = {u1}
  Closers = {d1, d2}
  Sockets = {s1, s2, s3}
  Channels = {c1}
  HeartbeatMaxFailures = 2
  Loop = loop
  None = none
  Beats = {h1}
  AutoReconnect = {TRUE}
  OverTcp = {TRUE, FALSE}
  Habits = {{"connected"}, {"connected", "reconnecting"}}
  StrayRequests = FALSE
  ConnectAnyTime = FALSE
INVARIANT DetachedIsDown
PROPERTY ServedOrReported
CHECK_DEADLOCK FALSE
