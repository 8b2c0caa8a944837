SPECIFICATION FairSpec
CONSTANTS
  Callers = {u1}
  Closers = {d1}
  Sockets = {s1, s2, s3}
  Channels = {c1}
  HeartbeatMaxFailures = 2
  Loop = loop
  None = none
  Beats = {h1}
  AutoReconnect = {TRUE, FALSE}
  OverTcp = {TRUE, FALSE}
  Habits = {{"connected"}, {"connected", "connecting", "disconnecting", "reconnecting"}, {"connected", "reconnecting"}}
  StrayRequests = FALSE
  ConnectAnyTime = FALSE
INVARIANTS SocketsOwned ConnectedIsWhole DisconnectStopsAttempts
PROPERTIES Lifecycle LossOfQuietOwnerStartsReconnect DisconnectSettles ConnectSettles SendSettles Recovers
