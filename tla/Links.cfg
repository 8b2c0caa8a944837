SPECIFICATION LinksSpec
CONSTANTS
  SeqMod = 4
  Lifetime = 2
  MaxTelegrams = 5
  MaxChannels = 2
  AutoReconnect = TRUE
  EarlyRequests = FALSE
  MaxSequenceId = 3
  MaxInFlight = 3
  MaxSent = 5
  Keepalive = TRUE
  Tasks = {t1, t2, t3, t4}
  Responses <- MCResponses
  MaxResponses = 3
INVARIANTS SendTypeOK BusInOrder ResolvedOnBus EmittedInOrder AckedIsEmitted
INVARIANTS SessionTypeOK SequenceIdsGrow KeepaliveStops OneAtATime
PROPERTIES ImplementsDelivery Lifecycle BindSettles TeardownEndsConnection
PROPERTIES EveryTaskSettles DiscoverySettles
CHECK_DEADLOCK FALSE
