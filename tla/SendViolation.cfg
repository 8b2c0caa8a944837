SPECIFICATION SendSpec
CONSTANTS
  SeqMod = 3
  Lifetime = 1
  MaxTelegrams = 4
  MaxChannels = 2
  AutoReconnect = TRUE
INVARIANT AckMeansOnBus
CHECK_DEADLOCK FALSE
