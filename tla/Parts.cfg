SPECIFICATION PartsSpec
CONSTANTS
  PartNames <- AllParts
  Horizon <- MCHorizon
  MaxTime = 15
  Absent = Absent
  Streams <- WireStreams
  ChunkSizes = {1, 5, 6, 7, 100}
  Topics = {"a", "b"}
  Payloads <- MCPayloads
  PerTopic = TRUE
  Window = 2
  MaxPerWindow = 2
  Watched = {g1, g2}
  Timeout = 3
  Interval = 2
  MaxLate = 1
  StoreTopics <- MCStoreTopics
  StorePayloads = {10, 11}
  Caps = {0, 1, 2}
  WriterConfigs <- MCWriterConfigs
  WriterMessages <- MCWriterMessages
  MaxPending = 2
  Schedules <- MCSchedules
  MinuteLength = 3
  Calendar <- MCCalendar
  MaxDelay = 1
  Traffic <- MCTraffic
  ProjectDpts <- MCProjectDpts
  Capacity = 2
  Viewers = {v1, v2}
  MaxRecords = 3
  AddressWords <- MCAddressWords
  PseudoWords = {"1/-/-"}
  DptWords <- MCDptWords
  HeaderRank <- MCHeaderRank
  Definitions <- MCDefinitions
INVARIANTS FramesArriveWhole ValuesArrive NoChangeLost RateHolds
INVARIANTS AlarmsFollowSilence LastWriteWins CronFiresEachMatch StreamExact ProjectMapMatches
PROPERTY StoreHoldsLatest
CHECK_DEADLOCK FALSE
