SPECIFICATION ProgressSpec
CONSTANTS
  c1 = c1  c2 = c2  c3 = c3
  Calls <- MCCalls  Malformed <- MCMalformed  None = None
  MaxRestarts = 2  MaxBusy = 1
  ana = ana  bob = bob  alley = alley  barn = barn
  Askers <- One  Modes = {"attended", "away"}  DirectMessages = 1
  MaxAsks = 1  MaxUpdates = 1  MaxFaults = 1  MaxKills = 1
  Rate = 2  Batch = 2  SayLimit = 2  MaxSendAttempts = 1
  MaxBus = 1  MaxOutbox = 1  MaxFeedFaults = 1  MaxFeedKills = 1
  TopicRooms <- TwoRooms  Refusals = FALSE
  MaxThreads = 2  MaxCallFaults = 1  MaxTopicKills = 0  MaxRoomChanges = 2
  Listeners <- Two  MaxSent = 2  MaxDeaths = 1
  Watched <- One  StaleAfter = 0  DeafAfter = 1  MaxEpisodes = 1  MaxLostPages = 1  MaxSupKills = 1
  Accts = {1, 2, 3}  Default <- BuiltIn  Configs <- TwoConfigs  MaxSince = 1  MaxFive = 1  MaxSeven = 2
  Daemons = {"p", "q"}  Ladder = 3  OnlyOnce = {2}  MaxStarts = 3  MaxDaemonDeaths = 1
INVARIANT SpoolSafety
PROPERTIES
  EveryFileLeaves KeepsPromise QuestionsGetThrough MirrorMovesOn ReadersGetTopics SentIsTaken
  ExhaustionReaches SpentIsLeft ComesUp
CHECK_DEADLOCK FALSE
