SPECIFICATION FleetSpec
CONSTANTS
  a = a  b = b  h1 = h1  h2 = h2  None = None
  Sids <- TwoSids  Handles <- TwoHandles
  MaxPids = 2  MaxFiles = 2  MaxCrashes = 1
  ana = ana  alley = alley  barn = barn
  Askers <- One  Modes = {"attended", "away"}  DirectMessages = 1
  MaxAsks = 2  MaxUpdates = 1  MaxFaults = 1  MaxKills = 1
  Rate = 2  Batch = 2  SayLimit = 2  MaxSendAttempts = 1
  MaxBus = 2  MaxOutbox = 1  MaxFeedFaults = 1  MaxFeedKills = 1
  Fleet <- One  InboxRooms <- OneRoom  Places = {1}  InboxModes = {"attended", "away"}
  MaxTexts = 2  MaxNotes = 1  MaxMoves = 1  MaxLostReplies = 1  MaxInboxKills = 1
  TopicRooms <- TwoRooms  Refusals = FALSE
  MaxThreads = 2  MaxCallFaults = 1  MaxTopicKills = 1  MaxRoomChanges = 2
  Watched <- One  StaleAfter = 0  DeafAfter = 1  MaxEpisodes = 2  MaxLostPages = 0  MaxSupKills = 1
  Slots = {"x", "y"}  Procs = {"poller", "person"}  MaxGen = 2  MaxMishaps = 1
  Accts = {1, 2, 3}  Default <- BuiltIn  Configs <- TwoConfigs  MaxSince = 1  MaxFive = 2  MaxSeven = 2
  Facts = {"f", "g", "h"}  Deciders = {"t", "s"}  Sandboxed = {"s"}
  ProposalKinds = {"capture", "split", "tidy", "retire"}
  MaxProposals = 1  MaxWrites = 1  MaxQueued = 2  MaxSetbacks = 1
  Day = 6  HourStart = 1  HourEnd = 3  MinInterval = 5  Slack = 1  KeepDaily = 2
  Days = 2  MaxNightKills = 1  MaxNightFailures = 1
  Daemons = {"p", "q"}  Ladder = 3  OnlyOnce = {2}  MaxStarts = 4  MaxDaemonDeaths = 2
  Known = {1, 2, 3}  Sizes = {2, 7}  TopK = 3  LessonTopK = 2  Cap = 8
INVARIANTS
  PresenceTypeOK RunningStaysLive ArchivedHoldsNothing
  EscSafety FeedSafety InboxSafety TopicSafety SupSafety AccountSafety
  CurationSafety NightlySafety StartSafety DigestSafety
PROPERTIES DecisionsStand NoThrash DecidedOnce
CHECK_DEADLOCK FALSE
SYMMETRY Symmetry
