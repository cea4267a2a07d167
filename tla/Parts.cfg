SPECIFICATION FairSpec
CONSTANTS
  eth = eth
  replay = replay
  t1 = t1
  pid1 = pid1
  pid2 = pid2
  tunnel = tunnel
  Sources <- LiveAndFile
  LiveSources <- OnlyLive
  ChanCap = 2
  MaxFrames = 4
  MaxRecords = 2
  MaxOffered = 7
  MaxMillis = 4
  Flows <- SomeConnections
  Queries <- SomeQueries
  Private = {"lan"}
  RiskyCountry = {"pub1"}
  Listed = {"pub2"}
  ListedJA3 = {"bad"}
  ListedNames = {"plain"}
  Dumb = {"cam"}
  MgmtPorts = {22}
  IPLimit <- TheLimits
  PortLimit <- TheLimits
  Window = 3
  MinSamples = 3
  MinInterval = 2
  MaxInterval = 7
  HourLength = 2
  HoursPerDay = 3
  Now = 13
  MinDays = 2
  Floor = 1
  Entropy <- TheEntropy
  NameLength <- TheLength
  Apex <- TheApex
  MinFailed = 2
  MinNames = 3
  MinVolume = 3
  RowLimit = 3
  MaxEvidence = 4
  FilePackets <- SomePackets
  AddressOrder <- ByName
  EndOrder <- ByEnd
  MaxStream = 3
  MinFailures = 2
  MinPorts = 2
  MinHosts = 2
  MaxTalkers = 1
  MaxPackets = 4
  Chunks <- SomeChunks
  MaxTokens = 7
  Samples <- SamplePackets
  NumberOf <- TheNumbers
  NetworkOf <- TheNetworks
  TextRank <- TheRanks
  PartOf = {}
  MatchedBy = {}
  BadRegexps = {}
  FirstBlocks <- SomeFirst
  Blocks <- SomeBlocks
  MaxBlock = 50
  MaxBlocks = 4
  Buffer = 22
  InPlace = {FALSE}
  MaxMerged = 4
  Togglers = {t1}
  Libs <- TwoLibs
  Ruled <- WithRules
  Pids = {pid1, pid2}
  RingCap = 1
  KeylogCap = 1
  QueueCap = 1
  MaxLoads = 1
  FoundPairs <- SomePairs
  Tunnels = {tunnel}
  Hosts = {"cloud"}
  Bodies <- SomeBodies
  BodyCap = 2
  Limit = 1
  LeafLife = 1
  MaxPairs = 3
  MaxClock = 2
  MaxExchanges = 2
  LocalAddrs = {"a1"}
  OtherAddrs = {"b1"}
  Processes = {"p1", "p2"}
  Hidden = {"p2"}
  Ttl = 1
  MaxSockets = 2
  MaxNow = 1
  Learnable <- SomeNamings
  NameLimit = 2
  MaxLearnt = 4
  Nics = {"eth0"}
  LiveRows <- SomeRows
  Files <- SomeFiles
  LiveNames <- SomeNames
  Placed = {"cloud"}
  ViewRows = 3
  PairLimit = 1
  PairFactor = 2
  DomainRows = 2
  BatchLimit = 2
  Bucket = 2
  MaxRows = 4
  MaxTime = 2
  MaxNames = 1
  MaxImports = 2
  Feeds <- TwoFeeds
  Answers <- SomeAnswers
  CutReads <- HalfLines
  Base = {"c2"}
  MaxFetches = 6
INVARIANTS
  PartsTypeOK
  FramesAccounted
  RightPacketOrNone
  SinkKeepsLatest
  VerdictsExact
  ReportFaithful
  FilterMeaning
  FilesFaithful
  ProbesOwned
  KeptOnlyWhileOn
  ProxyTrue
  AttributionHolds
  OverviewTrue
PROPERTIES
  ImplementsFeed
  CloseHeard
  AlertsLast
CHECK_DEADLOCK FALSE
