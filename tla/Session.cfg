SPECIFICATION SessionSpec
CONSTANTS
  eth = eth
  file = file
  other = other
  open1 = open1
  open2 = open2
  stop1 = stop1
  tab = tab
  view = view
  None = None
  Starters <- OneStarter
  Stoppers <- OneStopper
  Subscribers <- OneTab
  Viewers <- OneViewer
  Sources <- LiveAndFiles
  LiveSources <- OnlyLive
  ChanCap = 1
  MaxFrames = 3
  RingSize = 2
  FeedCap = 2
CHECK_DEADLOCK FALSE
INVARIANTS
  TypeOK
  RetentionBounded
  NoStackedReaders
  NothingStale
  NoOrphanSource
  RunningMeansConsuming
  EvictedCanBeReadBack
  FeedInOrder
  PacketHasOrdinal
