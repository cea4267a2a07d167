SPECIFICATION Spec
CONSTANTS
  eth = eth
  file = file
  other = other
  open1 = open1
  open2 = open2
  stop1 = stop1
  tab = tab
  view = view
  None = None
  Starters <- OneStarter
  Stoppers <- NoOne
  Subscribers <- NoOne
  Viewers <- OneViewer
  Sources <- LiveAndFile
  LiveSources <- OnlyLive
  ChanCap = 1
  MaxFrames = 4
  RingSize = 2
  FeedCap = 1
CHECK_DEADLOCK FALSE
INVARIANT
  PacketHasOrdinal
