SPECIFICATION Spec
CONSTANTS
  eth = eth
  file = file
  other = other
  open1 = open1
  open2 = open2
  stop1 = stop1
  tab = tab
  view = view
  None = None
  Starters <- TwoStarters
  Stoppers <- NoOne
  Subscribers <- NoOne
  Viewers <- NoOne
  Sources <- LiveAndFile
  LiveSources <- OnlyLive
  ChanCap = 1
  MaxFrames = 1
  RingSize = 1
  FeedCap = 1
CHECK_DEADLOCK FALSE
INVARIANT
  NoStackedReaders
