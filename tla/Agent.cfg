SPECIFICATION FairSpec
CONSTANTS
  wlan = wlan
  usb = usb
  p1 = p1
  p2 = p2
  cam = cam
  first = first
  Ifaces <- TwoIfaces
  Any = Any
  NoIface = NoIface
  Configured = wlan
  RoleFits <- OnlyUsb
  Excluded <- OnlyUsb
  MaxPipes = 3
  MaxChanges = 2
  MaxRounds = 2
  Feeders <- TwoPipes
  Captures <- OnlyFirst
  Target <- Camera
  MaxBudget = 3
  FrameSizes <- SmallAndLarge
  MaxFeeds = 3
CHECK_DEADLOCK FALSE
INVARIANTS
  AgentTypeOK
  HandedOver
  OnBestWhenQuiet
  CurrentHasLatest
  FileKept
  UnbrokenRun
PROPERTIES
  FinishedStays
  AgentSettles
