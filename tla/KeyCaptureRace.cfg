SPECIFICATION KeySpec
CONSTANTS
  Togglers = {t1, t2}
  Libs = {"openssl", "crypto"}
  Ruled = {"openssl"}
  Pids = {pid1}
  RingCap = 1
  KeylogCap = 1
  QueueCap = 1
  MaxLoads = 1
CHECK_DEADLOCK FALSE
INVARIANT
  DisableDetaches
