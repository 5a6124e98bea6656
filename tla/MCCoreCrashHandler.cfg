SPECIFICATION FairSpec
CONSTANTS
  Threads = {t1, t2}
  Watched = {t1, t2}
  Logs = {log}
  Formatters = 1
  LiveOnly = {}
  MayFail = TRUE
  MaxCrashes = 2
  MaxRequests = 1
  None = none
INVARIANTS OneDumpPerDeath StillWhileDumped
PROPERTIES Served
CHECK_DEADLOCK FALSE
