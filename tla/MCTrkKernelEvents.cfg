SPECIFICATION FairSpec
CONSTANTS
  Threads = {t1, t2}
  Slots = 2
  Kinds = {"stop", "unload", "trace"}
  MaxEvents = 3
  NoThread = none
INVARIANTS ToldInOrder StopAccounted
PROPERTIES BacklogDrained
CHECK_DEADLOCK FALSE
