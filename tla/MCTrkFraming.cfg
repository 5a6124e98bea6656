SPECIFICATION FairSpec
CONSTANTS
  MaxSeq = 5
  MaxTries = 2
  MaxCmds = 4
  Connects <- TwoConnects
  MaxNoise = 2
  MaxEvents = 1
  ChanCap = 3
  Outcomes = {"ok", "error", "okThenError"}
INVARIANTS ReplyAvailable AtMostOnce NoFalseAck
PROPERTIES CommandSpec HostProgress
CHECK_DEADLOCK FALSE
