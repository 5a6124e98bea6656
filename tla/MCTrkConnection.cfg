SPECIFICATION FairSpec
CONSTANTS
  Clients = {c1, c2}
  UserTypes = {"bt"}
  MaxPlugs = 2
  MaxSessions = 2
  MaxConnects = 1
  NoClient = NoClient
INVARIANTS StatusTruthful SessionKnown
PROPERTIES UnplugSeen
CHECK_DEADLOCK FALSE
