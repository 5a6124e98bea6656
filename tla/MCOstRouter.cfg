SPECIFICATION FairSpec
CONSTANTS
  Sessions = {s1, s2}
  Protocols = {4, 5}
  VERSION = 1
  KnownIds = {1, 4, 5}
  Feed <- CleanFeed
  BufSize = 6
  MaxChunk = 4
  MaxWrites = 3
  NoSession = none
INVARIANTS PacketsInOrder NotDeaf WritesInOrder
PROPERTIES WritesAnswered
CHECK_DEADLOCK FALSE
