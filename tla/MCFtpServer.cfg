SPECIFICATION Spec
CONSTANTS
  Ports = {p1, twisted, low, alien}
  Twisted = {twisted}
  Reserved = {low}
  Foreign = {alien}
  Offsets = {1, 2}
  MaxUnits = 1
  MaxLines = 7
  Original <- File
  None = none
INVARIANTS NextOnly WhereAgreed Truthful
CHECK_DEADLOCK FALSE
