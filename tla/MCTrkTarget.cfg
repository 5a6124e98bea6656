CONSTANTS
  Bits = 8
  Base = 64
  MaxScan = 2
  Cases <- MCCases
  Memory <- MCMemory
  Mapped <- MCMapped
SPECIFICATION TargetSpec
INVARIANTS StepLands Commanded
CHECK_DEADLOCK FALSE
