SPECIFICATION Spec
CONSTANTS
  Threads = {t1, t2}
  All = all
  Owners = {all, t1, t2}
  Lines = {2}
  Size = 4
  Temps = 2
  Buffer = 2
  MaxUser = 2
  None = none
INVARIANTS PlantedExactly DisabledForAStep
PROPERTIES NoMissedBreakpoint StepStaysInRange
CHECK_DEADLOCK FALSE
