\* Two processes over two sessions; or two ports of any kind in a row, on
\* which bytes, sends and faults interleave.
SPECIFICATION AgentSpec
CONSTANTS
  Procs = {p, q}
  Protected = {q}
  MaxEntries = 2
  MaxStops = 2
  MaxQueue = 1
  MaxBegun = 2
  MaxStarts = 2
  MaxBytes = 3
  MaxSends = 2
  MaxFaults = 1
INVARIANTS Accounted Followed PortKept
PROPERTIES Noticed
CHECK_DEADLOCK FALSE
