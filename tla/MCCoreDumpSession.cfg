SPECIFICATION Spec
CONSTANTS
  FormatterUids = {f1}
  WriterUids = {w1}
  Targets = {t1}
  TargetThreads = {x}
  PreActions = {"thread"}
  EventTypes <- BothOrExceptions
  MayFail = TRUE
  MaxLoads = 4
  NoFile = NoFile
INVARIANTS
  WritesWherePaired
  ParamsAlive
  ObservedAsConfigured
PROPERTY
  LoadRestores
