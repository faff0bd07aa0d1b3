SPECIFICATION FairSpec
CONSTANTS
  x = x  t = t  f = f
  Var = {x}
  Value = {t, f}
  NoCond = NoCond  NoBinding = NoBinding  NotFound = NotFound
  Defs <- MCAllDefs
  MaxVariables = 1
  MaxSteps = 4
  MaxResumes = 2
CHECK_DEADLOCK FALSE
INVARIANT NothingUnconfirmed
PROPERTIES NoReplay RunStops
