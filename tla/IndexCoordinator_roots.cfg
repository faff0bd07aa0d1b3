SPECIFICATION FairSpec
CONSTANTS
  f1 = f1  f2 = f2  f3 = f3  r1 = r1  r2 = r2
  Root = {r1}
  File = {f1, f2}
  RootOf <- MCRootOf
  QueueCapacity = 2
  BatchSize = 2
  Faults = {"exit", "vanish", "overflow"}
  MaxVersion = 1
  MaxEdits = 2
  MaxFaults = 2
CHECK_DEADLOCK FALSE
INVARIANT NoLostUpdate
PROPERTY EventuallyConsistent
