SPECIFICATION Spec
CONSTANTS
  f1 = f1  f2 = f2  f3 = f3  r1 = r1  r2 = r2
  Root = {r1, r2}
  File = {f1, f2, f3}
  RootOf <- MCRootOf
  QueueCapacity = 2
  BatchSize = 2
  Faults = {"overflow"}
  MaxVersion = 2
  MaxEdits = 1
  MaxFaults = 1
CHECK_DEADLOCK FALSE
PROPERTY RecoveryRescansRoot
