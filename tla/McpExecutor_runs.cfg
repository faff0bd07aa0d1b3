SPECIFICATION FairSpec
CONSTANTS
  MaxExec = 3
  MaxFaults = 3
CHECK_DEADLOCK FALSE
INVARIANTS OwnAnswer SlotReleased
PROPERTY ExecutionReturns
