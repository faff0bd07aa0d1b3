SPECIFICATION Spec
CONSTANTS
  x = x  t = t  f = f
  Var = {x}
  Value = {t, f}
  NoCond = NoCond  NoBinding = NoBinding  NotFound = NotFound
  Defs <- MCTwoConfirm
  MaxVariables = 2
  MaxSteps = 7
  MaxResumes = 2
CHECK_DEADLOCK FALSE
PROPERTY NeverAutoConfirm
