SPECIFICATION FairSpec
CONSTANTS
  Node <- MCNode
  Rank <- MCRank
  Var = {x}
  Value = {t, f}
  n1 = n1  n2 = n2  n3 = n3
  x = x  t = t  f = f
  Null = Null  NoCond = NoCond  NoCp = NoCp  NoResult = NoResult  Err = Err
  Graphs <- MCTwoGraphs
  MaxVersion = 2
  MaxFaults = 2
INVARIANTS GatedOnlyIfApproved PredecessorClosed NoStall
PROPERTIES NeverRepeatRecorded RunEnds
