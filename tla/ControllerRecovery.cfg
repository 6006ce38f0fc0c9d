SPECIFICATION FairSpec
CONSTANTS
  plain = plain
  effect = effect
  p1 = p1
  p2 = p2
  n1 = n1
  n2 = n2
  Works <- Single
  Effectful <- Single
  Nodes <- OneNode
  Procs <- TwoProcs
  MaxFaults = 2
PROPERTIES
  DispatchReachesRelay
  CompletedSettles
  MatchCommits
CHECK_DEADLOCK FALSE
