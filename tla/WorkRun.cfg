SPECIFICATION Spec
CONSTANTS
  p1 = p1
  p2 = p2
  c1 = c1
  c2 = c2
  Nothing = Nothing
  Processes <- TwoProcesses
  Calls <- TwoCalls
  Kinds = {"network"}
  Planned = {TRUE, FALSE}
  Criteria = FALSE
  Window = 1
  MaxIterations = 2
  MaxResumed = 1
  MaxStarts = 1
  MaxFaults = 1
  MaxOps = 1
SYMMETRY Interchangeable
INVARIANTS
  CompletedKnows
PROPERTIES
  SubmissionFenced
  CancellationHolds
  PauseStopsDecision
  DoubtBlocks
CHECK_DEADLOCK FALSE
