SPECIFICATION Spec
CONSTANTS
  plain = plain
  effect = effect
  p1 = p1
  p2 = p2
  n1 = n1
  n2 = n2
  Works <- Pair
  Effectful <- Single
  Nodes <- TwoNodes
  Procs <- TwoProcs
  MaxFaults = 1
SYMMETRY Interchangeable
INVARIANTS
  StateHasEvidence
  AdmittedFirst
  CommitWitnessed
PROPERTY KeepsLifecycle
CHECK_DEADLOCK FALSE
