SPECIFICATION Spec
CONSTANTS
  effect = effect
  mixed = mixed
  Works <- MCWorks
  Threads = {t1, t2}
  Bodies <- MCBodies
  Unavailable <- MCUnavailable
  Protected <- MCProtected
  Asked <- MCAsked
  MaxInvocations = 2
INVARIANTS
  AtMostOnce
  OneOutcome
  CancelledNeverRuns
  OneBinding
PROPERTIES
  RecordsStay
  ExecutesOnce
