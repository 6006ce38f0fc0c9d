SPECIFICATION FairSpec
CONSTANTS
  charge = charge
  quote = quote
  ship = ship
  remind = remind
  notify = notify
  Steps <- MCSteps
  Position <- MCPosition
  After <- MCAfter
  Wave <- MCWave
  LastWave = 2
  Pure = {quote, remind}
  Reconcilable = {notify}
  Retries <- MCRetries
  Gated = {ship}
  Unmet = {remind}
  Described = {notify}
  Compensable = {charge, ship}
  PureUndo = {ship}
  Optional = {charge, notify}
  MaxExecutions = 4
INVARIANTS
  EffectsBounded
  CompensatedOnce
  SettledIsCertain
  CompletedIsWhole
PROPERTIES
  CancelledAdmitsNothing
  ExecutionsEnd
CHECK_DEADLOCK FALSE
