SPECIFICATION Spec
CONSTANTS
  Processes = {p1, p2}
  Requests = {r1, r2}
  Models = {m1, m2}
  Modes = {"direct", "kernel"}
  Reservations = {i1, i2}
  Estimate = 2
  Reports <- SomeReports
  RequestTokens = 3
  DailyTokens = 3
  RetryTokens = 2
  MaxAttempts = 2
  MaxRuns = 2
  Nothing = Nothing
SYMMETRY Symmetric
INVARIANTS
  BilledOnce
  UsageIsTrue
  BudgetHolds
PROPERTIES
  SettledStays
CHECK_DEADLOCK FALSE
