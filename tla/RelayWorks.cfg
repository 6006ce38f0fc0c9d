\* A spooled and a queued work and a lease.
SPECIFICATION FairSpec
CONSTANTS
  Spooled = {"update"}
  Direct = {"probe"}
  Stoppable = {}
  Leases = {"gpu"}
  Patient = TRUE
  Torn = TRUE
  MaxQueued = 2
  MaxStops = 0
  MaxLeases = 2
  MaxFaults = 1
INVARIANTS LeaseAsWanted
PROPERTIES AssignmentAnswered RemovedIfAnswered
CHECK_DEADLOCK FALSE
