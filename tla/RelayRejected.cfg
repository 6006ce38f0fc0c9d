\* A session is lost while the sweep waits to send.
SPECIFICATION FairSpec
CONSTANTS
  Spooled = {"update"}
  Direct = {"probe"}
  Stoppable = {}
  Leases = {}
  Patient = TRUE
  Torn = FALSE
  MaxQueued = 1
  MaxStops = 0
  MaxLeases = 0
  MaxFaults = 1
PROPERTIES RequestKept
CHECK_DEADLOCK FALSE
