\* Either work may be stopped.
SPECIFICATION FairSpec
CONSTANTS
  Spooled = {"update"}
  Direct = {"probe"}
  Stoppable = {"update", "probe"}
  Leases = {}
  Patient = TRUE
  Torn = TRUE
  MaxQueued = 1
  MaxStops = 1
  MaxLeases = 0
  MaxFaults = 2
INVARIANTS ResultIsTheNodes
PROPERTIES ServesRequests ControlsEnd
CHECK_DEADLOCK FALSE
