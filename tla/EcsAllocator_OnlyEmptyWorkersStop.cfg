\* A run is assigned to an idle worker while StopTask is in flight.
SPECIFICATION Spec
CONSTANTS
  Runs = {r1, r2}
  MaxLaunches = 2
  MaxIdleStops = 1
  MaxSessionsPerWorker = 2
  MaxTotalSessions = 2
  ImmediateStop = FALSE
  StopMayFail = TRUE
PROPERTIES OnlyEmptyWorkersStop
