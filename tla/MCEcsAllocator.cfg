\* Two workers of two slots, three runs: a full worker forces a launch while
\* other leases come and go.
SPECIFICATION Spec
CONSTANTS
  Runs = {r1, r2, r3}
  MaxLaunches = 2
  MaxIdleStops = 1
  MaxSessionsPerWorker = 2
  MaxTotalSessions = 3
  ImmediateStop = FALSE
  StopMayFail = TRUE
SYMMETRY Symmetry
INVARIANTS TypeOK LeasesConsistent CapacityRespected TimersOnIdleWorkers
PROPERTIES QuarantineHolds LeaseContract
