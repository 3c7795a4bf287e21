\* Liveness: AWS accepts every StopTask, runs come and go as they please.
SPECIFICATION FairSpec
CONSTANTS
  Runs = {r1, r2}
  MaxLaunches = 2
  MaxIdleStops = 1
  MaxSessionsPerWorker = 1
  MaxTotalSessions = 2
  ImmediateStop = FALSE
  StopMayFail = FALSE
PROPERTIES AssignsAnswered EmptyWorkersRetire
