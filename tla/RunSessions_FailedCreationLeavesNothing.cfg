\* A creation whose connection fails.
SPECIFICATION Spec
CONSTANTS
  Profiles = {p1}
  Runs = {r1}
  Callers = {q1}
  Sweepers = {}
  MaxSessions = 2
  Targets = {t1}
  Keys = {}
  Provider = "local"
  MaxActive = 1
  Timeouts = {"degraded"}
  None = None
INVARIANTS FailedCreationLeavesNothing
