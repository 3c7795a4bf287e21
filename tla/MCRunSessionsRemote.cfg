\* Browserless: two requests and a sweep on one run.
SPECIFICATION Spec
CONSTANTS
  Profiles = {p1}
  Runs = {r1}
  Callers = {q1, q2}
  Sweepers = {w1}
  MaxSessions = 2
  Targets = {t1, t2}
  Keys = {}
  Provider = "browserless"
  MaxActive = 1
  Timeouts = {"degraded", "idle"}
  None = None
SYMMETRY Symmetry
INVARIANTS TypeOK OneRequestPerSession
PROPERTIES NoResurrection DegradedIsFinal ImplementsLifecycle
