\* Two runs, of which one fits.
SPECIFICATION Spec
CONSTANTS
  Profiles = {p1}
  Runs = {r1, r2}
  Callers = {q1, q2}
  Sweepers = {}
  MaxSessions = 2
  Targets = {t1}
  Keys = {}
  Provider = "local"
  MaxActive = 1
  Timeouts = {}
  None = None
INVARIANTS LocalCapRespected
