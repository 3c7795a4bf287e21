\* Local browsers: two requests on two runs, one of which fits.
SPECIFICATION Spec
CONSTANTS
  Profiles = {p1}
  Runs = {r1, r2}
  Callers = {q1, q2}
  Sweepers = {}
  MaxSessions = 3
  Targets = {t1}
  Keys = {k1}
  Provider = "local"
  MaxActive = 1
  Timeouts = {}
  None = None
SYMMETRY Symmetry
INVARIANTS KeysBelongToSessions
PROPERTIES BindingStable
