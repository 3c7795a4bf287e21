\* Browserless: requests are answered and degraded sessions end.
SPECIFICATION FairSpec
CONSTANTS
  Profiles = {p1}
  Runs = {r1}
  Callers = {q1, q2}
  Sweepers = {w1}
  MaxSessions = 3
  Targets = {t1}
  Keys = {}
  Provider = "browserless"
  MaxActive = 1
  Timeouts = {"degraded"}
  None = None
PROPERTIES RequestsAnswered DegradedAreClosed
