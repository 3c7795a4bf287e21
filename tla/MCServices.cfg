SPECIFICATION Spec
CONSTANTS
  None = None
  Runs = {r1, r2, r3}
  MaxWorkers = 3
  MaxSessionsPerWorker = 2
  MaxTotalSessions = 3
  ImmediateStop = FALSE
  Callers = {c1, c2, c3}
  Releasers = {x1, x2}
  MaxMade = 3
  MaxLines = 2
  Sockets = {s1, s2}
  Jobs = {j1, j2}
  LiveRuns = {"a", "b"}
  LiveTargets = {"t", "u"}
  Asked <- Lifetimes
  RelayTargets = {"t", "u"}
  MinLife = 2
  DefaultLife = 3
  Horizon = 4
  MaxSize = 2
  LineBudget = 2
  MaxBackups = 3
  MaxLogged = 7
  Instances = {i1, i2}
  Tasks = {k1, k2}
  MaxStarts = 3
  Launchers = {u1, u2}
  Chromes = {p1, p2, p3}
  MaxAttempts = 2
  MaxWaits = 1
  Clients = {k1, k2}
  Commands = {m1, m2}
  Tabs = {b1}
  MaxId = 2
INVARIANTS
  TypeOK ConnectionsTracked OnlyUsableHanded SnapshotRefsUsable ControllersKeepToRuns
  TokensLast LogKeepsNewest OnlyOrphansStopped ConfigTakesEffect RelayStateAgrees
PROPERTIES
  LeasesKept StopsEndChrome ImplementsReplies CommandsSettle
CHECK_DEADLOCK FALSE
