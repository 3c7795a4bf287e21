-------------------------------- MODULE Services --------------------------------
(***************************************************************************)
(* The services around the run sessions, composed.  They share no state,   *)
(* so a behaviour belongs to one of them, named by "part"; the variables   *)
(* of the others are None.  Variables with the same name in several        *)
(* modules are declared once.                                              *)
(***************************************************************************)
EXTENDS Integers, FiniteSets

CONSTANTS
  None,
  Runs, MaxWorkers, MaxSessionsPerWorker, MaxTotalSessions, ImmediateStop,  \* InMemoryAllocator
  Callers, Releasers, MaxMade,                                   \* BrowserConnections
  MaxLines,                                                      \* RoleSnapshots
  Sockets, Jobs, LiveRuns, LiveTargets,                          \* ControlLive
  MinLife, DefaultLife, Asked, Horizon,                          \* ControlTokens
  MaxSize, LineBudget, MaxBackups, MaxLogged,                    \* LogPipeline
  Instances, Tasks, MaxStarts,                                   \* StartUp
  Launchers, Chromes, MaxAttempts, MaxWaits,                     \* ChromeLauncher
  Clients, Commands, Tabs, RelayTargets, MaxId                   \* ExtensionRelay

VARIABLES
  part, phase, running,
  tracked, assignedRuns, unavailable, timer, assignment, nextTask,
  up, unheard, made, cached, known, attempt, stored, awaits, pc, got, rc, closing, leaked,
  kind, given, runGiven, selectorGiven, evaluateEnabled, place,
  page, options, from, cut, text, refs, done,
  conn, claim, active, target, frameBusy, jobs,
  now, token, issuedAt, told,
  level, logged, queue, flushing, immediate, files, backupCount, appended, rotating, alive, clean,
  starts, owner, task, listed, orphans, refused, stoppedBy,
  env, config, logging,
  proc, killed, at, chrome, tries, sigkilled,
  extension, socket, cdpClients, targets, pending, nextId, sender, status, result,
  asked, view, attaching

Memory == INSTANCE InMemoryAllocator
Connections == INSTANCE BrowserConnections
Act == INSTANCE ActRequests
Roles == INSTANCE RoleSnapshots
Live == INSTANCE ControlLive WITH
  Runs <- LiveRuns, Targets <- LiveTargets, NoRun <- None, NoTarget <- None
Tokens == INSTANCE ControlTokens
Log == INSTANCE LogPipeline WITH MaxLines <- MaxLogged
Start == INSTANCE StartUp
Settings == INSTANCE ServiceConfig
Launcher == INSTANCE ChromeLauncher WITH Callers <- Launchers
Relay == INSTANCE ExtensionRelay WITH Targets <- RelayTargets

\* What the code and its configuration give of the constants: limits and lifetimes
\* are positive numbers, and the values for "nothing" are none of the things.
MemoryConstants ==
  /\ IsFiniteSet(Runs)
  /\ MaxWorkers \in Nat
  /\ MaxSessionsPerWorker \in Nat \ {0} /\ MaxTotalSessions \in Nat \ {0}
  /\ ImmediateStop \in BOOLEAN
  /\ None \notin 1..MaxWorkers

ConnectionsConstants == MaxMade \in Nat /\ None \notin Callers

RolesConstants == MaxLines \in Nat

LiveConstants == "none" \notin Sockets /\ None \notin LiveRuns /\ None \notin LiveTargets

\* What a token says, whatever its issuer.
Claims ==
  [signed : BOOLEAN, hs256 : BOOLEAN, exp : {None} \cup Int, nbf : {None} \cup Int,
   iss : Tokens!Tri, aud : Tokens!Tri, scoped : BOOLEAN, ourType : BOOLEAN, run : BOOLEAN]

TokensConstants ==
  /\ None \notin Claims
  /\ MinLife \in Nat \ {0} /\ DefaultLife \in Nat \ {0} /\ Horizon \in Nat
  /\ Asked \subseteq Int /\ None \notin Int

LogConstants ==
  /\ MaxSize \in Nat \ {0} /\ LineBudget \in Nat \ {0}
  /\ MaxBackups \in Nat /\ MaxLogged \in Nat

StartConstants == MaxStarts \in Nat

LauncherConstants == MaxAttempts \in Nat \ {0} /\ MaxWaits \in Nat /\ None \notin Chromes

RelayConstants ==
  /\ MaxId \in Nat
  /\ None \notin Commands /\ None \notin Clients /\ None \notin RelayTargets

ASSUME ServicesAssumption ==
  /\ MemoryConstants /\ ConnectionsConstants /\ RolesConstants /\ LiveConstants /\ TokensConstants
  /\ LogConstants /\ StartConstants /\ LauncherConstants /\ RelayConstants

\* The variables that only one of them has.
OfMemory == <<tracked, assignedRuns, unavailable, timer, assignment, nextTask>>
OfConnections == <<up, unheard, made, cached, known, attempt, stored, awaits, pc, got, rc, closing, leaked>>
OfAct == <<kind, given, runGiven, selectorGiven, evaluateEnabled, place>>
OfRoles == <<page, options, from, cut, text, refs, done>>
OfLive == <<conn, claim, active, target, frameBusy, jobs>>
OfTokens == <<now, token, issuedAt, told>>
OfLog == <<level, logged, queue, flushing, immediate, files, backupCount, appended, rotating, alive, clean>>
OfStart == <<starts, owner, task, listed, orphans, refused, stoppedBy>>
OfSettings == <<env, config, logging>>
OfLauncher == <<proc, killed, at, chrome, tries, sigkilled>>
OfRelay == <<extension, socket, cdpClients, targets, pending, nextId, sender, status, result, asked,
             view, attaching>>

vars == <<part, phase, running, OfMemory, OfConnections, OfAct, OfRoles, OfLive, OfTokens, OfLog,
          OfStart, OfSettings, OfLauncher, OfRelay>>

Unused(x) == x = None

Init ==
  /\ \/ part = "memory" /\ Memory!Init
     \/ part = "connections" /\ Connections!Init
     \/ part = "act" /\ Act!Init
     \/ part = "roles" /\ Roles!Init
     \/ part = "live" /\ Live!Init
     \/ part = "tokens" /\ Tokens!Init
     \/ part = "log" /\ Log!Init
     \/ part = "start" /\ Start!Init
     \/ part = "settings" /\ Settings!Init
     \/ part = "launcher" /\ Launcher!Init
     \/ part = "relay" /\ Relay!Init
  /\ part \notin {"tokens", "start", "settings"} => Unused(phase)
  /\ part \notin {"launcher", "relay"} => Unused(running)
  /\ part # "memory" =>
       /\ Unused(tracked) /\ Unused(assignedRuns) /\ Unused(unavailable) /\ Unused(timer)
       /\ Unused(assignment) /\ Unused(nextTask)
  /\ part # "connections" =>
       /\ Unused(up) /\ Unused(unheard) /\ Unused(made) /\ Unused(cached) /\ Unused(known)
       /\ Unused(attempt) /\ Unused(stored) /\ Unused(awaits) /\ Unused(pc) /\ Unused(got)
       /\ Unused(rc) /\ Unused(closing) /\ Unused(leaked)
  /\ part # "act" =>
       /\ Unused(kind) /\ Unused(given) /\ Unused(runGiven) /\ Unused(selectorGiven)
       /\ Unused(evaluateEnabled) /\ Unused(place)
  /\ part # "roles" =>
       /\ Unused(page) /\ Unused(options) /\ Unused(from) /\ Unused(cut) /\ Unused(text)
       /\ Unused(refs) /\ Unused(done)
  /\ part # "live" =>
       /\ Unused(conn) /\ Unused(claim) /\ Unused(active) /\ Unused(target) /\ Unused(frameBusy)
       /\ Unused(jobs)
  /\ part # "tokens" => Unused(now) /\ Unused(token) /\ Unused(issuedAt) /\ Unused(told)
  /\ part # "log" =>
       /\ Unused(level) /\ Unused(logged) /\ Unused(queue) /\ Unused(flushing) /\ Unused(immediate)
       /\ Unused(files) /\ Unused(backupCount) /\ Unused(appended) /\ Unused(rotating)
       /\ Unused(alive) /\ Unused(clean)
  /\ part # "start" =>
       /\ Unused(starts) /\ Unused(owner) /\ Unused(task) /\ Unused(listed) /\ Unused(orphans)
       /\ Unused(refused) /\ Unused(stoppedBy)
  /\ part # "settings" => Unused(env) /\ Unused(config) /\ Unused(logging)
  /\ part # "launcher" =>
       /\ Unused(proc) /\ Unused(killed) /\ Unused(at) /\ Unused(chrome)
       /\ Unused(tries) /\ Unused(sigkilled)
  /\ part # "relay" =>
       /\ Unused(extension) /\ Unused(socket) /\ Unused(cdpClients) /\ Unused(targets)
       /\ Unused(pending) /\ Unused(nextId) /\ Unused(sender) /\ Unused(status) /\ Unused(result)
       /\ Unused(asked) /\ Unused(view) /\ Unused(attaching)

Rest ==
  /\ UNCHANGED part
  /\ part \notin {"tokens", "start", "settings"} => UNCHANGED phase
  /\ part \notin {"launcher", "relay"} => UNCHANGED running
  /\ part # "memory" => UNCHANGED OfMemory
  /\ part # "connections" => UNCHANGED OfConnections
  /\ part # "act" => UNCHANGED OfAct
  /\ part # "roles" => UNCHANGED OfRoles
  /\ part # "live" => UNCHANGED OfLive
  /\ part # "tokens" => UNCHANGED OfTokens
  /\ part # "log" => UNCHANGED OfLog
  /\ part # "start" => UNCHANGED OfStart
  /\ part # "settings" => UNCHANGED OfSettings
  /\ part # "launcher" => UNCHANGED OfLauncher
  /\ part # "relay" => UNCHANGED OfRelay

Next ==
  \/ part = "memory" /\ Memory!Next /\ Rest
  \/ part = "connections" /\ Connections!Next /\ Rest
  \/ part = "act" /\ Act!Next /\ Rest
  \/ part = "roles" /\ Roles!Next /\ Rest
  \/ part = "live" /\ Live!Next /\ Rest
  \/ part = "tokens" /\ Tokens!Next /\ Rest
  \/ part = "log" /\ Log!Next /\ Rest
  \/ part = "start" /\ Start!Next /\ Rest
  \/ part = "settings" /\ Settings!Next /\ Rest
  \/ part = "launcher" /\ Launcher!Next /\ Rest
  \/ part = "relay" /\ Relay!Next /\ Rest

\* The fairness of ChromeLauncher and of ExtensionRelay.
Fairness ==
  /\ \A u \in Launchers : WF_vars(part = "launcher" /\ Launcher!CallerStep(u) /\ Rest)
  /\ \A i \in 1..MaxId : WF_vars(part = "relay" /\ Relay!RequestTimesOut(i) /\ Rest)

Spec == Init /\ [][Next]_vars /\ Fairness

-----------------------------------------------------------------------------
\* Each module's state is well typed: its maps, counters and places stay in
\* their ranges, queues and files within their limits.
TypeOK ==
  /\ part = "memory" => Memory!TypeOK
  /\ part = "connections" => Connections!TypeOK
  /\ part = "act" => Act!TypeOK
  /\ part = "roles" => Roles!TypeOK
  /\ part = "live" => Live!TypeOK
  /\ part = "tokens" => Tokens!TypeOK
  /\ part = "log" => Log!TypeOK
  /\ part = "start" => Start!TypeOK
  /\ part = "settings" => Settings!TypeOK
  /\ part = "launcher" => Launcher!TypeOK
  /\ part = "relay" => Relay!TypeOK

\* InMemoryAllocator: no timer or quarantine drops a leased worker, the limits
\* hold, and it implements the lease contract of the port.
LeasesKept ==
  /\ [](part = "memory" => Memory!LeasedWorkersTracked /\ Memory!CapacityRespected)
  /\ [][part = "memory" => Memory!LeaseStep]_vars

\* BrowserConnections: the driver loses track of no open connection, and nobody
\* joins an attempt that has ended.
ConnectionsTracked ==
  part = "connections" => Connections!OpenConnectionsAreCached /\ Connections!StoredPromisesRun

\* ActRequests: what reaches the page can be carried out as it was meant, and with
\* evaluation off no request runs the caller's code.
OnlyUsableHanded == part = "act" => Act!HandedIsUsable /\ Act!NoCodeWhenDisabled

\* RoleSnapshots: a ref of the answer can be read in its text, refs answer the
\* options of the request, and role, name and nth tell the elements apart.
SnapshotRefsUsable ==
  part = "roles" => Roles!RefsAreShown /\ Roles!RefsFollowOptions /\ Roles!RoleRefsAreDistinct

\* ControlLive: a run has at most one open controller, frames and inputs act on the
\* page that was granted to them, and the frames of a socket do not overlap.
ControllersKeepToRuns ==
  part = "live" => Live!OneController /\ Live!ActsOnGrantedPage /\ Live!FramesOneAtATime

\* ControlTokens: a token is good for exactly its lifetime, and one that was
\* checked fails later only by expiring.
TokensLast == part = "tokens" => Tokens!IssuedTokensLast /\ Tokens!CheckedStaysGood

\* LogPipeline: log and backups hold the newest lines without a gap, and a line
\* that waits has a flush coming.
LogKeepsNewest == part = "log" => Log!FilesHoldNewest /\ Log!QueueDrains

\* StartUp: no process stops a task it started itself or a foreign one, and it is
\* ready only when its orphans are stopped.
OnlyOrphansStopped == part = "start" => Start!OwnTasksSurvive /\ Start!ReadyMeansClean

\* ServiceConfig: a valid configuration has an address for its browser, and the
\* logger ends up with the validated configuration.
ConfigTakesEffect == part = "settings" => Settings!EndpointResolved /\ Settings!LoggerFollowsConfig

\* ChromeLauncher: launches and stops come to an end, and a stop only when its
\* Chrome is gone.
StopsEndChrome ==
  /\ [][part = "launcher" => Launcher!StopLeaves]_vars
  /\ \A u \in Launchers :
       (part = "launcher" /\ Launcher!InCall(u)) ~> (part = "launcher" /\ ~Launcher!InCall(u))

\* ExtensionRelay: without an extension nothing of it is left, and what clients
\* were told of the targets is what the relay has connected.
RelayStateAgrees == part = "relay" => Relay!NothingSurvivesExtension /\ Relay!ViewsAgree

\* ExtensionRelay: each command is settled once, and answered with its own result
\* (CommandReplies).
ImplementsReplies ==
  /\ part = "relay" => Relay!Replies!Init
  /\ [][part = "relay" => Relay!ReplyStep]_vars

\* ExtensionRelay: every forwarded command is settled in the end.
CommandsSettle ==
  \A c \in Commands :
    (part = "relay" /\ Relay!Waiting(c)) ~> (part = "relay" /\ ~Relay!Waiting(c))
================================================================================
