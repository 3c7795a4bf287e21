# Verification of the Tailorec browser service

TLA+ models of the browser orchestration service, checked with TLC, and theorems
about them checked with TLAPS. The models are translated from the TypeScript
sources; every definition is tied to the lines it stands for in `PROJECT.json`.
All source paths below are relative to the service's own `src/`.

The service is one Node.js process. Its concurrency is that of an event loop:
code runs without interruption until it awaits, and anything may happen before
the await is answered. **A step of every model is the code between two awaits.**

## Inventory

| Component | State | Operations | Works with | What makes it correct |
|---|---|---|---|---|
| Browser context (`api/context/browser.context.ts`) | `runSessions`, `targetOwners`, run locks, idempotency results, the session objects that requests hold on to | `ensureRunSession`, `ensureTabAvailable`, `closeRunSession`, the expiry sweep | allocator, runtime, driver (all awaited) | one operation at a time per session; closed sessions stay closed; degraded is final; leases and sessions come and go together; requests are answered |
| ECS allocator (`adapters/browser/ecs-browserless-allocator.adapter.ts`) | workers by task, assignments by run, allocation queue, idle timers | `assignRun`, `getAssignment`, `releaseRun`, `waitForWorkerRunning`, `markWorkerUnavailable`, `reconcileOrphans` | AWS ECS (awaited), the browser context | limits hold; the two maps agree; quarantine is final; empty workers retire |
| In-memory allocator (`adapters/browser/in-memory-...`) | as above, one configured endpoint | the same port | the browser context | the same contract |
| Start-up (`main.ts`, `container/`, allocator factory) | phase of each process, the tasks of the cluster | listen, reconcile, ready, crash, restart | ECS | orphans of earlier owners stop, nobody else's |
| Configuration and logging (`config/`, `adapters/logging/`) | the resolved configuration; queue, files, backups | load, validate, configure; log, flush, rotate | environment, disk, stdout | what is valid can be used; the newest lines are kept |
| Control live WebSocket and tokens (`adapters/http/control-live.server.ts`, `shared/utils/control-token.ts`) | controller socket per run, target and busy flag per socket | issue, verify, upgrade, message, frame tick, close | browser context, session service | one controller per run; a frame or input goes on with the tab it was granted; frames do not overlap; a token lasts its lifetime |
| Extension relay (`adapters/chrome/extension-relay.server.ts`) | extension socket, CDP clients, pending commands, targets | upgrade, command, answer, event, timeout, close | a Chrome extension, CDP clients | each command is settled once, by its own answer; nothing survives a disconnect |
| Browser driver (`adapters/playwright/playwright.browser-driver.adapter.ts`) | connection cache, attempts in flight | `connect`, `disconnect`, `disconnectByCdpUrl` | Chrome over CDP | single flight; no connection is lost track of |
| Session service (`core/services/session.service.ts`) | page sessions, page states, role references (entity, bounded cache, store), arm counters, recorded events | `getSession`, `forgetSession`, store and restore references, observers | driver | an action finds the references of the last snapshot; records tell their own request |
| Hooks (`api/controllers/hooks.controller.ts`, downloads adapter) | armed handlers, staged files | arm upload, dialog, download | session service | the latest arm wins, when the event comes; a download is taken once; waiters are answered; files outlive their handler |
| Actions (`api/controllers/*action*`, `core/use-cases/execute-action...`, interaction and discovery services) | progress of a request on the page | gate, validate, detect and dismiss blockers, fill, discover options | the page | only what is usable reaches the page; a blocked target stays untouched; results are true |
| Snapshots and pictures (snapshot service, role-snapshot adapter, media controller) | labels on the page | snapshot, screenshot, labelled screenshot | the page | references match the text and the options; no labels are left |
| Chrome launcher and local runtime (`adapters/chrome/`, `adapters/browser/local...`) | the process by port | launch, wait, stop | operating system | a stop ends its Chrome; calls end |

The hard behaviours are the interleavings of requests of one run with each
other, with the expiry sweep and with failures of the browser; of allocation
with releases, timers and AWS answers; of requests of one page that share its
state (handlers, references, focus, observer, labels); of late events (close,
disconnected, answers) with what has replaced their subject; and what a failure
in the middle of an operation leaves behind. They are listed line by line under
`hazards` in `PROJECT.json`.

## Modules

| Module | Models |
|---|---|
| `RunSessions`, `MCRunSessions` | the browser context |
| `RunLifecycle` | abstract: the life of a run's session (the state machine of `docs/architecture/overview.md`) |
| `RunSessionsProofs` | locks, queues and ownership of sessions, for any number of profiles |
| `RunSessionsSafetyProofs` | the safety of sessions, for one profile |
| `RunSessionsLifecycleProofs` | that `RunSessions` implements `RunLifecycle`, for one profile |
| `EcsAllocator`, `MCEcsAllocator` | the ECS allocator |
| `EcsAllocatorProofs` | theorems about it |
| `BrowserlessLeases` | abstract: what an allocator behind the port promises about leases |
| `InMemoryAllocator` | the in-memory allocator |
| `BrowserConnections` | the driver's connections to one endpoint and the session service's map over them |
| `StartUp` | processes over one cluster: listening, reconciling, crashing, starting again |
| `ServiceConfig`, `LogPipeline` | configuration and its validation; the log's queue, file and backups |
| `ControlLive`, `ControlTokens` | the live control socket; the tokens it is opened with |
| `ChromeLauncher` | launching and stopping local Chromes on one port |
| `ExtensionRelay`, `CommandReplies` | the relay; abstract: what it promises about commands |
| `ActRequests` | the gate and the validator of `POST /act`, for every kind |
| `RoleSnapshots` | which lines and references a snapshot answers with |
| `PageHooks`, `PageSessions`, `PageActions`, `FormFill`, `DomObserver`, `PageActivity`, `Screenshots` | what requests do on one page |
| `Services` | the composition of what surrounds the run sessions: the modules from `InMemoryAllocator` to `RoleSnapshots` in this table |
| `Pages` | the composition of the page side |
| `MCServices`, `MCPages` | their instances for TLC |
| `BrowserSupplyProofs` | theorems about `Services`: in-memory allocator, connections, start-up |
| `ControlProofs` | theorems about `Services`: control socket, tokens, relay |
| `ServicesProofs` | theorems about `Services`: requests to act, configuration, snapshots, launcher, log, and its types |
| `PagesProofs` | theorems about `Pages`: every safety property of its run |

`Pages` and `Services` put several modules into one specification. The modules
share no state, so a behaviour of the composition is a behaviour of one of them:
`part` names it from the first state on, `Rest` leaves the variables of the others
alone, and each property is that of one module, guarded by `part`. Two names that
modules have in common are one variable, used by whichever is `part`. Where a
module has several properties, the composition states their conjunction. The
runs check these properties, and the theorems prove the same ones.

### RunSessions

`runSessions`, `targetOwners` and `idempotency` are the maps of the code.
Sessions are objects: `session[s]` has the fields the control flow reads, and a
request keeps its `s` across awaits exactly as the closure keeps its reference,
so that a write-back of an outdated reference is possible in the model wherever
it is in the code. `runLocks` is the promise chain of `withRunLock`, as a FIFO
queue whose head runs. `req[q].pc` names the await a request is at. `closed` is
a history mark: `closeSessionInternal` or the rollback has removed the session.

Each await is answered by an action named after it (`LaunchReturns`,
`ListReturns`, ...), in every way the callee can answer. Errors fall in the two
classes the code distinguishes: a lost remote browser
(`isBrowserDisconnectError`), which degrades the session, and a refused
connection (`isConnectionRefusedError`), which is retried once. Chrome is
external: `home` says whose browser shows a page, `chrome` which local processes
live; pages open and close and processes exit at any time.

Time is abstract. `Expire` marks that a session has passed a limit; touching it
clears the idle mark. A sweep judges all its candidates by the time it began,
which is why a session does not become idle for a candidate already picked.
Each candidate is a request of its own: this allows every order the code allows
(sweeps overlap, since the interval and every request start one) and more.

Abstracted: several awaits in a row without a state change between them are one
(`isBrowserAvailable` and the probe; `waitForWorkerRunning` and the probe loop;
`releaseBrowser` and `disconnectBrowserEndpoint`); `releaseBrowser` is taken to
stop the browser; the sweep that a request awaits before it queues is the
sweepers' work; `state().profiles`, which nothing reads, is left out; ids of
sessions that nothing refers to any more are used again.

### EcsAllocator

Workers are numbered in launch order, which is the order `createdAt` sorts by.
The maps are `assignment` and `leaseEndpoint` (the two fields of an assignment
that matter), `tracked`, `assignedRuns`, `unavailable`, `running`, `addressed`.
A worker's record outlives its removal from `workersByTaskId`, because polls and
stops keep a reference: `assignedRuns` and the flags are defined for workers no
longer tracked. `allocationQueue` is the promise chain of `withAllocationLock`.
`idleStops` counts timer-started `StopTask` calls in flight. ECS is external: a
task can stop at any moment, and an accepted `StopTask` takes effect later.

The model lets each run have one allocator call at a time, which is what the run
lock of the browser context gives. `getStatusSnapshot` changes nothing.

### InMemoryAllocator, StartUp

No operation of the in-memory allocator awaits, so each is one step on `tracked`,
`assignedRuns`, `assignment` and `timer`; a quarantine can concern a worker that
is gone. The name of a task is used once, as in the code.

In `StartUp` several instances start, reconcile, crash and start again over one
cluster. `listed` is the answer of ListTasks, which is out of date by the time the
tasks are stopped one by one, and requests start tasks in the meantime. Each
start is an owner of its own: its number stands for process id and time.

### BrowserConnections, ChromeLauncher

Callers of `connect` share `stored`, the promise of the attempt; `cached` is the
connection the driver has, `known` what the session service has. A connection
that drops (`up`) and the event that says so (`unheard`) are two steps, and a new
connection may be cached between them. `leaked` are connections whose close
failed: the driver forgets those on purpose.

`ChromeLauncher` has one port. A Chrome is starting, answers, hangs or is dead; a
second one on the same profile directory exits at once. `tries` counts polls of
the port; a launch ends ready or with an error that leaves the process.

### ServiceConfig, LogPipeline

An environment variable is one of the classes of value that the code tells apart
(unset, no number, zero, outside the valid range, valid). The lines of the log are numbered as they reach the file. The renames of a rotation,
backups first and the log itself last, and the append are steps of their own: each
may fail, which swallows the line, and the process may die between two of them.
`clean` marks that neither has happened.

### ControlLive, ControlTokens, ExtensionRelay

A socket's frames and inputs are jobs. Each reads the socket's target, awaits the
browser context and the page, and acts; `init` changes the target meanwhile. The
close event of a replaced socket is a step of its own. Whose tab it is, is not
decided here: `ensureTabAvailable` refuses a tab that another run owns, and what
the ownership entries are is up to other requests, which set them on free targets
and delete them when they close. So any tab may be granted or refused
(`TabGranted`, `JobEnds`), and the properties hold however that goes. That a run
gets no foreign tab is no property of this module; for the browser context it is
`ForeignTargetsRejected`, which TLC refutes (below).

A token is what `verifyControlToken` reads of it; time is in units of which the
least lifetime has two. `told` is what the issuer's answer said.

The relay matches answers to `pending` by id. `sender` remembers whose command an
id carries, `view` what a client was told of targets. A step is one socket event
or timer with the continuations of the promises it settles.

### ActRequests, RoleSnapshots

One request, described by the class of value of every field: the classes that
`trim`, `Number`, the enumerations and the type tests of gate and validator tell
apart. `place` ends at the page's services, at a status, or with the process
exited, which is what a throw outside the try block amounts to.

A page is at most two lines of role, name and depth. The text is cut by
`maxChars` anywhere relative to the ref of a line (`Rests`), and both builders
read what is left in one pass.

### PageSessions, PageHooks

References of a target are in four places: session entity, bounded cache (its
keys in order of use), store and page state. A page object belongs to the
connection it was found on, and a request keeps `held` across awaits. `seen` is
what the store had when a request got its page: this is what it must find.

In `PageHooks` handlers are numbered per kind; `pending` are those that listen,
and `isActive` compares the number with that of the page state, which a
`forgetSession` replaces. It is asked once, when the download comes, or when the
click returns that caused it (`Tested`); the save is awaited after that ("saving")
and the answer is a step of its own (`SaveEnds`), so other waiters arm meanwhile.
`started` counts downloads, and `download` is the one a request was given: every
waiter that listens gets it, and `TakenOnce` says that one at most takes it. `disk` and `wants` are the staged files that exist and
those a handler will hand to the browser.

### PageActions, FormFill, DomObserver, PageActivity, Screenshots

`PageActions` has a page that may gain or lose a blocker at any await; a request
detects, dismisses with the strategies in order, detects again and makes its
calls, whose order is `calls`. In `FormFill` two ways to fill are modelled, and
the keyboard goes to the field that has the focus, whoever gave it. In
`DomObserver` discoveries share the one observer of the window; `alone` marks one
that no other disturbed. `PageActivity` keeps bounded lists of records whose
requests answer in any order. In `Screenshots` the overlay of one request can be
in the picture of another; `crossed` marks requests whose work overlapped.

## Abstract specifications

* `RunLifecycle`: absent, creating, active, degraded; with Browserless a run is
  registered exactly while it is leased. `RunSessions` implements it
  (`ImplementsLifecycle`): whatever requests, sweeps and failures do, each run
  moves only along these edges.
* `BrowserlessLeases`: grant, revoke, close; limits, and no grant on a closed
  worker. `EcsAllocator` implements it (`LeaseContract`), and so does
  `InMemoryAllocator` (part of `LeasesKept`).
* `CommandReplies`: a command of a CDP client is settled once, with its own
  result. `ExtensionRelay` implements it (`ImplementsReplies`).

All four refinements are model-checked on the runs' instances and proved for every
value of the constants.

## Runs

| Run | Instance | Shows |
|---|---|---|
| `ecs_safety` | 3 runs, 2 workers of 2 slots, total 3, StopTask may fail | type, agreement of the maps, limits, timers, quarantine, refinement |
| `ecs_live` | 2 runs, 2 workers of 1 slot, StopTask accepted | calls are answered, empty workers retire |
| `ecs_stop_race` | 2 runs, 2 workers | violated: a worker is stopped under a run leased while StopTask was in flight |
| `sessions_remote` | Browserless, 1 run, 2 requests, 1 sweep candidate, 2 pages | exclusion, no resurrection, degraded is final, refinement |
| `sessions_local` | local, 2 runs, 2 requests, 1 page, 1 key, cap 1 | keys follow their session, bindings are stable |
| `sessions_live` | Browserless, 1 run, 2 requests, 1 sweep candidate | requests are answered, degraded sessions end |
| `sessions_local_cap` | local, 2 runs, cap 1 | violated: two browsers run |
| `sessions_failed_creation` | local, 1 request | violated: a failed creation leaves its Chrome |
| `pages` | 2 requests on one page; see below | see below |
| `services` | see below | see below |
| `uploads_unlinked` | 2 requests, 1 URL | violated: a chooser is armed with files already deleted |
| `snapshot_unfiltered` | 2 lines | violated: the text ignores the options |

Every violation run checks one sentence of the documentation; `findings` quotes it.

| Property of `pages` | Module | Says |
|---|---|---|
| `RefsStayFound` | `PageSessions` | an action finds what the store had for its page; cache and store agree |
| `NewestHandlerActs` | `PageHooks` | at most one armed handler of a kind acts; a download is taken by the newest waiter of that moment, and by one request only |
| `RequestsAnswered` | `PageHooks` | whoever has its files staged is answered, unless the process exits or it comes to wait for what has no limit: a download being saved, a click with `timeoutMs` 0 |
| `BlockersRespected` | `PageActions` | clicks and typing begin on a target free when last looked at; a request that gives up on a blocked one has made no call and tried each strategy at most once |
| `FillsReportTruly` | `FormFill` | each field is reported once and in order; a field reported as matched held the value |
| `DiscoveriesReportNew` | `DomObserver` | options appeared since the trigger; an undisturbed discovery misses none |
| `EventsRecorded` | `PageActivity` | a record tells the end of its own request; exactly the newest requests and messages are kept |
| `PicturesAsAsked` | `Screenshots` | no labels stay on the page; a picture has its own labels; refs are accounted for; a quality is used or refused |

| Property of `services` | Module | Says |
|---|---|---|
| `LeasesKept` | `InMemoryAllocator` | timers and quarantine drop no leased worker; the limits hold; the lease contract |
| `ConnectionsTracked` | `BrowserConnections` | no open connection is lost track of; nobody joins an attempt that has ended |
| `OnlyUsableHanded` | `ActRequests` | what reaches the page can be carried out; nothing evaluates code when that is off |
| `SnapshotRefsUsable` | `RoleSnapshots` | a ref can be read in the text, answers the options, and is told apart by role, name and nth |
| `ControllersKeepToRuns` | `ControlLive` | one open controller per run; a frame or input acts only for a run, on the page of the tab it was granted; frames do not overlap |
| `TokensLast` | `ControlTokens` | a token is good for exactly its lifetime; once checked, it fails only by expiring |
| `LogKeepsNewest` | `LogPipeline` | log and backups hold the newest lines without a gap; a queued line has a flush coming |
| `OnlyOrphansStopped` | `StartUp` | no process stops its own or a foreign task; ready means the orphans are stopped |
| `ConfigTakesEffect` | `ServiceConfig` | what is valid has an address for its browser; the logger follows the configuration |
| `StopsEndChrome` | `ChromeLauncher` | a stop ends when its Chrome is gone; launches and stops end |
| `RelayStateAgrees` | `ExtensionRelay` | nothing of an extension survives it; clients know the targets the relay has |
| `ImplementsReplies`, `CommandsSettle` | `ExtensionRelay` | each command is settled once with its own result, and in the end |

The exceptions a statement makes (overlapping pictures, disturbed discoveries,
connections whose close failed) are in the definitions, and below under
"Behaviour the models show".

### Bounds

* `MaxLaunches` (2): tasks started in a behaviour. One full worker and one more
  give every case of `assignRun`: reuse, launch beside a full worker, launch
  beside a quarantined one. With three runs a total of 3 lets a full worker force
  a launch. That the total limit itself binds, and a worker stopped at once
  (`ImmediateStop`), are covered by the proofs and not by a run of this size.
* `MaxIdleStops` (1): overlapping timer-started stops of one worker.
* `MaxSessions` (2 or 3): session objects alive at once: the registered one and
  one a request still holds, which is the resurrection case. A creation waits
  for a free id.
* Two requests are enough for the pairwise hazards (one in progress, one queued
  or retrying); the sweeper adds a third party. Two runs share the capacity.
* `pages`: two requests for the hazards of sharing a page, and three in
  `PageSessions`, so that its cache of one entry evicts; two targets, two
  connections and two snapshots, so that each can be outlived by a request; one
  blocker, two fields of the six kinds, three elements of which the observer
  reports two and one is blank; three page requests over a list of two; two refs
  in a picture. `Options` keeps, of the options of an action, the two whose order
  matters (`clear` and `submit`).
* `services`: three runs over three workers of two slots; three callers, two
  releases and three connections, so that an old connection drops after a second
  one was cached; two lines of a page; two sockets with two jobs, two runs and two targets, any of
  which may be granted;
  lifetimes 2 to 4 on a clock to 4; files of two lines, three backups and seven
  lines, so that the oldest is lost; two instances, two tasks, three starts; two
  launchers, three Chromes, two attempts and one wait; two relay clients, two
  commands, one tab and two message ids.
* Runs, requests, pages and keys are interchangeable and declared symmetric in
  the safety runs; the liveness runs, `pages` and `services` use no symmetry.

`pages`, `services` and the two runs beside them say `CHECK_DEADLOCK FALSE`:
their requests, files, starts and lines are bounded and really end.

### Fairness

`EcsAllocator`: a queued call gets its turn, AWS answers each call, armed timers
fire. Nothing obliges a run to release. `EmptyWorkersRetire` further takes
`StopTask` to be accepted: the code does not retry a rejected one.

`RunSessions`: every accepted request takes its next step (the event loop and
answered awaits), the degraded grace period ends, and, strongly fair, a run that
is expired again and again is scanned: the sweep timer fires for ever and each
sweep visits every expired run. Callers, pages and browsers owe nothing.

`PageHooks`: once files are staged, a click or a direct input ends, because it is
given a time limit (`Limited`), and a handler's own timer fires. Two awaits have
none and no fairness: `saveAs`, which waits for the browser's download, so
`SaveEnds` may never come; and the click of a file chooser whose caller sends
`timeoutMs` 0, which is handed to Playwright as it is ("chooserClick0"). A request
that gets to either may stay there, and `RequestsAnswered` says so (`Unlimited`).
Nothing obliges the page to open a chooser or to download. `ChromeLauncher`: a
caller takes its next step, since each of its polls has a time limit; Chrome owes
nothing, not even to die of SIGTERM. `ExtensionRelay`: only the 30-second timer
of a command; the extension need never answer.

## Proofs

`EcsAllocatorProofs` proves for every finite set of runs and all limits, with
`AllocatorAssumption` as the only assumption:

* `TypeCorrect`, `LeasesStayConsistent`, `CapacityHolds`, `TimersStayIdle`: the
  invariants;
* `QuarantineIsFinal`: the action property;
* `ImplementsPort`: the allocator implements `BrowserlessLeases`;
* `EmptyWorkersAreWatched`: while AWS accepts every StopTask, a tracked worker
  without runs has its idle timer armed or a stop under way;
* `LockIsPassedOn`: the queue holds exactly the calls that wait or launch, each
  once, and a call that launches is at its head.

The last two are the safety halves of `EmptyWorkersRetire` and `AssignsAnswered`:
no worker is forgotten and no caller is left out of the queue, so that fairness of
timers and answers is all that is missing. They are in no run; adding `INVARIANTS
EmptyWorkersWatched LockPassedOn` to `MCEcsAllocatorLive.cfg` has TLC check them.

The limits are not inductive by themselves. `CapacityRespected` needs to know
that between the capacity test and the registration of the lease, with RunTask
awaited, there is still room (`LaunchHasRoom`: a launching run holds the lock,
has no lease, and the total is below the limit); that a task not yet launched
has no runs (`AbsentTasksUntouched`); and that the run set `assignRun` counts is
the set of runs leased to the worker (`LeasesConsistent`). `IInv` is their
conjunction with `TypeOK` and `CalleesLaunched` (calls refer to launched tasks).
`StepInductive` goes action by action; `LeaseEffects` first sorts the actions by
what they do to leases (grant, release, none), so that the arithmetic on
cardinalities is done once for each (`GrantCounts`, `ReleaseCounts`).
The refinement maps `lease` to `assignment` and `closed` to the workers
quarantined or removed.

`QuarantineHolds` also says which step may drop a worker from under its runs: only
the answer to a stop that an idle timer started. A stop that a call awaits is of an
empty worker it has quarantined first (`StopsOfEmptyWorkers`); a timer's is of one
that stays in service. So the race of `ecs_stop_race` is confined to that path.

`RunSessionsProofs` proves for every set of profiles, runs, requests, sweepers,
sessions, targets and keys and for both providers, with `SessionsAssumption`:

* `InvCorrect`: the inductive invariant `Inv`; `TypeCorrect`: its type part;
* `SessionExclusive`: with one profile, no two requests work on one session.

`OneRequestPerSession` is not inductive: nothing in it says why a request that
works is the only one. `QueueInv` says that a lock's queue holds exactly the
requests under way on it, each once (the retry leaves and rejoins), and that only
the first is past `queued`. `OwnerInv` says that the session a request works on
belongs to the request's run, across collection and reuse of objects. Two
requests on one session are then on one run, with one profile on one lock, and
both first. Most handlers end in one of a few ways (await, answer, retry, fail,
degrade); one lemma for each ending says what it does to queues and owners, and
the proof of a handler shows that its endings apply (`Sound`).

`RunSessionsSafetyProofs` adds what a request may rely on after an await (`Held`):
its session is still the registered one, it is open, and it is not degraded while
the request could still put it to use. Nobody else can change that, since whoever
changes it holds the lock of the same run (`OneHolder`). With
`RegisteredOpen` and `KeysOfRuns` this is inductive (`SafeCorrect`), and each
write-back from a kept reference is seen to be right:

* `ClosedStaysClosed`, `BindingHolds`, `DegradationIsFinal`: the action properties
  `NoResurrection`, `BindingStable`, `DegradedIsFinal`;
* `KeysFollowSessions`: the invariant `KeysBelongToSessions`.

These and `SessionExclusive` assume one profile because the code needs it: the
registry is keyed by run, the lock by profile and run. With two profiles two
creations of one run both find no session and the later overwrites the earlier
(TLC finds `BindingStable` violated in six steps). `loadConfig` only ever makes
the profile `default`, so the service is not exposed to this today.

`RunSessionsLifecycleProofs` proves `LifecycleImplemented`: with one profile the
browser context implements `RunLifecycle`. Each handler's step is shown to take its
run along one edge (`Path`), again one lemma per ending, and only its own run
(no two requests are past `queued` on one lock). Two facts are needed on top:
`Served`, a request that works with pages has a session with a runtime, so that
what it degrades was active; and `LeasedRuns`, with Browserless the leased runs are
the registered ones, so that the second `assignRun` of a creation changes nothing.
The latter is a theorem of its own, `LeasesFollowRegistry`: no failed creation,
close, sweep or degradation leaks a lease or leaves a session without one.

The three modules about `Services` prove what `services` checks, for every value
of the constants that `ServicesAssumption` allows: limits, bounds and lifetimes are
numbers, positive where the code or its configuration has them so, and the values
that stand for "nothing" are none of the things. Each part has its own invariant
(`MemoryInv`, `LiveInv`, ...), a lemma that its Init establishes it, one that its
Next preserves it, and one (`...Part`) that a step of the composition is a step of
the part. What each needs beyond the property and the types:

| Theorem | States | Because |
|---|---|---|
| `MemoryKeepsLeases` | `LeasesKept` | numbers of workers never created are in no map, so that a new worker starts empty; counting of leases as for ECS. The limits of the lease contract then are those of the code (`LeasesWithinLimits`) |
| `ConnectionsAreTracked` | `ConnectionsTracked` | at most one attempt runs, it is the stored one, and nothing is cached meanwhile |
| `OrphansOnlyAreStopped` | `OnlyOrphansStopped` | an owner is a start that has happened; what a reconciling process lists was started before it in its own scope, and an orphan that still runs is on its list |
| `ControllersKeep` | `ControllersKeepToRuns` | an open socket is the registered one of its run; a job that was granted its tab has a run, and one that acts has that tab's page; a frame under way is the only one and holds the flag |
| `TokensLastTheirLifetime` | `TokensLast` | an issued token has every claim right and ends with the lifetime told; an accepted one has an end |
| `RelayAgrees`, `RelayImplementsReplies` | `RelayStateAgrees`, `ImplementsReplies` | an id waits for one pending command, the one the extension was asked, and a pending command waits under one id; ids to come are nobody's; what a client was told ends with its socket |
| `UsableIsHanded` | `OnlyUsableHanded` | what a request has passed so far, kind by kind |
| `ConfigurationTakesEffect` | `ConfigTakesEffect` | a configuration that is kept was valid; the logger's is taken from it |
| `SnapshotsUsable` | `SnapshotRefsUsable` | a text the service numbers itself is not cut, and none is cut after its last line |
| `StopsLeaveChromesDead` | the safety half of `StopsEndChrome` | whoever stops has signalled a Chrome that was spawned, or it was dead |
| `LogKeepsTheNewest` | `LogKeepsNewest` | see below |
| `ServicesTypes` | `TypeOK` | all of the above at once |

That the log keeps the newest lines is not inductive, because in the middle of a
rotation there is one file too few: the backup just moved is empty, and the file
before it in line is the next but one. `FilesInv` says where each line is:
while nothing has failed, line k of file j has the number that follows from full
files between j and the log (`Positions`, with `Before` and `Emptied` for the file
the rotation has moved); backups are full; a backup that has lines has a newer one
that has; and as long as the oldest has none, the first line is still there
(`NothingDropped`). The order of the lines and the absence of gaps (`InOrder`, `NoGap`) hold
without that, through failures and crashes, and are shown for a rename and an
append of any files of which they hold (`Shifting`, `Appending`). They rest on the
order of the renames: a file is moved into an emptied place, or over the oldest.

`PagesProofs` does the same for the seven parts of `Pages`, with `PagesAssumption`:
finitely many requests, bounds that are numbers, limits of lists that are positive
(`MaxSent` too, as a request may precede the observers), and a form with fields.

| Theorem | States | Because |
|---|---|---|
| `NewestHandler` | `NewestHandlerActs` | `HandlersNumbered`: a handler is armed once, numbers differ within a kind, and none is beyond the page's while it is open; a kind's number is at most the number of its armed handlers. `DownloadsGiven`: of the requests with one download, the one that takes it has the highest number (`ActiveIsNewest`), who still listens has been given none, and a new download is nobody's |
| `RefsAreFound` | `RefsStayFound` | `RefsOf`: restoring takes no refs away, and only the session of a closed target is forgotten, for good; cache and store are written together |
| `BlockersAreRespected` | `BlockersRespected` | `DismissalOf`: calls are made only from a place reached when the detection found nothing; a dismissal starts with a strategy left to try |
| `FillsTellTruly` | `FillsReportTruly` | `ResultsInOrder`: one result for each field before the one at work; each push is of a value compared in the same step |
| `DiscoveriesTellNew` | `DiscoveriesReportNew` | `Observes`: the list holds only elements later than every observation under way, and all of them for one nobody disturbed |
| `EventsAreRecorded` | `EventsRecorded` | `NewestInOrder`: ids run without a gap up to the next; `IdsInOrder`: a request's id is its place, or one less if a request preceded the observers |
| `PicturesAreAsAsked` | `PicturesAsAsked` | `LabelsOwned`: labels are those of a request that has yet to remove them; `Crossing`: of two requests at work both have crossed |
| `PagesTypes` | `TypeOK` | the cache holds a target once and stays within its limit (`CacheStaysDistinct`); what is restored was stored; pictures and labels are of requests that asked for them |

Bounded buffers are one lemma (`KeptIsNewest`: what push and shift keep), and the
members of the reference cache another (`CacheMembers`).

Only model-checked: liveness, since fairness and ENABLED are outside the prover
(`AssignsAnswered` and `EmptyWorkersRetire` of the ECS allocator, `RequestsAnswered`
and `DegradedAreClosed`, `RequestsAnswered` of the hooks, `CommandsSettle`, and
that launches and stops end, the other half of `StopsEndChrome`). Every invariant
and every action property the passing runs check is the statement of a theorem.

## Refuted without a run

Three statements of the documentation are kept as definitions although no run
of the project checks them; TLC refutes each in seconds. To see one, take the
configuration named, replace its last line, and check the module with it.

* `EndpointsPinned` of `EcsAllocator`: `EcsAllocator_OnlyEmptyWorkersStop.cfg`
  with `INVARIANTS EndpointsPinned`. A poll keeps its worker across awaits and
  writes its address into an assignment that has meanwhile moved.
* `DegradedFailsClosed` of `RunSessions`:
  `RunSessions_FailedCreationLeavesNothing.cfg` with `Provider = "browserless"`
  and `PROPERTIES DegradedFailsClosed`. A tab request with `createNewTab` is
  answered from the session record before the degraded test.
* `ForeignTargetsRejected` of `RunSessions`: the same with `Runs = {r1, r2}`,
  `Targets = {t1, t2}`, `MaxSessions = 3` and `PROPERTIES ForeignTargetsRejected`.
  A close deletes the ownership entry of the target its caller names.

## Behaviour the models show and no document speaks about

They contradict no statement of the repository, and the properties above make an
exception for them where needed. The weightier ones are also among the hazards.

* Allocators: a StopTask that AWS rejects is not tried again until the worker has
  been used once more. Two live instances of one scope stop each other's tasks,
  which `docs/architecture/overview.md:156` rules out.
* Sessions: `setActiveTarget` leaves the ownership entry of the previous target.
  `disconnectByCdpUrl` during an attempt lets the attempt cache its connection. A
  cached page session keeps the page of a connection that has dropped. An action
  stores the references it began with over those of a newer snapshot.
* Hooks: when the second of two URLs cannot be staged, the first file stays. The
  body of a staged download is read without a time limit. An unknown ref answers
  an error and leaves the hook armed. When the newest dialog handler has expired,
  an older one leaves the dialog alone. A download timer that fires during the
  click ends the process. A waiter superseded while its download is saved is
  answered with it all the same. `timeoutMs` 0 takes the limit off a file
  chooser's click.
* Page: two discoveries at once lose each other's options. Labels of a scrolled
  page are drawn off by the scroll offset (`media.controller.ts:231`).
* Requests: handlers that validate before their `try` end the process when the
  validator throws.
* Control and relay: an input of a replaced controller still acts. The target an
  init has named is undone when a frame or an input that asked for the old one is
  granted it later (`control-live.server.ts:127`). Commands of a client that has closed still reach the next extension.
* Process: the line of a fatal error reaches the file and not stdout.
  `LOG_BACKUP_COUNT=0` keeps five backups. A launch that is not ready in time
  leaves its process; a stop that ends late deletes a newer launch's entry.

## Plan

1. *(done)* The ECS allocator and the run sessions, their abstract
   specifications, and proofs of their safety.
2. *(done)* The second allocator, start-up, connections, the page side, the
   control socket, the relay, the launcher, configuration and log.
3. *(done)* Proofs: that `RunSessions` implements `RunLifecycle`, and the safety of
   everything in `Services` and `Pages`.
4. *(done)* The types of `Pages` as a theorem, and the safety halves of the ECS
   allocator's liveness.
5. One composed model of sessions over a port allocator. Today the leases of
   `RunSessions` are an external service that grants and answers as the port does.

## Not modelled

* Wording of errors and logs, status codes (`mapRouteError`), HTTP framing, page
  content and layout, and what one Playwright call does on the page.
* The construction of objects (`createContainer`, route tables), and the status
  pages, pings and titles of the relay.
* Code without a caller in `src/`: the Chrome executable search and profile
  decoration, the relay's router, the Express middleware adapter, the activity,
  discovery, DOM-observer and snapshot adapters, text utilities and the profile
  entity have no importers; `PlaywrightInteractionsAdapter`, the use cases for
  starting a session and issuing control tokens are constructed and not called;
  `stopRunningBrowser`, `captureScreenshot`, `createTarget` and `evaluate` of the
  CDP utilities, and the HTTP server's shutdown have no callers. Three of these
  are modelled all the same, because what they promise is worth knowing before
  they are put to use: the relay (nothing starts its server), the fill of the
  interactions adapter (`FormFill`, "adapter") and the aria builder (`RoleSnapshots`,
  "aria"), whose only importer is the unused snapshot adapter; and the tokens are
  modelled from their issue on.
* Two profiles. The run lock is per profile and run while the registry is per
  run; the runs use one profile, as `loadConfig` makes it. What two would do is
  said under "Proofs".
