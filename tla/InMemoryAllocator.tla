-------------------------- MODULE InMemoryAllocator --------------------------
(***************************************************************************)
(* The in-memory Browserless allocator                                     *)
(* (adapters/browser/in-memory-browserless-allocator.adapter.ts), used     *)
(* when no ECS cluster is configured: workers are only bookkeeping for the *)
(* capacity of one configured endpoint.  No operation awaits anything, so  *)
(* each is one step; the idle timers and calls about workers that are gone *)
(* are what can go wrong.                                                  *)
(***************************************************************************)
EXTENDS Naturals, FiniteSets

CONSTANTS
  Runs,
  MaxWorkers,           \* bound: workers created in a behaviour
  MaxSessionsPerWorker,
  MaxTotalSessions,
  ImmediateStop,        \* idleGraceMs <= 0
  None

\* Workers are numbered as they are created; number and endpoint are one-to-one.
Workers == 1..MaxWorkers

VARIABLES
  tracked,      \* workersByEndpoint
  assignedRuns, \* worker.assignedRunIds
  unavailable,  \* workers with unavailableSince
  timer,        \* workers with an idleShutdownTimer
  assignment,   \* assignmentsByRunId: the run's worker
  nextTask      \* nextTaskNumber

vars == <<tracked, assignedRuns, unavailable, timer, assignment, nextTask>>

TypeOK ==
  /\ tracked \subseteq Workers /\ unavailable \subseteq Workers /\ timer \subseteq Workers
  /\ assignedRuns \in [Workers -> SUBSET Runs]
  /\ assignment \in [Runs -> Workers \cup {None}]
  /\ nextTask \in 1..(MaxWorkers + 1)

Init ==
  /\ tracked = {} /\ unavailable = {} /\ timer = {}
  /\ assignedRuns = [w \in Workers |-> {}]
  /\ assignment = [r \in Runs |-> None]
  /\ nextTask = 1

Assigned == {r \in Runs : assignment[r] # None}

\* Workers with room for one more run.
Candidates ==
  {w \in tracked \ unavailable : Cardinality(assignedRuns[w]) < MaxSessionsPerWorker}

\* The worker a new run gets: the oldest candidate, else a new one.
Chosen(w) ==
  \/ w \in Candidates /\ \A v \in Candidates : w <= v
  \/ Candidates = {} /\ w = nextTask

\* clearIdleShutdown
TimerCleared(w) == timer \ {w}

\* Mutant: w is dropped whatever is assigned to it.
StopWorkerAlways(w) == tracked \ {w}

\* stopWorkerIfIdle: w is dropped unless a run is assigned to it.
StopWorkerIfIdle(w) == IF assignedRuns[w] = {} THEN tracked \ {w} ELSE tracked

\* A run that has an assignment is answered with it; a full allocator refuses.
AssignRun(r) ==
  /\ assignment[r] = None
  /\ Cardinality(Assigned) < MaxTotalSessions
  /\ \E w \in Workers :
       /\ Chosen(w)
       /\ tracked' = tracked \cup {w}
       /\ nextTask' = IF w = nextTask THEN nextTask + 1 ELSE nextTask
       /\ timer' = TimerCleared(w)
       /\ assignedRuns' = [assignedRuns EXCEPT ![w] = @ \cup {r}]
       /\ assignment' = [assignment EXCEPT ![r] = w]
  /\ UNCHANGED unavailable

\* The last run of w has left: w goes at once, or when its grace has passed.
Retire(w) ==
  IF w \in unavailable \/ ImmediateStop
  THEN tracked' = tracked \ {w} /\ timer' = TimerCleared(w)
  ELSE timer' = timer \cup {w} /\ UNCHANGED tracked

ReleaseRun(r) ==
  /\ assignment[r] # None
  /\ assignment' = [assignment EXCEPT ![r] = None]
  /\ LET w == assignment[r] IN
       IF w \notin tracked THEN UNCHANGED <<tracked, assignedRuns, timer>>
       ELSE /\ assignedRuns' = [assignedRuns EXCEPT ![w] = @ \ {r}]
            /\ IF assignedRuns[w] = {r} THEN Retire(w) ELSE UNCHANGED <<tracked, timer>>
  /\ UNCHANGED <<unavailable, nextTask>>

\* The grace timer fires.
IdleTimerFires(w) ==
  /\ w \in timer
  /\ timer' = TimerCleared(w)
  /\ tracked' = StopWorkerIfIdle(w)
  /\ UNCHANGED <<assignedRuns, unavailable, assignment, nextTask>>

MarkWorkerUnavailable(w) ==
  /\ w \in tracked
  /\ unavailable' = unavailable \cup {w}
  /\ timer' = TimerCleared(w)
  /\ tracked' = StopWorkerIfIdle(w)
  /\ UNCHANGED <<assignedRuns, assignment, nextTask>>

Next ==
  \/ \E r \in Runs : AssignRun(r) \/ ReleaseRun(r)
  \/ \E w \in Workers : IdleTimerFires(w) \/ MarkWorkerUnavailable(w)

Spec == Init /\ [][Next]_vars

-----------------------------------------------------------------------------
\* A timer or a quarantine never drops a worker that an assignment still names:
\* leased workers are tracked, and the counted slots are the leases.
LeasedWorkersTracked ==
  /\ \A r \in Assigned : assignment[r] \in tracked /\ r \in assignedRuns[assignment[r]]
  /\ \A w \in Workers : \A r \in assignedRuns[w] : assignment[r] = w

\* Neither limit is exceeded, whichever workers are dropped and created meanwhile.
CapacityRespected ==
  /\ Cardinality(Assigned) <= MaxTotalSessions
  /\ \A w \in Workers : Cardinality(assignedRuns[w]) <= MaxSessionsPerWorker

\* Workers that will take no run: quarantined or dropped.
Closed == unavailable \cup {w \in Workers : w < nextTask /\ w \notin tracked}
Port == INSTANCE BrowserlessLeases WITH lease <- assignment, closed <- Closed

\* The in-memory allocator implements the lease contract of the port.
LeaseStep == [Port!Next]_<<assignment, Closed>>
===============================================================================
