---------------------------- MODULE EcsAllocator ----------------------------
(***************************************************************************)
(* The ECS allocator of Browserless workers                                *)
(* (src/adapters/browser/ecs-browserless-allocator.adapter.ts).            *)
(*                                                                         *)
(* Runs lease slots on workers (ECS tasks).  assignRun is serialised by a  *)
(* promise chain; everything else runs between its awaits.  A step of this *)
(* module is the code between two awaits.  Each run is a caller: the run   *)
(* lock of the route context lets it have one allocator call in progress.  *)
(***************************************************************************)
EXTENDS Naturals, Sequences, FiniteSets

CONSTANTS
  Runs,                  \* run ids that ask for a worker
  MaxLaunches,           \* bound: ECS tasks started in a behaviour
  MaxIdleStops,          \* bound: timer-started StopTask calls in flight per worker
  MaxSessionsPerWorker,  \* BROWSER_BROWSERLESS_MAX_SESSIONS_PER_WORKER
  MaxTotalSessions,      \* BROWSER_BROWSERLESS_MAX_TOTAL_SESSIONS
  ImmediateStop,         \* idleGraceMs <= 0
  StopMayFail            \* whether a StopTask call can be rejected

ASSUME AllocatorAssumption ==
  /\ IsFiniteSet(Runs)
  /\ MaxLaunches \in Nat /\ MaxIdleStops \in Nat
  /\ MaxSessionsPerWorker \in Nat \ {0} /\ MaxTotalSessions \in Nat \ {0}
  /\ ImmediateStop \in BOOLEAN /\ StopMayFail \in BOOLEAN

\* Task ids in launch order, so that the smallest id is the oldest createdAt.
Workers == 1..MaxLaunches
None == 0

VARIABLES
  allocationQueue,  \* assignRun calls waiting for or holding the lock, FIFO
  pc,               \* what each run's allocator call is waiting for
  callee,           \* the worker that call is about
  assignment,       \* assignmentsByRunId: run -> worker
  leaseEndpoint,    \* assignment.endpoint: the worker whose address it holds
  tracked,          \* keys of workersByTaskId
  assignedRuns,     \* worker.assignedRunIds
  unavailable,      \* workers with unavailableSince set
  running,          \* workers with runningAt set
  addressed,        \* workers whose endpoint holds the task's private address
  idleTimers,       \* workers with idleShutdownTimer armed
  idleStops,        \* timer-started StopTask calls in flight
  ecs               \* status of the task in ECS (external)

calls == <<allocationQueue, pc, callee>>
leases == <<assignment, leaseEndpoint>>
fleet == <<tracked, assignedRuns, unavailable, running, addressed>>
stops == <<idleTimers, idleStops>>
vars == <<calls, leases, fleet, stops, ecs>>

PcStates == {"idle", "queued", "launching", "refreshing", "waiting", "stopping"}

TypeOK ==
  /\ allocationQueue \in Seq(Runs)
  /\ pc \in [Runs -> PcStates]
  /\ callee \in [Runs -> Workers \cup {None}]
  /\ assignment \in [Runs -> Workers \cup {None}]
  /\ leaseEndpoint \in [Runs -> Workers \cup {None}]
  /\ tracked \subseteq Workers
  /\ assignedRuns \in [Workers -> SUBSET Runs]
  /\ unavailable \subseteq Workers
  /\ running \subseteq Workers
  /\ addressed \subseteq Workers
  /\ idleTimers \subseteq Workers
  /\ idleStops \in [Workers -> Nat]
  /\ ecs \in [Workers -> {"absent", "pending", "running", "stopped"}]

Init ==
  /\ allocationQueue = <<>>
  /\ pc = [r \in Runs |-> "idle"]
  /\ callee = [r \in Runs |-> None]
  /\ assignment = [r \in Runs |-> None]
  /\ leaseEndpoint = [r \in Runs |-> None]
  /\ tracked = {} /\ unavailable = {} /\ running = {} /\ addressed = {}
  /\ assignedRuns = [w \in Workers |-> {}]
  /\ idleTimers = {}
  /\ idleStops = [w \in Workers |-> 0]
  /\ ecs = [w \in Workers |-> "absent"]

-----------------------------------------------------------------------------
(* Helpers *)

Assigned == {r \in Runs : assignment[r] # None}

\* Mutants of Candidates: the limit test is off by one; quarantine is forgotten.
CandidatesOffByOne ==
  {w \in tracked \ unavailable : Cardinality(assignedRuns[w]) <= MaxSessionsPerWorker}
CandidatesInQuarantine ==
  {w \in tracked : Cardinality(assignedRuns[w]) < MaxSessionsPerWorker}

\* Workers that assignRun may reuse.
Candidates ==
  {w \in tracked \ unavailable : Cardinality(assignedRuns[w]) < MaxSessionsPerWorker}

Oldest(w, S) == w \in S /\ \A v \in S : w <= v

\* The id ECS gives to the next task.
NextTask(w) == ecs[w] = "absent" /\ \A v \in Workers : v < w => ecs[v] # "absent"

\* The call of run r goes to state s, about worker w.
Goto(r, s, w) ==
  /\ pc' = [pc EXCEPT ![r] = s]
  /\ callee' = [callee EXCEPT ![r] = w]

\* The address a fresh assignment of worker w copies from the worker.
Endpoint(w) == IF w \in addressed THEN w ELSE None

\* Mutant: the worker's run set does not learn of the run.
LeaseWithoutSlot(r, w) ==
  /\ assignment' = [assignment EXCEPT ![r] = w]
  /\ leaseEndpoint' = [leaseEndpoint EXCEPT ![r] = Endpoint(w)]
  /\ UNCHANGED assignedRuns

Lease(r, w) ==
  /\ assignment' = [assignment EXCEPT ![r] = w]
  /\ leaseEndpoint' = [leaseEndpoint EXCEPT ![r] = Endpoint(w)]
  /\ assignedRuns' = [assignedRuns EXCEPT ![w] = @ \cup {r}]

-----------------------------------------------------------------------------
(* assignRun *)

AssignRun(r) ==
  /\ pc[r] = "idle"
  /\ Goto(r, "queued", None)
  /\ allocationQueue' = Append(allocationQueue, r)
  /\ UNCHANGED <<leases, fleet, stops, ecs>>

\* Run r holds the allocation lock and has not looked at the fleet yet.
MyTurn(r) ==
  /\ pc[r] = "queued"
  /\ allocationQueue # <<>> /\ Head(allocationQueue) = r

Unlock == allocationQueue' = Tail(allocationQueue)

\* The run has a lease already, or the total capacity is used up: no change.
AnswerAtOnce(r) ==
  /\ MyTurn(r)
  /\ assignment[r] # None \/ Cardinality(Assigned) >= MaxTotalSessions
  /\ Unlock
  /\ Goto(r, "idle", None)
  /\ idleTimers' = idleTimers \ {assignment[r]}
  /\ UNCHANGED <<leases, fleet, idleStops, ecs>>

MayAdmit(r) ==
  /\ MyTurn(r)
  /\ assignment[r] = None /\ Cardinality(Assigned) < MaxTotalSessions

\* Mutant: the idle timer of the reused worker stays armed.
ReuseWorkerKeepsTimer(r) ==
  /\ MayAdmit(r)
  /\ \E w \in Candidates : Oldest(w, Candidates) /\ Lease(r, w)
  /\ Unlock
  /\ Goto(r, "idle", None)
  /\ UNCHANGED <<tracked, unavailable, running, addressed, stops, ecs>>

ReuseWorker(r) ==
  /\ MayAdmit(r)
  /\ \E w \in Candidates :
       /\ Oldest(w, Candidates)
       /\ Lease(r, w)
       /\ idleTimers' = idleTimers \ {w}
  /\ Unlock
  /\ Goto(r, "idle", None)
  /\ UNCHANGED <<tracked, unavailable, running, addressed, idleStops, ecs>>

\* No worker has room: RunTask is called with the lock held.
LaunchWorker(r) ==
  /\ MayAdmit(r)
  /\ Candidates = {}
  /\ Goto(r, "launching", None)
  /\ UNCHANGED <<allocationQueue, leases, fleet, stops, ecs>>

RunTaskReturns(r) ==
  /\ pc[r] = "launching"
  /\ \E w \in Workers :
       /\ NextTask(w)
       /\ ecs' = [ecs EXCEPT ![w] = "pending"]
       /\ tracked' = tracked \cup {w}
       /\ Lease(r, w)
       /\ Goto(r, "refreshing", w)
  /\ Unlock
  /\ UNCHANGED <<unavailable, running, addressed, stops>>

\* Mutant: a failed launch does not pass the lock on.
RunTaskFailsHoldingLock(r) ==
  /\ pc[r] = "launching"
  /\ Goto(r, "idle", None)
  /\ UNCHANGED <<allocationQueue, leases, fleet, stops, ecs>>

RunTaskFails(r) ==
  /\ pc[r] = "launching"
  /\ Unlock
  /\ Goto(r, "idle", None)
  /\ UNCHANGED <<leases, fleet, stops, ecs>>

\* getAssignment copies the worker's endpoint into the assignment it returns.
GetAssignment(r) ==
  /\ pc[r] = "idle"
  /\ assignment[r] \in tracked
  /\ leaseEndpoint' = [leaseEndpoint EXCEPT ![r] = Endpoint(assignment[r])]
  /\ UNCHANGED <<calls, assignment, fleet, stops, ecs>>

-----------------------------------------------------------------------------
(* refreshWorkerFromEcs: the answers of DescribeTasks *)

\* The task has stopped: the worker becomes unavailable and the refresh throws.
SeesStopped(w) ==
  /\ ecs[w] = "stopped"
  /\ unavailable' = unavailable \cup {w}
  /\ UNCHANGED <<leases, tracked, assignedRuns, running, addressed>>

\* The call failed, or ECS no longer knows the task.
SeesNothing == UNCHANGED <<leases, fleet>>

\* A live task: its private address reaches the worker and, when new, the
\* assignments of every run in the worker's set.
SeesTask(w) ==
  /\ ecs[w] \in {"pending", "running"}
  /\ \E hasAddress \in BOOLEAN :
       /\ addressed' = IF hasAddress THEN addressed \cup {w} ELSE addressed
       /\ leaseEndpoint' =
            [r \in Runs |->
               IF hasAddress /\ w \notin addressed /\ r \in assignedRuns[w] /\ assignment[r] # None
               THEN w ELSE leaseEndpoint[r]]
  /\ running' = IF ecs[w] = "running" THEN running \cup {w} ELSE running
  /\ UNCHANGED <<assignment, tracked, assignedRuns, unavailable>>

\* assignRun after the lock: a failed refresh is ignored.
RefreshReturns(r) ==
  /\ pc[r] = "refreshing"
  /\ LET w == callee[r] IN SeesStopped(w) \/ SeesNothing \/ SeesTask(w)
  /\ Goto(r, "idle", None)
  /\ UNCHANGED <<allocationQueue, stops, ecs>>

-----------------------------------------------------------------------------
(* waitForWorkerRunning *)

\* An untracked or unavailable worker makes the call throw with no effect.
WaitForWorkerRunning(r) ==
  /\ pc[r] = "idle"
  /\ assignment[r] \in tracked \ unavailable
  /\ Goto(r, "waiting", assignment[r])
  /\ UNCHANGED <<allocationQueue, leases, fleet, stops, ecs>>

\* One poll failed: the worker is quarantined and the call throws.
PollFails(r) ==
  /\ pc[r] = "waiting"
  /\ unavailable' = unavailable \cup {callee[r]}
  /\ Goto(r, "idle", None)
  /\ UNCHANGED <<allocationQueue, leases, tracked, assignedRuns, running, addressed, stops, ecs>>

\* One poll succeeded: return when the task runs or time is up, else poll again.
PollAnswers(r) ==
  /\ pc[r] = "waiting"
  /\ SeesTask(callee[r])
  /\ \/ Goto(r, "idle", None)
     \/ callee[r] \notin running' /\ UNCHANGED <<pc, callee>>
  /\ UNCHANGED <<allocationQueue, stops, ecs>>

-----------------------------------------------------------------------------
(* releaseRun, markWorkerUnavailable and the idle timer *)

\* The run gives its slot back.  The last one out of an unavailable worker
\* awaits StopTask; out of an available one it starts the idle grace.
ReleaseRun(r) ==
  LET w == assignment[r]
      empty == w \in tracked /\ assignedRuns[w] \subseteq {r}
  IN
  /\ pc[r] = "idle" /\ w # None
  /\ assignment' = [assignment EXCEPT ![r] = None]
  /\ leaseEndpoint' = [leaseEndpoint EXCEPT ![r] = None]
  /\ assignedRuns' = IF w \in tracked THEN [assignedRuns EXCEPT ![w] = @ \ {r}] ELSE assignedRuns
  /\ \/ ~empty /\ UNCHANGED <<pc, callee, stops>>
     \/ empty /\ w \in unavailable /\ Goto(r, "stopping", w) /\ UNCHANGED stops
     \/ /\ empty /\ w \notin unavailable
        /\ IF ImmediateStop
           THEN /\ idleStops[w] < MaxIdleStops
                /\ idleStops' = [idleStops EXCEPT ![w] = @ + 1]
                /\ UNCHANGED idleTimers
           ELSE idleTimers' = idleTimers \cup {w} /\ UNCHANGED idleStops
        /\ UNCHANGED <<pc, callee>>
  /\ UNCHANGED <<allocationQueue, tracked, unavailable, running, addressed, ecs>>

\* Mutant: the timer fires without stopping the worker.
IdleTimerLost(w) ==
  /\ w \in idleTimers
  /\ idleTimers' = idleTimers \ {w}
  /\ UNCHANGED <<idleStops, calls, leases, fleet, ecs>>

IdleTimerFires(w) ==
  /\ w \in idleTimers
  /\ idleTimers' = idleTimers \ {w}
  /\ \/ assignedRuns[w] # {} /\ UNCHANGED idleStops
     \/ /\ assignedRuns[w] = {}
        /\ idleStops[w] < MaxIdleStops
        /\ idleStops' = [idleStops EXCEPT ![w] = @ + 1]
  /\ UNCHANGED <<calls, leases, fleet, ecs>>

\* A caller quarantines a worker; the session record it takes the task id from
\* can outlive the lease, so any tracked worker can be named.
MarkWorkerUnavailable(r) ==
  /\ pc[r] = "idle"
  /\ \E w \in tracked :
       /\ idleTimers' = idleTimers \ {w}
       /\ unavailable' = unavailable \cup {w}
       /\ IF assignedRuns[w] = {} THEN Goto(r, "stopping", w) ELSE UNCHANGED <<pc, callee>>
  /\ UNCHANGED <<allocationQueue, leases, tracked, assignedRuns, running, addressed, idleStops, ecs>>

\* stopWorker after an accepted StopTask: whatever the worker holds by now.
Untrack(w) ==
  /\ tracked' = tracked \ {w}
  /\ idleTimers' = idleTimers \ {w}
  /\ UNCHANGED <<leases, assignedRuns, unavailable, running, addressed, ecs>>

KeepTracked == StopMayFail /\ UNCHANGED <<leases, fleet, idleTimers, ecs>>

\* Mutant: an answer is counted although no call is in flight.
IdleStopReturnsUncalled(w) ==
  /\ w \in tracked
  /\ idleStops' = [idleStops EXCEPT ![w] = @ - 1]
  /\ Untrack(w) \/ KeepTracked
  /\ UNCHANGED calls

\* StopTask answers a timer's call; a rejection is swallowed.
IdleStopReturns(w) ==
  /\ idleStops[w] > 0
  /\ idleStops' = [idleStops EXCEPT ![w] = @ - 1]
  /\ Untrack(w) \/ KeepTracked
  /\ UNCHANGED calls

\* StopTask answers the call that releaseRun or markWorkerUnavailable awaits.
AwaitedStopReturns(r) ==
  /\ pc[r] = "stopping"
  /\ Untrack(callee[r]) \/ KeepTracked
  /\ Goto(r, "idle", None)
  /\ UNCHANGED <<allocationQueue, idleStops>>

-----------------------------------------------------------------------------
(* ECS moves tasks forward, and a task can stop at any time.  An accepted   *)
(* StopTask takes effect later, as such a step.                             *)

EcsMoves(w) ==
  /\ \/ ecs[w] = "pending" /\ ecs' = [ecs EXCEPT ![w] = "running"]
     \/ ecs[w] \in {"pending", "running"} /\ ecs' = [ecs EXCEPT ![w] = "stopped"]
  /\ UNCHANGED <<calls, leases, fleet, stops>>

RunStep(r) ==
  \/ AssignRun(r) \/ AnswerAtOnce(r) \/ ReuseWorker(r) \/ LaunchWorker(r)
  \/ RunTaskReturns(r) \/ RunTaskFails(r) \/ RefreshReturns(r)
  \/ GetAssignment(r) \/ WaitForWorkerRunning(r) \/ PollFails(r) \/ PollAnswers(r)
  \/ ReleaseRun(r) \/ MarkWorkerUnavailable(r) \/ AwaitedStopReturns(r)

WorkerStep(w) == IdleTimerFires(w) \/ IdleStopReturns(w) \/ EcsMoves(w)

Next == (\E r \in Runs : RunStep(r)) \/ (\E w \in Workers : WorkerStep(w))

Spec == Init /\ [][Next]_vars

\* What the event loop guarantees: a queued call gets its turn, AWS answers
\* every call, timers fire.  Nothing obliges a run to release its lease.
Fairness ==
  /\ \A r \in Runs :
       /\ WF_vars(AnswerAtOnce(r) \/ ReuseWorker(r) \/ LaunchWorker(r))
       /\ WF_vars(RunTaskReturns(r) \/ RunTaskFails(r))
       /\ WF_vars(RefreshReturns(r))
       /\ WF_vars(AwaitedStopReturns(r))
  /\ \A w \in Workers : WF_vars(IdleTimerFires(w)) /\ WF_vars(IdleStopReturns(w))

FairSpec == Spec /\ Fairness

-----------------------------------------------------------------------------
(* Properties *)

\* The two maps agree: a run leased to a tracked worker is in that worker's set,
\* and the set holds no other run (the slots assignRun counts are the real ones).
LeasesConsistent ==
  \A r \in Runs, w \in Workers :
    /\ assignment[r] = w => r \in assignedRuns[w]
    /\ w \in tracked /\ r \in assignedRuns[w] => assignment[r] = w

\* However assignments, launches, releases and stops interleave, neither the
\* total nor the per-worker limit is exceeded, although runTask is awaited
\* between the capacity test and the registration of the lease.
CapacityRespected ==
  /\ Cardinality(Assigned) <= MaxTotalSessions
  /\ \A w \in Workers : Cardinality(assignedRuns[w]) <= MaxSessionsPerWorker

\* An armed idle timer always belongs to a tracked worker without runs: reuse,
\* quarantine and removal each cancel it, so a timer never outlives its reason.
TimersOnIdleWorkers ==
  \A w \in idleTimers : w \in tracked /\ assignedRuns[w] = {}

\* While AWS accepts every StopTask no empty worker is left behind: its timer is
\* armed, or a stop that a timer, releaseRun or markWorkerUnavailable began is in
\* flight, whatever was leased and released on it meanwhile.
Watched(w) ==
  w \in idleTimers \/ idleStops[w] > 0 \/ \E r \in Runs : pc[r] = "stopping" /\ callee[r] = w
EmptyWorkersWatched ==
  ~StopMayFail => \A w \in tracked : assignedRuns[w] = {} => Watched(w)

\* No call waits for a lock that nobody passes on: the calls that wait for it or
\* hold it are those in the queue, each once, and only the first is past its turn.
LockPassedOn ==
  /\ \A r \in Runs :
       pc[r] \in {"queued", "launching"} <=> \E i \in 1..Len(allocationQueue) : allocationQueue[i] = r
  /\ \A i, j \in 1..Len(allocationQueue) : allocationQueue[i] = allocationQueue[j] => i = j
  /\ \A r \in Runs : pc[r] = "launching" => Head(allocationQueue) = r

\* A lease never carries the address of a worker other than its own.
EndpointsPinned == \A r \in Runs : leaseEndpoint[r] \in {None, assignment[r]}

\* A quarantined worker receives no new run and is never put back into service
\* ("Readiness failures quarantine the worker so it cannot receive new runs").  So
\* a stop that a call awaits, of an empty worker in quarantine, takes it from no
\* run: only the answer to a stop that an idle timer started can.
QuarantineHolds ==
  /\ [][\A w \in unavailable : w \in unavailable' /\ assignedRuns'[w] \subseteq assignedRuns[w]]_vars
  /\ [][\A w \in tracked \ tracked' : assignedRuns[w] = {} \/ idleStops'[w] < idleStops[w]]_vars

\* StopTask is accepted only for workers that no run is leased to at that moment.
OnlyEmptyWorkersStop ==
  [][\A w \in tracked \ tracked' : assignedRuns[w] = {}]_vars

\* Workers that take no new run: quarantined, or launched and removed since.
Closed == unavailable \cup {w \in Workers : ecs[w] # "absent" /\ w \notin tracked}

Port == INSTANCE BrowserlessLeases WITH lease <- assignment, closed <- Closed

\* The ECS allocator implements the port's lease contract: every step grants,
\* revokes, closes a worker, or leaves leases and closed workers as they are.
LeaseContract == Port!Spec

\* Every assignRun call is answered, although calls queue behind slow launches.
AssignsAnswered == \A r \in Runs : pc[r] = "queued" ~> pc[r] = "idle"

\* A worker left without runs is stopped or used again.
EmptyWorkersRetire ==
  \A w \in Workers :
    (w \in tracked /\ assignedRuns[w] = {}) ~> (w \notin tracked \/ assignedRuns[w] # {})
=============================================================================
