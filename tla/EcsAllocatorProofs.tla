------------------------- MODULE EcsAllocatorProofs -------------------------
(***************************************************************************)
(* Proofs about EcsAllocator, for every set of runs, every limit and every *)
(* bound.  IInv is the inductive invariant; CapacityRespected alone is not *)
(* inductive, because runTask is awaited between the capacity test and the *)
(* lease: the test stays valid only as the launching run holds the lock.   *)
(***************************************************************************)
EXTENDS EcsAllocator, FiniteSetTheorems, SequenceTheorems, TLAPS

\* A call that works on a worker names a task that ECS has started.
CalleesLaunched ==
  \A r \in Runs : pc[r] \in {"refreshing", "waiting", "stopping"} =>
    callee[r] \in Workers /\ ecs[callee[r]] # "absent"

\* Nothing is recorded about a task that does not exist yet.
AbsentTasksUntouched ==
  \A w \in Workers : ecs[w] = "absent" =>
    w \notin tracked /\ w \notin unavailable /\ assignedRuns[w] = {}

\* A launching run holds the lock, has no lease, and the room it saw is there.
LaunchHasRoom ==
  \A r \in Runs : pc[r] = "launching" =>
    /\ allocationQueue # <<>> /\ Head(allocationQueue) = r
    /\ assignment[r] = None
    /\ Cardinality(Assigned) < MaxTotalSessions

IInv ==
  /\ TypeOK /\ CalleesLaunched /\ AbsentTasksUntouched
  /\ LeasesConsistent /\ LaunchHasRoom /\ CapacityRespected

-----------------------------------------------------------------------------
\* None is not a worker, so a leased run has a real one.
LEMMA NoneIsNoWorker == None \notin Workers
BY DEF None, Workers

\* The sets whose sizes are bounded are finite.
LEMMA Finite ==
  ASSUME TypeOK
  PROVE  /\ IsFiniteSet(Assigned) /\ Cardinality(Assigned) \in Nat
         /\ \A w \in Workers : IsFiniteSet(assignedRuns[w]) /\ Cardinality(assignedRuns[w]) \in Nat
<1>1. \A S \in SUBSET Runs : IsFiniteSet(S) /\ Cardinality(S) \in Nat
  BY AllocatorAssumption, FS_Subset, FS_CardinalityType
<1> QED BY <1>1 DEF TypeOK, Assigned

\* The inductive invariant holds of the empty allocator.
THEOREM InitInductive == Init => IInv
<1> SUFFICES ASSUME Init PROVE IInv
  OBVIOUS
<1>1. TypeOK /\ CalleesLaunched /\ AbsentTasksUntouched /\ LeasesConsistent /\ LaunchHasRoom
  BY NoneIsNoWorker DEF Init, TypeOK, CalleesLaunched, AbsentTasksUntouched, LeasesConsistent,
     LaunchHasRoom, PcStates
<1>2. CapacityRespected
  <2>1. Assigned = {}
    BY DEF Init, Assigned
  <2> QED BY <2>1, FS_EmptySet, AllocatorAssumption DEF Init, CapacityRespected
<1> QED BY <1>1, <1>2 DEF IInv

-----------------------------------------------------------------------------
(* What a step can do to the leases: grant one, give one back, or nothing. *)

Granting(r, w) ==
  /\ assignment[r] = None
  /\ Cardinality(Assigned) < MaxTotalSessions
  /\ Lease(r, w)
  /\ unavailable' = unavailable
  /\ \/ w \in Candidates /\ tracked' = tracked /\ ecs' = ecs
     \/ /\ ecs[w] = "absent" /\ tracked' = tracked \cup {w}
        /\ ecs' = [ecs EXCEPT ![w] = "pending"]

LeasesKept ==
  /\ UNCHANGED <<assignment, assignedRuns>>
  /\ tracked' \subseteq tracked /\ unavailable \subseteq unavailable'

\* Every step grants one lease, releases one, or leaves the leases alone.
LEMMA LeaseEffects ==
  ASSUME IInv, Next
  PROVE  \/ \E r \in Runs, w \in Workers : Granting(r, w)
         \/ \E r \in Runs : ReleaseRun(r)
         \/ LeasesKept
<1>1. CASE \E r \in Runs : RunStep(r)
  <2>1. PICK r \in Runs : RunStep(r)
    BY <1>1
  <2>2. CASE ReuseWorker(r)
    BY <2>2 DEF ReuseWorker, MayAdmit, Granting, IInv, TypeOK, Candidates, Oldest
  <2>3. CASE RunTaskReturns(r)
    BY <2>3 DEF RunTaskReturns, Granting, NextTask, IInv, LaunchHasRoom
  <2>4. CASE ReleaseRun(r)
    BY <2>4
  <2>5. CASE AssignRun(r) \/ AnswerAtOnce(r) \/ LaunchWorker(r) \/ RunTaskFails(r)
             \/ GetAssignment(r) \/ WaitForWorkerRunning(r) \/ PollFails(r)
             \/ MarkWorkerUnavailable(r)
    BY <2>5 DEF AssignRun, AnswerAtOnce, LaunchWorker, RunTaskFails, GetAssignment,
       WaitForWorkerRunning, PollFails, MarkWorkerUnavailable, LeasesKept, leases, fleet
  <2>6. CASE RefreshReturns(r) \/ PollAnswers(r)
    BY <2>6 DEF RefreshReturns, PollAnswers, SeesStopped, SeesNothing, SeesTask, LeasesKept,
       leases, fleet
  <2>7. CASE AwaitedStopReturns(r)
    BY <2>7 DEF AwaitedStopReturns, Untrack, KeepTracked, LeasesKept, leases, fleet
  <2> QED BY <2>1, <2>2, <2>3, <2>4, <2>5, <2>6, <2>7 DEF RunStep
<1>2. CASE \E w \in Workers : WorkerStep(w)
  BY <1>2 DEF WorkerStep, IdleTimerFires, IdleStopReturns, EcsMoves, Untrack, KeepTracked,
     LeasesKept, leases, fleet
<1> QED BY <1>1, <1>2 DEF Next

-----------------------------------------------------------------------------
(* The parts of IInv, one lemma each. *)

\* A live answer of DescribeTasks leaves well-typed endpoints behind.
LEMMA SeesTaskTypes ==
  ASSUME TypeOK, NEW w \in Workers, SeesTask(w)
  PROVE  /\ addressed' \subseteq Workers /\ running' \subseteq Workers
         /\ leaseEndpoint' \in [Runs -> Workers \cup {None}]
         /\ UNCHANGED <<assignment, tracked, assignedRuns, unavailable>>
BY DEF TypeOK, SeesTask

\* Every handler keeps the maps typed.
LEMMA TypeStep ==
  ASSUME IInv, Next
  PROVE  TypeOK'
<1> USE DEF TypeOK, PcStates, Goto, calls, leases, fleet, stops
<1>0. TypeOK /\ CalleesLaunched /\ LaunchHasRoom
  BY DEF IInv
<1>1. CASE \E r \in Runs : RunStep(r)
  <2>1. PICK r \in Runs : RunStep(r)
    BY <1>1
  <2>2. CASE AssignRun(r)
    BY <1>0, <2>2 DEF AssignRun
  <2>3. CASE AnswerAtOnce(r)
    BY <1>0, <2>3 DEF AnswerAtOnce, MyTurn, Unlock
  <2>4. CASE LaunchWorker(r) \/ WaitForWorkerRunning(r)
    BY <1>0, <2>4 DEF LaunchWorker, WaitForWorkerRunning
  <2>5. CASE ReuseWorker(r)
    BY <1>0, <2>5 DEF ReuseWorker, MayAdmit, MyTurn, Unlock, Lease, Endpoint, Candidates
  <2>6. CASE RunTaskReturns(r)
    BY <1>0, <2>6 DEF RunTaskReturns, Unlock, Lease, Endpoint, LaunchHasRoom
  <2>7. CASE RunTaskFails(r)
    BY <1>0, <2>7 DEF RunTaskFails, Unlock, LaunchHasRoom
  <2>8. CASE GetAssignment(r)
    BY <1>0, <2>8 DEF GetAssignment, Endpoint
  <2>9. CASE RefreshReturns(r)
    <3>1. callee[r] \in Workers
      BY <1>0, <2>9 DEF RefreshReturns, CalleesLaunched
    <3>2. CASE SeesTask(callee[r])
      BY <1>0, <2>9, <3>1, <3>2, SeesTaskTypes DEF RefreshReturns
    <3>3. CASE SeesStopped(callee[r]) \/ SeesNothing
      BY <1>0, <2>9, <3>1, <3>3 DEF RefreshReturns, SeesStopped, SeesNothing
    <3> QED BY <2>9, <3>2, <3>3 DEF RefreshReturns
  <2>10. CASE PollFails(r)
    BY <1>0, <2>10 DEF PollFails, CalleesLaunched
  <2>11. CASE PollAnswers(r)
    <3>1. callee[r] \in Workers /\ SeesTask(callee[r])
      BY <1>0, <2>11 DEF PollAnswers, CalleesLaunched
    <3> QED BY <1>0, <2>11, <3>1, SeesTaskTypes DEF PollAnswers
  <2>12. CASE ReleaseRun(r)
    <3>1. assignment[r] \in Workers
      BY <1>0, <2>12 DEF ReleaseRun
    <3>2. /\ assignment' \in [Runs -> Workers \cup {None}]
          /\ leaseEndpoint' \in [Runs -> Workers \cup {None}]
          /\ assignedRuns' \in [Workers -> SUBSET Runs]
      BY <1>0, <2>12, <3>1 DEF ReleaseRun
    <3>3. idleTimers' \subseteq Workers
      BY <1>0, <2>12, <3>1 DEF ReleaseRun
    <3>4. idleStops' \in [Workers -> Nat]
      <4>1. idleStops' = idleStops \/ idleStops' = [idleStops EXCEPT ![assignment[r]] = @ + 1]
        BY <2>12 DEF ReleaseRun
      <4> QED BY <1>0, <3>1, <4>1
    <3>5. pc' \in [Runs -> PcStates] /\ callee' \in [Runs -> Workers \cup {None}]
      BY <1>0, <2>12, <3>1 DEF ReleaseRun
    <3> QED BY <1>0, <2>12, <3>2, <3>3, <3>4, <3>5 DEF ReleaseRun
  <2>13. CASE MarkWorkerUnavailable(r)
    BY <1>0, <2>13 DEF MarkWorkerUnavailable
  <2>14. CASE AwaitedStopReturns(r)
    BY <1>0, <2>14 DEF AwaitedStopReturns, Untrack, KeepTracked
  <2> QED BY <2>1, <2>2, <2>3, <2>4, <2>5, <2>6, <2>7, <2>8, <2>9, <2>10, <2>11, <2>12, <2>13,
             <2>14 DEF RunStep
<1>2. CASE \E w \in Workers : WorkerStep(w)
  <2>1. PICK w \in Workers : WorkerStep(w)
    BY <1>2
  <2>2. CASE IdleTimerFires(w)
    <3>1. idleStops' = idleStops \/ idleStops' = [idleStops EXCEPT ![w] = @ + 1]
      BY <2>2 DEF IdleTimerFires
    <3> QED BY <1>0, <2>2, <3>1 DEF IdleTimerFires
  <2>3. CASE IdleStopReturns(w)
    BY <1>0, <2>3 DEF IdleStopReturns, Untrack, KeepTracked
  <2>4. CASE EcsMoves(w)
    BY <1>0, <2>4 DEF EcsMoves
  <2> QED BY <2>1, <2>2, <2>3, <2>4 DEF WorkerStep
<1> QED BY <1>1, <1>2 DEF Next

\* Every call in flight stays about a launched task.
LEMMA CalleesStep ==
  ASSUME IInv, Next
  PROVE  CalleesLaunched'
<1> USE DEF IInv, TypeOK, CalleesLaunched, PcStates, Goto, calls, leases, fleet, stops
<1>1. CASE \E r \in Runs : RunStep(r)
  <2>1. PICK r \in Runs : RunStep(r)
    BY <1>1
  <2>2. CASE ecs' = ecs /\ (UNCHANGED <<pc, callee>> \/ \E w : Goto(r, "idle", w)
                            \/ Goto(r, "queued", None) \/ Goto(r, "launching", None))
    BY <2>2
  <2>3. CASE ecs' = ecs /\ \E w \in tracked, s \in PcStates : Goto(r, s, w)
    BY <2>3 DEF AbsentTasksUntouched
  <2>4. CASE RunTaskReturns(r)
    BY <2>4 DEF RunTaskReturns
  <2>5. CASE AssignRun(r) \/ AnswerAtOnce(r) \/ ReuseWorker(r) \/ LaunchWorker(r)
             \/ RunTaskFails(r) \/ RefreshReturns(r) \/ GetAssignment(r)
    BY <2>2, <2>5 DEF AssignRun, AnswerAtOnce, ReuseWorker, LaunchWorker, RunTaskFails,
       RefreshReturns, GetAssignment
  <2>6. CASE PollFails(r) \/ PollAnswers(r) \/ AwaitedStopReturns(r)
    BY <2>2, <2>6 DEF PollFails, PollAnswers, AwaitedStopReturns, Untrack, KeepTracked
  <2>7. CASE WaitForWorkerRunning(r) \/ MarkWorkerUnavailable(r) \/ ReleaseRun(r)
    BY <2>2, <2>3, <2>7 DEF WaitForWorkerRunning, MarkWorkerUnavailable, ReleaseRun
  <2> QED BY <2>1, <2>4, <2>5, <2>6, <2>7 DEF RunStep
<1>2. CASE \E w \in Workers : WorkerStep(w)
  BY <1>2 DEF WorkerStep, IdleTimerFires, IdleStopReturns, EcsMoves, Untrack, KeepTracked
<1> QED BY <1>1, <1>2 DEF Next

\* No handler touches a task that was not launched.
LEMMA AbsentStep ==
  ASSUME IInv, Next
  PROVE  AbsentTasksUntouched'
<1> USE DEF IInv, TypeOK, AbsentTasksUntouched, PcStates, calls, leases, fleet, stops
<1>1. CASE \E r \in Runs : RunStep(r)
  <2>1. PICK r \in Runs : RunStep(r)
    BY <1>1
  <2>2. CASE AssignRun(r) \/ AnswerAtOnce(r) \/ LaunchWorker(r) \/ RunTaskFails(r)
             \/ GetAssignment(r) \/ WaitForWorkerRunning(r)
    BY <2>2 DEF AssignRun, AnswerAtOnce, LaunchWorker, RunTaskFails, GetAssignment,
       WaitForWorkerRunning
  <2>3. CASE ReuseWorker(r)
    BY <2>3 DEF ReuseWorker, Lease, Candidates
  <2>4. CASE RunTaskReturns(r)
    <3>1. PICK w \in Workers : /\ ecs' = [ecs EXCEPT ![w] = "pending"]
                              /\ tracked' = tracked \cup {w}
                              /\ Lease(r, w)
      BY <2>4 DEF RunTaskReturns
    <3> QED BY <2>4, <3>1 DEF RunTaskReturns, Lease
  <2>5. CASE RefreshReturns(r) \/ PollFails(r) \/ PollAnswers(r)
    BY <2>5 DEF RefreshReturns, PollFails, PollAnswers, SeesStopped, SeesNothing, SeesTask,
       CalleesLaunched
  <2>6. CASE ReleaseRun(r)
    BY <2>6 DEF ReleaseRun
  <2>7. CASE MarkWorkerUnavailable(r) \/ AwaitedStopReturns(r)
    BY <2>7 DEF MarkWorkerUnavailable, AwaitedStopReturns, Untrack, KeepTracked
  <2> QED BY <2>1, <2>2, <2>3, <2>4, <2>5, <2>6, <2>7 DEF RunStep
<1>2. CASE \E w \in Workers : WorkerStep(w)
  BY <1>2 DEF WorkerStep, IdleTimerFires, IdleStopReturns, EcsMoves, Untrack, KeepTracked
<1> QED BY <1>1, <1>2 DEF Next

\* assignedRuns and assignment change together.
LEMMA ConsistentStep ==
  ASSUME IInv, Next
  PROVE  LeasesConsistent'
<1> USE DEF IInv, TypeOK, LeasesConsistent
<1>1. ASSUME NEW r \in Runs, NEW w \in Workers, Granting(r, w)
      PROVE  LeasesConsistent'
  BY <1>1, NoneIsNoWorker DEF Granting, Lease, Candidates, AbsentTasksUntouched
<1>2. ASSUME NEW r \in Runs, ReleaseRun(r)
      PROVE  LeasesConsistent'
  BY <1>2, NoneIsNoWorker DEF ReleaseRun
<1>3. CASE LeasesKept
  BY <1>3 DEF LeasesKept
<1> QED BY <1>1, <1>2, <1>3, LeaseEffects

\* Granting adds exactly one leased run and one occupied slot.
LEMMA GrantCounts ==
  ASSUME IInv, NEW r \in Runs, NEW w \in Workers, Granting(r, w)
  PROVE  /\ Assigned' = Assigned \cup {r}
         /\ Cardinality(Assigned') = Cardinality(Assigned) + 1
         /\ Cardinality(assignedRuns[w]) < MaxSessionsPerWorker
         /\ Cardinality(assignedRuns'[w]) <= Cardinality(assignedRuns[w]) + 1
         /\ \A v \in Workers : v # w => assignedRuns'[v] = assignedRuns[v]
<1>0. TypeOK /\ AbsentTasksUntouched
  BY DEF IInv
<1>1. Assigned' = Assigned \cup {r} /\ r \notin Assigned
  BY <1>0, NoneIsNoWorker DEF Granting, Lease, Assigned, TypeOK
<1>2. Cardinality(Assigned') = Cardinality(Assigned) + 1
  BY <1>0, <1>1, Finite, FS_AddElement
<1>3. Cardinality(assignedRuns[w]) < MaxSessionsPerWorker
  <2>1. CASE w \in Candidates
    BY <2>1 DEF Candidates
  <2>2. CASE ecs[w] = "absent"
    <3>1. assignedRuns[w] = {}
      BY <1>0, <2>2 DEF AbsentTasksUntouched
    <3> QED BY <3>1, FS_EmptySet, AllocatorAssumption
  <2> QED BY <2>1, <2>2 DEF Granting
<1>4. assignedRuns'[w] = assignedRuns[w] \cup {r}
      /\ \A v \in Workers : v # w => assignedRuns'[v] = assignedRuns[v]
  BY <1>0 DEF Granting, Lease, TypeOK
<1>5. Cardinality(assignedRuns'[w]) <= Cardinality(assignedRuns[w]) + 1
  <2>1. IsFiniteSet(assignedRuns[w]) /\ Cardinality(assignedRuns[w]) \in Nat
    BY <1>0, Finite
  <2>2. \/ Cardinality(assignedRuns[w] \cup {r}) = Cardinality(assignedRuns[w])
        \/ Cardinality(assignedRuns[w] \cup {r}) = Cardinality(assignedRuns[w]) + 1
    BY <2>1, FS_AddElement
  <2> QED BY <1>4, <2>1, <2>2
<1> QED BY <1>1, <1>2, <1>3, <1>4, <1>5

\* Releasing removes the run from the leased runs, and no worker gains one.
LEMMA ReleaseCounts ==
  ASSUME IInv, NEW r \in Runs, ReleaseRun(r)
  PROVE  /\ Assigned' \subseteq Assigned
         /\ \A v \in Workers : assignedRuns'[v] \subseteq assignedRuns[v]
         /\ UNCHANGED <<unavailable, tracked, ecs>>
BY DEF IInv, TypeOK, ReleaseRun, Assigned

\* No step exceeds the limits: only a grant could, and it had room.
LEMMA CapacityStep ==
  ASSUME IInv, Next
  PROVE  CapacityRespected'
<1> USE DEF CapacityRespected
<1>0. TypeOK /\ CapacityRespected /\ TypeOK'
  BY TypeStep DEF IInv
<1>1. ASSUME NEW r \in Runs, NEW w \in Workers, Granting(r, w)
      PROVE  CapacityRespected'
  <2>1. Cardinality(Assigned') <= MaxTotalSessions
    BY <1>0, <1>1, GrantCounts, Finite, AllocatorAssumption DEF Granting
  <2>2. \A v \in Workers : Cardinality(assignedRuns'[v]) <= MaxSessionsPerWorker
    <3>1. Cardinality(assignedRuns'[w]) \in Nat
      BY <1>0, AllocatorAssumption, FS_Subset, FS_CardinalityType DEF TypeOK
    <3> QED BY <1>0, <1>1, <3>1, GrantCounts, Finite, AllocatorAssumption
  <2> QED BY <2>1, <2>2
<1>2. ASSUME NEW r \in Runs, ReleaseRun(r)
      PROVE  CapacityRespected'
  <2>1. Cardinality(Assigned') \in Nat /\ Cardinality(Assigned') <= Cardinality(Assigned)
    BY <1>0, <1>2, ReleaseCounts, Finite, FS_Subset, FS_CardinalityType
  <2>2. ASSUME NEW v \in Workers
        PROVE  Cardinality(assignedRuns'[v]) \in Nat
               /\ Cardinality(assignedRuns'[v]) <= Cardinality(assignedRuns[v])
    BY <1>0, <1>2, ReleaseCounts, Finite, FS_Subset, FS_CardinalityType
  <2> QED BY <1>0, <2>1, <2>2, Finite, AllocatorAssumption
<1>3. CASE LeasesKept
  BY <1>0, <1>3 DEF LeasesKept, Assigned
<1> QED BY <1>1, <1>2, <1>3, LeaseEffects

\* Only the run that holds the lock grants leases, so the room a launching run
\* saw can only grow.
LEMMA RoomStep ==
  ASSUME IInv, Next
  PROVE  LaunchHasRoom'
<1> USE DEF TypeOK, PcStates, Goto, calls, leases, fleet, stops
<1>0. TypeOK /\ LaunchHasRoom /\ TypeOK'
  BY TypeStep DEF IInv
<1>1. ASSUME NEW q \in Runs, pc'[q] = "launching"
      PROVE  /\ allocationQueue' # <<>> /\ Head(allocationQueue') = q
             /\ assignment'[q] = None
             /\ Cardinality(Assigned') < MaxTotalSessions
  <2>1. CASE LaunchWorker(q)
    BY <2>1 DEF LaunchWorker, MayAdmit, MyTurn, Assigned
  <2>2. CASE pc[q] = "launching" /\ allocationQueue' = allocationQueue
             /\ assignment' = assignment
    BY <1>0, <2>2 DEF LaunchHasRoom, Assigned
  <2>3. CASE pc[q] = "launching" /\ \E r \in Runs : AssignRun(r)
    <3>1. PICK r \in Runs : AssignRun(r)
      BY <2>3
    <3>2. allocationQueue # <<>> /\ Head(allocationQueue) = q
      BY <1>0, <2>3 DEF LaunchHasRoom
    <3>3. allocationQueue' = Append(allocationQueue, r) /\ assignment' = assignment
      BY <3>1 DEF AssignRun
    <3>4. allocationQueue' # <<>> /\ Head(allocationQueue') = q
      <4>1. allocationQueue \in Seq(Runs)
        BY <1>0
      <4>2. Head(allocationQueue') = Head(allocationQueue)
        BY <3>2, <3>3, <4>1, HeadTailAppend
      <4>3. allocationQueue' # <<>>
        BY <3>3, <4>1, AppendProperties
      <4> QED BY <3>2, <4>2, <4>3
    <3> QED BY <1>0, <2>3, <3>3, <3>4 DEF LaunchHasRoom, Assigned
  <2>4. CASE pc[q] = "launching" /\ \E r \in Runs : ReleaseRun(r)
    <3>1. PICK r \in Runs : ReleaseRun(r)
      BY <2>4
    <3>2. Cardinality(Assigned') \in Nat /\ Cardinality(Assigned') <= Cardinality(Assigned)
      BY <1>0, <3>1, ReleaseCounts, Finite, FS_Subset, FS_CardinalityType
    <3>3. allocationQueue' = allocationQueue /\ assignment'[q] = None
      BY <1>0, <2>4, <3>1 DEF ReleaseRun, LaunchHasRoom
    <3> QED BY <1>0, <2>4, <3>2, <3>3, Finite, AllocatorAssumption DEF LaunchHasRoom
  <2>5. ASSUME NEW r \in Runs, RunStep(r), pc[q] # "launching"
        PROVE  LaunchWorker(q)
    BY <1>0, <1>1, <2>5 DEF RunStep, AssignRun, AnswerAtOnce, ReuseWorker, LaunchWorker,
       RunTaskReturns, RunTaskFails, RefreshReturns, GetAssignment, WaitForWorkerRunning,
       PollFails, PollAnswers, ReleaseRun, MarkWorkerUnavailable, AwaitedStopReturns,
       Untrack, KeepTracked
  <2>6. ASSUME NEW r \in Runs, RunStep(r), pc[q] = "launching"
        PROVE  \/ AssignRun(r) \/ ReleaseRun(r)
               \/ allocationQueue' = allocationQueue /\ assignment' = assignment
    <3>1. ~AnswerAtOnce(r) /\ ~ReuseWorker(r)
      BY <1>0, <2>6 DEF AnswerAtOnce, ReuseWorker, MayAdmit, MyTurn, LaunchHasRoom
    <3>2. ~RunTaskReturns(r) /\ ~RunTaskFails(r)
      <4>1. ASSUME RunTaskReturns(r) \/ RunTaskFails(r)
            PROVE  pc[r] = "launching" /\ pc'[r] # "launching"
        BY <1>0, <4>1 DEF RunTaskReturns, RunTaskFails
      <4>2. pc[r] = "launching" => r = q
        BY <1>0, <2>6 DEF LaunchHasRoom
      <4> QED BY <1>1, <4>1, <4>2
    <3> QED BY <2>6, <3>1, <3>2 DEF RunStep, LaunchWorker, RefreshReturns, GetAssignment,
          WaitForWorkerRunning, PollFails, PollAnswers, MarkWorkerUnavailable,
          AwaitedStopReturns, SeesStopped, SeesNothing, SeesTask, Untrack, KeepTracked
  <2>7. ASSUME NEW w \in Workers, WorkerStep(w)
        PROVE  pc' = pc /\ allocationQueue' = allocationQueue /\ assignment' = assignment
    BY <2>7 DEF WorkerStep, IdleTimerFires, IdleStopReturns, EcsMoves, Untrack, KeepTracked
  <2> QED BY <1>1, <2>1, <2>2, <2>3, <2>4, <2>5, <2>6, <2>7 DEF Next
<1> QED BY <1>1 DEF LaunchHasRoom

\* The inductive invariant is kept by every step of the allocator.
THEOREM StepInductive == IInv /\ [Next]_vars => IInv'
<1>1. ASSUME IInv, Next PROVE IInv'
  BY <1>1, TypeStep, CalleesStep, AbsentStep, ConsistentStep, RoomStep, CapacityStep DEF IInv
<1>2. ASSUME IInv, UNCHANGED vars PROVE IInv'
  BY <1>2 DEF IInv, vars, calls, leases, fleet, stops, TypeOK, CalleesLaunched,
     AbsentTasksUntouched, LeasesConsistent, LaunchHasRoom, CapacityRespected, Assigned
<1> QED BY <1>1, <1>2

\* Type correctness of the allocator's state.
THEOREM TypeCorrect == Spec => []TypeOK
<1>1. IInv => TypeOK
  BY DEF IInv
<1> QED BY <1>1, InitInductive, StepInductive, PTL DEF Spec

\* The run map and the workers' run sets never disagree, however calls interleave.
THEOREM LeasesStayConsistent == Spec => []LeasesConsistent
<1>1. IInv => LeasesConsistent
  BY DEF IInv
<1> QED BY <1>1, InitInductive, StepInductive, PTL DEF Spec

\* Both capacity limits hold in every reachable state, for all values of them.
THEOREM CapacityHolds == Spec => []CapacityRespected
<1>1. IInv => CapacityRespected
  BY DEF IInv
<1> QED BY <1>1, InitInductive, StepInductive, PTL DEF Spec

-----------------------------------------------------------------------------
(* Idle timers. *)

\* Reuse, quarantine and removal each cancel the timer they make wrong, and a
\* launch never takes over a worker that has one.
LEMMA TimersStep ==
  ASSUME IInv, TimersOnIdleWorkers, Next
  PROVE  TimersOnIdleWorkers'
<1> USE DEF TypeOK, TimersOnIdleWorkers, Goto, calls, leases, fleet, stops
<1>0. TypeOK /\ CalleesLaunched /\ AbsentTasksUntouched
  BY DEF IInv
<1>1. ASSUME NEW r \in Runs, RunStep(r)
      PROVE  TimersOnIdleWorkers'
  <2>1. CASE AssignRun(r) \/ AnswerAtOnce(r) \/ LaunchWorker(r) \/ RunTaskFails(r)
             \/ GetAssignment(r) \/ WaitForWorkerRunning(r) \/ PollFails(r)
    BY <1>0, <2>1 DEF AssignRun, AnswerAtOnce, LaunchWorker, RunTaskFails, GetAssignment,
       WaitForWorkerRunning, PollFails
  <2>2. CASE ReuseWorker(r)
    BY <1>0, <2>2 DEF ReuseWorker, Lease, Candidates
  <2>3. CASE RunTaskReturns(r)
    BY <1>0, <2>3 DEF RunTaskReturns, NextTask, Lease, AbsentTasksUntouched
  <2>4. CASE RefreshReturns(r) \/ PollAnswers(r)
    BY <1>0, <2>4 DEF RefreshReturns, PollAnswers, SeesStopped, SeesNothing, SeesTask
  <2>5. CASE ReleaseRun(r)
    BY <1>0, <2>5 DEF ReleaseRun
  <2>6. CASE MarkWorkerUnavailable(r)
    BY <1>0, <2>6 DEF MarkWorkerUnavailable
  <2>7. CASE AwaitedStopReturns(r)
    BY <1>0, <2>7 DEF AwaitedStopReturns, Untrack, KeepTracked
  <2> QED BY <1>1, <2>1, <2>2, <2>3, <2>4, <2>5, <2>6, <2>7 DEF RunStep
<1>2. ASSUME NEW w \in Workers, WorkerStep(w)
      PROVE  TimersOnIdleWorkers'
  BY <1>0, <1>2 DEF WorkerStep, IdleTimerFires, IdleStopReturns, EcsMoves, Untrack, KeepTracked
<1> QED BY <1>1, <1>2 DEF Next

\* No idle timer outlives its reason: it belongs to a tracked worker without runs.
THEOREM TimersStayIdle == Spec => []TimersOnIdleWorkers
<1>1. Init => TimersOnIdleWorkers
  BY DEF Init, TimersOnIdleWorkers
<1>2. IInv /\ TimersOnIdleWorkers /\ [Next]_vars => TimersOnIdleWorkers'
  <2>1. ASSUME TimersOnIdleWorkers, UNCHANGED vars PROVE TimersOnIdleWorkers'
    BY <2>1 DEF TimersOnIdleWorkers, vars, fleet, stops
  <2> QED BY <2>1, TimersStep
<1> QED BY <1>1, <1>2, InitInductive, StepInductive, PTL DEF Spec

-----------------------------------------------------------------------------
(* What keeps calls and empty workers from waiting for ever. *)

\* A step that touches no worker, timer or stop leaves every worker watched.
LEMMA WatchKept ==
  ASSUME TypeOK, EmptyWorkersWatched, UNCHANGED <<tracked, assignedRuns, idleTimers, idleStops>>,
         \A r \in Runs : pc[r] = "stopping" => pc'[r] = "stopping" /\ callee'[r] = callee[r]
  PROVE  EmptyWorkersWatched'
BY DEF EmptyWorkersWatched, Watched

\* Other calls go on as they are while one takes a step.
LEMMA OthersKept ==
  ASSUME TypeOK, NEW r \in Runs, RunStep(r)
  PROVE  \A q \in Runs \ {r} : pc'[q] = pc[q] /\ callee'[q] = callee[q]
<1> USE DEF TypeOK, Goto, calls, leases, fleet, stops
<1>1. CASE AssignRun(r) \/ AnswerAtOnce(r) \/ ReuseWorker(r) \/ LaunchWorker(r)
           \/ RunTaskReturns(r) \/ RunTaskFails(r) \/ RefreshReturns(r) \/ GetAssignment(r)
  BY <1>1 DEF AssignRun, AnswerAtOnce, ReuseWorker, LaunchWorker, RunTaskReturns,
     RunTaskFails, RefreshReturns, GetAssignment, MyTurn, MayAdmit
<1>2. CASE WaitForWorkerRunning(r) \/ PollFails(r) \/ PollAnswers(r) \/ AwaitedStopReturns(r)
  BY <1>2 DEF WaitForWorkerRunning, PollFails, PollAnswers, AwaitedStopReturns
<1>3. CASE ReleaseRun(r) \/ MarkWorkerUnavailable(r)
  BY <1>3 DEF ReleaseRun, MarkWorkerUnavailable
<1> QED BY <1>1, <1>2, <1>3 DEF RunStep

LEMMA WatchStep ==
  ASSUME IInv, EmptyWorkersWatched, Next
  PROVE  EmptyWorkersWatched'
<1> USE DEF calls, leases, fleet, stops
<1>0. TypeOK /\ LeasesConsistent /\ CalleesLaunched /\ AbsentTasksUntouched
  BY DEF IInv
<1>1. ASSUME NEW r \in Runs, RunStep(r)
      PROVE  EmptyWorkersWatched'
  <2>0. \A q \in Runs \ {r} : pc'[q] = pc[q] /\ callee'[q] = callee[q]
    BY <1>0, <1>1, OthersKept
  <2>1. CASE AssignRun(r) \/ LaunchWorker(r) \/ RunTaskFails(r) \/ GetAssignment(r)
             \/ WaitForWorkerRunning(r) \/ PollFails(r)
    <3>1. pc[r] # "stopping" /\ UNCHANGED <<tracked, assignedRuns, idleTimers, idleStops>>
      BY <2>1 DEF AssignRun, LaunchWorker, RunTaskFails, GetAssignment, WaitForWorkerRunning,
         PollFails, MayAdmit, MyTurn
    <3> QED BY <1>0, <2>0, <3>1, WatchKept
  <2>2. CASE RefreshReturns(r) \/ PollAnswers(r)
    <3>1. pc[r] # "stopping" /\ UNCHANGED <<tracked, assignedRuns, idleTimers, idleStops>>
      BY <2>2 DEF RefreshReturns, PollAnswers, SeesStopped, SeesNothing, SeesTask
    <3> QED BY <1>0, <2>0, <3>1, WatchKept
  <2>3. CASE AnswerAtOnce(r)
    <3>1. /\ pc[r] = "queued" /\ idleTimers' = idleTimers \ {assignment[r]}
          /\ UNCHANGED <<tracked, assignedRuns, idleStops>>
      BY <2>3 DEF AnswerAtOnce, MyTurn
    <3>2. \A w \in Workers : assignment[r] = w => assignedRuns[w] # {}
      BY <1>0 DEF LeasesConsistent
    <3> QED BY <1>0, <2>0, <3>1, <3>2 DEF EmptyWorkersWatched, Watched, TypeOK
  <2>4. CASE ReuseWorker(r) \/ RunTaskReturns(r)
    <3>1. PICK w \in Workers :
            /\ assignedRuns' = [assignedRuns EXCEPT ![w] = @ \cup {r}]
            /\ tracked' \subseteq tracked \cup {w}
            /\ idleTimers \ {w} \subseteq idleTimers' /\ idleStops' = idleStops
      BY <1>0, <2>4 DEF ReuseWorker, RunTaskReturns, Lease, Candidates, TypeOK
    <3>2. pc[r] # "stopping"
      BY <2>4 DEF ReuseWorker, RunTaskReturns, MayAdmit, MyTurn
    <3>3. \A v \in tracked' : assignedRuns'[v] = {} => v # w /\ v \in tracked /\ assignedRuns[v] = {}
      BY <1>0, <3>1 DEF TypeOK
    <3> QED BY <2>0, <3>1, <3>2, <3>3 DEF EmptyWorkersWatched, Watched
  <2>5. CASE ReleaseRun(r)
    <3>1. PICK w \in Workers :
          /\ pc[r] = "idle" /\ assignment[r] = w /\ UNCHANGED <<tracked, unavailable>>
          /\ assignedRuns' = IF w \in tracked THEN [assignedRuns EXCEPT ![w] = @ \ {r}] ELSE assignedRuns
      BY <1>0, <2>5 DEF ReleaseRun, TypeOK
    <3>2. ASSUME NEW v \in tracked, v # w, assignedRuns'[v] = {}, ~StopMayFail
          PROVE  Watched(v)'
      <4>1. Watched(v)
        <5>1. assignedRuns[v] = {}
          BY <1>0, <3>1, <3>2 DEF TypeOK
        <5> QED BY <3>2, <5>1 DEF EmptyWorkersWatched
      <4>2. v \in idleTimers => v \in idleTimers'
        BY <2>5, <3>1 DEF ReleaseRun
      <4>3. idleStops'[v] = idleStops[v]
        BY <1>0, <2>5, <3>1, <3>2 DEF ReleaseRun, TypeOK
      <4> QED BY <2>0, <3>1, <4>1, <4>2, <4>3 DEF Watched
    <3>3. ASSUME w \in tracked, assignedRuns'[w] = {}
          PROVE  Watched(w)'
      <4>1. assignedRuns[w] \subseteq {r}
        BY <1>0, <3>1, <3>3 DEF TypeOK
      <4>2. \/ Goto(r, "stopping", w)
            \/ idleStops' = [idleStops EXCEPT ![w] = @ + 1]
            \/ idleTimers' = idleTimers \cup {w}
        BY <2>5, <3>1, <3>3, <4>1 DEF ReleaseRun
      <4> QED BY <1>0, <3>1, <4>2 DEF Watched, Goto, TypeOK
    <3> QED BY <3>1, <3>2, <3>3 DEF EmptyWorkersWatched
  <2>6. CASE MarkWorkerUnavailable(r)
    <3>1. PICK w \in tracked :
            /\ idleTimers' = idleTimers \ {w} /\ UNCHANGED <<tracked, assignedRuns, idleStops>>
            /\ IF assignedRuns[w] = {} THEN Goto(r, "stopping", w) ELSE UNCHANGED <<pc, callee>>
      BY <2>6 DEF MarkWorkerUnavailable
    <3>2. pc[r] = "idle"
      BY <2>6 DEF MarkWorkerUnavailable
    <3>3. ASSUME assignedRuns[w] = {}
          PROVE  pc'[r] = "stopping" /\ callee'[r] = w
      BY <1>0, <3>1, <3>3 DEF Goto, TypeOK
    <3> QED BY <2>0, <3>1, <3>2, <3>3 DEF EmptyWorkersWatched, Watched
  <2>7. CASE AwaitedStopReturns(r)
    <3>1. CASE StopMayFail
      BY <3>1 DEF EmptyWorkersWatched
    <3>2. CASE ~StopMayFail
      <4>1. /\ tracked' = tracked \ {callee[r]} /\ idleTimers' = idleTimers \ {callee[r]}
            /\ UNCHANGED <<assignedRuns, idleStops>>
        BY <2>7, <3>2 DEF AwaitedStopReturns, Untrack, KeepTracked
      <4> QED BY <2>0, <4>1 DEF EmptyWorkersWatched, Watched
    <3> QED BY <3>1, <3>2
  <2> QED BY <1>1, <2>1, <2>2, <2>3, <2>4, <2>5, <2>6, <2>7 DEF RunStep
<1>2. ASSUME NEW w \in Workers, WorkerStep(w)
      PROVE  EmptyWorkersWatched'
  <2>1. CASE IdleTimerFires(w)
    <3>1. /\ idleTimers' = idleTimers \ {w} /\ UNCHANGED <<tracked, assignedRuns, pc, callee>>
          /\ \/ assignedRuns[w] # {} /\ idleStops' = idleStops
             \/ assignedRuns[w] = {} /\ idleStops' = [idleStops EXCEPT ![w] = @ + 1]
      BY <2>1 DEF IdleTimerFires
    <3> QED BY <1>0, <3>1 DEF EmptyWorkersWatched, Watched, TypeOK
  <2>2. CASE IdleStopReturns(w)
    <3>1. CASE StopMayFail
      BY <3>1 DEF EmptyWorkersWatched
    <3>2. CASE ~StopMayFail
      <4>1. /\ tracked' = tracked \ {w} /\ idleTimers' = idleTimers \ {w}
            /\ idleStops' = [idleStops EXCEPT ![w] = @ - 1] /\ UNCHANGED <<assignedRuns, pc, callee>>
        BY <2>2, <3>2 DEF IdleStopReturns, Untrack, KeepTracked
      <4>2. \A v \in tracked' : v \in Workers /\ v # w /\ idleStops'[v] = idleStops[v]
        BY <1>0, <4>1 DEF TypeOK
      <4> QED BY <4>1, <4>2 DEF EmptyWorkersWatched, Watched
    <3> QED BY <3>1, <3>2
  <2>3. CASE EcsMoves(w)
    BY <1>0, <2>3, WatchKept DEF EcsMoves
  <2> QED BY <1>2, <2>1, <2>2, <2>3 DEF WorkerStep
<1> QED BY <1>1, <1>2 DEF Next

\* As long as AWS accepts each StopTask, every tracked worker that no run leases has
\* a timer armed or a stop in flight: the idle grace ends in a stop or a new lease.
THEOREM EmptyWorkersAreWatched == Spec => []EmptyWorkersWatched
<1>1. Init => EmptyWorkersWatched
  BY DEF Init, EmptyWorkersWatched
<1>2. IInv /\ EmptyWorkersWatched /\ [Next]_vars => EmptyWorkersWatched'
  <2>1. ASSUME IInv, EmptyWorkersWatched, UNCHANGED vars PROVE EmptyWorkersWatched'
    BY <2>1, WatchKept DEF IInv, vars, calls, fleet, stops
  <2> QED BY <2>1, WatchStep
<1> QED BY <1>1, <1>2, InitInductive, StepInductive, PTL DEF Spec

InQueue(r) == \E i \in 1..Len(allocationQueue) : allocationQueue[i] = r

\* The first call is answered and leaves; the others keep their order.
LEMMA FirstLeaves ==
  ASSUME TypeOK, LockPassedOn, NEW r \in Runs, allocationQueue # <<>>, Head(allocationQueue) = r,
         allocationQueue' = Tail(allocationQueue), pc'[r] \notin {"queued", "launching"},
         \A q \in Runs \ {r} : pc'[q] = pc[q]
  PROVE  LockPassedOn'
<1> DEFINE n == Len(allocationQueue)
<1>1. /\ allocationQueue \in Seq(Runs) /\ n \in Nat /\ n >= 1 /\ allocationQueue[1] = r
      /\ \A i \in 1..n : allocationQueue[i] \in Runs
  BY EmptySeq, LenProperties, ElementOfSeq DEF TypeOK
<1>2. Len(allocationQueue') = n - 1 /\ \A i \in 1..n - 1 : allocationQueue'[i] = allocationQueue[i + 1]
  BY <1>1, HeadTailProperties
<1>3. \A i, j \in 1..n : allocationQueue[i] = allocationQueue[j] => i = j
  BY DEF LockPassedOn
<1> HIDE DEF n
<1>4. ASSUME NEW q \in Runs
      PROVE  InQueue(q)' <=> q # r /\ \E i \in 1..n : allocationQueue[i] = q
  <2>1. ASSUME NEW i \in 1..n - 1, allocationQueue'[i] = q
        PROVE  q # r /\ \E j \in 1..n : allocationQueue[j] = q
    <3>1. i + 1 \in 1..n /\ 1 \in 1..n /\ i + 1 # 1
      BY <1>1
    <3> QED BY <1>1, <1>2, <1>3, <2>1, <3>1
  <2>2. ASSUME NEW j \in 1..n, allocationQueue[j] = q, q # r
        PROVE  \E i \in 1..n - 1 : allocationQueue'[i] = q
    <3>1. j # 1
      BY <1>1, <2>2
    <3>2. j - 1 \in 1..n - 1 /\ (j - 1) + 1 = j
      BY <1>1, <3>1
    <3>3. allocationQueue'[j - 1] = allocationQueue[j]
      BY <1>2, <3>2
    <3> QED BY <2>2, <3>2, <3>3
  <2> QED BY <1>2, <2>1, <2>2 DEF InQueue
<1>5. \A q \in Runs : pc'[q] \in {"queued", "launching"} <=> InQueue(q)'
  BY <1>4 DEF LockPassedOn, n
<1>6. ASSUME NEW i \in 1..n - 1, NEW j \in 1..n - 1, allocationQueue'[i] = allocationQueue'[j]
      PROVE  i = j
  <2>1. i + 1 \in 1..n /\ j + 1 \in 1..n
    BY <1>1
  <2>2. i + 1 = j + 1
    BY <1>2, <1>3, <1>6, <2>1
  <2> QED BY <2>1, <2>2
<1>7. \A q \in Runs : pc'[q] # "launching"
  BY DEF LockPassedOn
<1> QED BY <1>2, <1>5, <1>6, <1>7 DEF LockPassedOn, InQueue

\* A call that enters is the last; whoever holds the lock keeps it.
LEMMA LastEnters ==
  ASSUME TypeOK, LockPassedOn, NEW r \in Runs, AssignRun(r)
  PROVE  LockPassedOn'
<1> DEFINE n == Len(allocationQueue)
<1>1. /\ pc[r] = "idle" /\ pc'[r] = "queued" /\ \A q \in Runs \ {r} : pc'[q] = pc[q]
      /\ allocationQueue' = Append(allocationQueue, r)
  BY DEF AssignRun, Goto, TypeOK
<1>2. allocationQueue \in Seq(Runs) /\ n \in Nat
  BY LenProperties DEF TypeOK
<1>3. /\ Len(allocationQueue') = n + 1 /\ allocationQueue'[n + 1] = r
      /\ \A i \in 1..n : allocationQueue'[i] = allocationQueue[i]
  BY <1>1, <1>2, AppendProperties
<1>4. /\ \A i, j \in 1..n : allocationQueue[i] = allocationQueue[j] => i = j
      /\ \A q \in Runs : pc[q] \in {"queued", "launching"} <=> \E i \in 1..n : allocationQueue[i] = q
  BY DEF LockPassedOn
<1>5. ASSUME NEW q \in Runs, pc'[q] = "launching"
      PROVE  Head(allocationQueue') = q
  <2>1. pc[q] = "launching" /\ Head(allocationQueue) = q
    BY <1>1, <1>5 DEF LockPassedOn
  <2>2. allocationQueue # <<>>
    <3>1. \E i \in 1..n : TRUE
      BY <1>4, <2>1
    <3> QED BY <1>2, <3>1, EmptySeq
  <2> QED BY <1>1, <1>2, <2>1, <2>2, HeadTailAppend
<1> HIDE DEF n
<1>6. \A i \in 1..n + 1 : i \in 1..n \/ i = n + 1
  BY <1>2
<1>7. \A i \in 1..n : i \in 1..n + 1 /\ allocationQueue[i] # r
  BY <1>1, <1>2, <1>4
<1>8. ASSUME NEW q \in Runs
      PROVE  pc'[q] \in {"queued", "launching"} <=> \E i \in 1..n + 1 : allocationQueue'[i] = q
  <2>1. n + 1 \in 1..n + 1
    BY <1>2
  <2> QED BY <1>1, <1>3, <1>4, <1>6, <1>7, <2>1
<1>9. \A i, j \in 1..n + 1 : allocationQueue'[i] = allocationQueue'[j] => i = j
  BY <1>3, <1>4, <1>6, <1>7
<1> QED BY <1>3, <1>5, <1>8, <1>9 DEF LockPassedOn

\* Other steps leave the queue alone, and the calls that are in it.
LEMMA LockStep ==
  ASSUME IInv, LockPassedOn, Next
  PROVE  LockPassedOn'
<1>0. TypeOK /\ LaunchHasRoom
  BY DEF IInv
<1>1. ASSUME NEW r \in Runs, RunStep(r)
      PROVE  LockPassedOn'
  <2> USE DEF calls
  <2>0. \A q \in Runs \ {r} : pc'[q] = pc[q]
    BY <1>0, <1>1, OthersKept
  <2>1. CASE AssignRun(r)
    BY <1>0, <2>1, LastEnters
  <2>2. CASE AnswerAtOnce(r) \/ ReuseWorker(r) \/ RunTaskReturns(r) \/ RunTaskFails(r)
    <3>1. /\ allocationQueue # <<>> /\ Head(allocationQueue) = r
          /\ allocationQueue' = Tail(allocationQueue) /\ pc'[r] \in {"idle", "refreshing"}
      BY <1>0, <2>2 DEF AnswerAtOnce, ReuseWorker, RunTaskReturns, RunTaskFails, MayAdmit, MyTurn,
         Unlock, Goto, LaunchHasRoom, TypeOK
    <3> QED BY <1>0, <2>0, <3>1, FirstLeaves
  <2>3. CASE LaunchWorker(r)
    <3>1. /\ Head(allocationQueue) = r /\ pc[r] = "queued" /\ pc'[r] = "launching"
          /\ allocationQueue' = allocationQueue
      BY <1>0, <2>3 DEF LaunchWorker, MayAdmit, MyTurn, Goto, TypeOK
    <3> QED BY <2>0, <3>1 DEF LockPassedOn
  <2>4. CASE RefreshReturns(r) \/ GetAssignment(r) \/ WaitForWorkerRunning(r) \/ PollFails(r)
             \/ PollAnswers(r) \/ ReleaseRun(r) \/ MarkWorkerUnavailable(r) \/ AwaitedStopReturns(r)
    <3>1. /\ allocationQueue' = allocationQueue /\ pc[r] \notin {"queued", "launching"}
      BY <2>4 DEF RefreshReturns, GetAssignment, WaitForWorkerRunning, PollFails, PollAnswers,
         ReleaseRun, MarkWorkerUnavailable, AwaitedStopReturns
    <3>2. pc'[r] \notin {"queued", "launching"}
      BY <1>0, <2>4 DEF RefreshReturns, GetAssignment, WaitForWorkerRunning, PollFails, PollAnswers,
         ReleaseRun, MarkWorkerUnavailable, AwaitedStopReturns, Goto, TypeOK
    <3> QED BY <2>0, <3>1, <3>2 DEF LockPassedOn
  <2> QED BY <1>1, <2>1, <2>2, <2>3, <2>4 DEF RunStep
<1>2. ASSUME NEW w \in Workers, WorkerStep(w)
      PROVE  LockPassedOn'
  <2>1. UNCHANGED <<allocationQueue, pc>>
    BY <1>2 DEF WorkerStep, IdleTimerFires, IdleStopReturns, EcsMoves, calls
  <2> QED BY <2>1 DEF LockPassedOn
<1> QED BY <1>1, <1>2 DEF Next

\* However calls overlap, each assignRun that waits is in the queue and the first in
\* it is one that will pass the lock on: it is at its turn, or ECS owes it an answer.
THEOREM LockIsPassedOn == Spec => []LockPassedOn
<1>1. Init => LockPassedOn
  BY EmptySeq DEF Init, LockPassedOn
<1>2. IInv /\ LockPassedOn /\ [Next]_vars => LockPassedOn'
  <2>1. ASSUME LockPassedOn, UNCHANGED vars PROVE LockPassedOn'
    BY <2>1 DEF LockPassedOn, vars, calls
  <2> QED BY <2>1, LockStep
<1> QED BY <1>1, <1>2, InitInductive, StepInductive, PTL DEF Spec

-----------------------------------------------------------------------------
(* Action properties and refinement. *)

\* What one step may do to the workers closed to new runs.
LEMMA QuarantineStep ==
  ASSUME IInv, [Next]_vars
  PROVE  \A w \in unavailable : w \in unavailable' /\ assignedRuns'[w] \subseteq assignedRuns[w]
<1>0. TypeOK /\ AbsentTasksUntouched
  BY DEF IInv
<1>1. ASSUME NEW r \in Runs, NEW w \in Workers, Granting(r, w), NEW v \in unavailable
      PROVE  v \in unavailable' /\ assignedRuns'[v] \subseteq assignedRuns[v]
  <2>1. v # w
    BY <1>0, <1>1 DEF Granting, Candidates, AbsentTasksUntouched
  <2> QED BY <1>0, <1>1, <2>1 DEF Granting, Lease, TypeOK
<1>2. ASSUME NEW r \in Runs, ReleaseRun(r), NEW v \in unavailable
      PROVE  v \in unavailable' /\ assignedRuns'[v] \subseteq assignedRuns[v]
  BY <1>0, <1>2, ReleaseCounts DEF TypeOK
<1>3. CASE LeasesKept
  BY <1>3 DEF LeasesKept
<1>4. CASE UNCHANGED vars
  BY <1>4 DEF vars, fleet
<1> QED BY <1>1, <1>2, <1>3, <1>4, LeaseEffects

\* Whoever awaits the stop of a worker has it in quarantine and empty.
StopsOfEmptyWorkers ==
  \A r \in Runs : pc[r] = "stopping" => callee[r] \in unavailable /\ assignedRuns[callee[r]] = {}

LEMMA StopsStep ==
  ASSUME IInv, StopsOfEmptyWorkers, [Next]_vars
  PROVE  StopsOfEmptyWorkers'
<1>1. TypeOK /\ CalleesLaunched /\ TypeOK'
  BY StepInductive DEF IInv
<1>2. ASSUME NEW r \in Runs, pc[r] = "stopping", pc'[r] = "stopping", callee'[r] = callee[r]
      PROVE  callee'[r] \in unavailable' /\ assignedRuns'[callee'[r]] = {}
  BY <1>2, QuarantineStep DEF StopsOfEmptyWorkers
<1>3. ASSUME NEW r \in Runs, ReleaseRun(r) \/ MarkWorkerUnavailable(r), pc'[r] = "stopping"
      PROVE  callee'[r] \in unavailable' /\ assignedRuns'[callee'[r]] = {}
  BY <1>1, <1>3 DEF TypeOK, ReleaseRun, MarkWorkerUnavailable, Goto, leases
<1>4. ASSUME NEW r \in Runs, RunStep(r)
      PROVE  /\ \A q \in Runs \ {r} : pc'[q] = pc[q] /\ callee'[q] = callee[q]
             /\ pc'[r] = "stopping" => ReleaseRun(r) \/ MarkWorkerUnavailable(r)
  <2> USE DEF TypeOK, Goto, calls, leases, fleet, stops
  <2>1. CASE AssignRun(r) \/ AnswerAtOnce(r) \/ ReuseWorker(r) \/ LaunchWorker(r)
             \/ RunTaskReturns(r) \/ RunTaskFails(r) \/ RefreshReturns(r) \/ GetAssignment(r)
    BY <1>1, <2>1 DEF AssignRun, AnswerAtOnce, ReuseWorker, LaunchWorker, RunTaskReturns,
       RunTaskFails, RefreshReturns, GetAssignment, MyTurn, MayAdmit
  <2>2. CASE WaitForWorkerRunning(r) \/ PollFails(r) \/ PollAnswers(r) \/ AwaitedStopReturns(r)
    BY <1>1, <2>2 DEF WaitForWorkerRunning, PollFails, PollAnswers, AwaitedStopReturns
  <2>3. CASE ReleaseRun(r) \/ MarkWorkerUnavailable(r)
    BY <1>1, <2>3 DEF ReleaseRun, MarkWorkerUnavailable
  <2> QED BY <1>4, <2>1, <2>2, <2>3 DEF RunStep
<1>5. CASE \E w \in Workers : WorkerStep(w)
  <2>1. UNCHANGED <<pc, callee>>
    BY <1>5 DEF WorkerStep, IdleTimerFires, IdleStopReturns, EcsMoves, calls
  <2> QED BY <1>2, <2>1 DEF StopsOfEmptyWorkers
<1>6. CASE \E r \in Runs : RunStep(r)
  BY <1>2, <1>3, <1>4, <1>6 DEF StopsOfEmptyWorkers
<1>7. CASE UNCHANGED vars
  BY <1>7 DEF StopsOfEmptyWorkers, vars, calls, fleet
<1> QED BY <1>5, <1>6, <1>7 DEF Next

\* A worker that is dropped has no run, or its idle timer's stop was answered.
LEMMA DroppedWorkers ==
  ASSUME IInv, StopsOfEmptyWorkers, [Next]_vars
  PROVE  \A w \in tracked \ tracked' : assignedRuns[w] = {} \/ idleStops'[w] < idleStops[w]
<1>0. TypeOK
  BY DEF IInv
<1>1. ASSUME NEW r \in Runs, AwaitedStopReturns(r)
      PROVE  \A w \in tracked \ tracked' : assignedRuns[w] = {}
  BY <1>1 DEF AwaitedStopReturns, Untrack, KeepTracked, fleet, StopsOfEmptyWorkers
<1>2. ASSUME NEW w \in Workers, IdleStopReturns(w)
      PROVE  \A v \in tracked \ tracked' : idleStops'[v] < idleStops[v]
  BY <1>0, <1>2 DEF TypeOK, IdleStopReturns, Untrack, KeepTracked, fleet
<1>3. ASSUME NEW r \in Runs, RunStep(r), ~AwaitedStopReturns(r)
      PROVE  tracked \subseteq tracked'
  <2> USE DEF calls, leases, fleet
  <2>1. CASE AssignRun(r) \/ AnswerAtOnce(r) \/ ReuseWorker(r) \/ LaunchWorker(r)
             \/ RunTaskReturns(r) \/ RunTaskFails(r) \/ GetAssignment(r)
    BY <2>1 DEF AssignRun, AnswerAtOnce, ReuseWorker, LaunchWorker, RunTaskReturns,
       RunTaskFails, GetAssignment
  <2>2. CASE RefreshReturns(r) \/ PollAnswers(r)
    BY <2>2 DEF RefreshReturns, PollAnswers, SeesStopped, SeesNothing, SeesTask
  <2>3. CASE WaitForWorkerRunning(r) \/ PollFails(r) \/ ReleaseRun(r) \/ MarkWorkerUnavailable(r)
    BY <2>3 DEF WaitForWorkerRunning, PollFails, ReleaseRun, MarkWorkerUnavailable
  <2> QED BY <1>3, <2>1, <2>2, <2>3 DEF RunStep
<1>4. ASSUME NEW w \in Workers, IdleTimerFires(w) \/ EcsMoves(w)
      PROVE  tracked' = tracked
  BY <1>4 DEF IdleTimerFires, EcsMoves, fleet
<1>5. CASE UNCHANGED vars
  BY <1>5 DEF vars, fleet
<1> QED BY <1>1, <1>2, <1>3, <1>4, <1>5 DEF Next, WorkerStep

\* A quarantined worker never gets a new run and is never taken back, and a stop
\* that releaseRun or markWorkerUnavailable awaits takes a worker from no run.
THEOREM QuarantineIsFinal == Spec => QuarantineHolds
<1> DEFINE Final == \A w \in unavailable : w \in unavailable' /\ assignedRuns'[w] \subseteq assignedRuns[w]
           Spared == \A w \in tracked \ tracked' : assignedRuns[w] = {} \/ idleStops'[w] < idleStops[w]
<1>1. Init => StopsOfEmptyWorkers
  BY DEF Init, StopsOfEmptyWorkers
<1>2. IInv /\ StopsOfEmptyWorkers /\ [Next]_vars => StopsOfEmptyWorkers'
  BY StopsStep
<1>3. IInv /\ StopsOfEmptyWorkers /\ [Next]_vars => [Final]_vars /\ [Spared]_vars
  BY QuarantineStep, DroppedWorkers
<1> HIDE DEF Final, Spared
<1>4. Spec => [][Final]_vars /\ [][Spared]_vars
  BY <1>1, <1>2, <1>3, InitInductive, StepInductive, PTL DEF Spec
<1> QED BY <1>4 DEF QuarantineHolds, Final, Spared

\* At most one worker is closed to new runs by a step.
LEMMA ClosedEffects ==
  ASSUME IInv, Next
  PROVE  Closed' = Closed \/ \E w \in Workers : Closed' = Closed \cup {w}
<1> USE DEF fleet, Closed
<1>0. TypeOK /\ AbsentTasksUntouched /\ CalleesLaunched
  BY DEF IInv
<1>1. ASSUME NEW w \in Workers, Untrack(w)
      PROVE  Closed' = Closed \/ Closed' = Closed \cup {w}
  BY <1>0, <1>1 DEF Untrack, AbsentTasksUntouched
<1>2. ASSUME NEW w \in Workers, unavailable' = unavailable \cup {w}, UNCHANGED <<tracked, ecs>>
      PROVE  Closed' = Closed \cup {w}
  BY <1>2
<1>3. CASE UNCHANGED <<unavailable, tracked, ecs>>
  BY <1>3
<1>4. CASE \E r \in Runs : RunStep(r)
  <2>1. PICK r \in Runs : RunStep(r)
    BY <1>4
  <2>2. CASE AssignRun(r) \/ AnswerAtOnce(r) \/ ReuseWorker(r) \/ LaunchWorker(r)
             \/ RunTaskFails(r) \/ GetAssignment(r) \/ WaitForWorkerRunning(r) \/ ReleaseRun(r)
    BY <1>3, <2>2 DEF AssignRun, AnswerAtOnce, ReuseWorker, LaunchWorker, RunTaskFails,
       GetAssignment, WaitForWorkerRunning, ReleaseRun
  <2>3. CASE RunTaskReturns(r)
    BY <1>0, <2>3 DEF RunTaskReturns, NextTask, TypeOK
  <2>4. CASE RefreshReturns(r) \/ PollAnswers(r) \/ PollFails(r)
    <3>1. callee[r] \in Workers
      BY <1>0, <2>4 DEF RefreshReturns, PollAnswers, PollFails, CalleesLaunched
    <3> QED BY <1>2, <1>3, <2>4, <3>1 DEF RefreshReturns, PollAnswers, PollFails,
          SeesStopped, SeesNothing, SeesTask
  <2>5. CASE MarkWorkerUnavailable(r)
    BY <1>0, <1>2, <2>5 DEF MarkWorkerUnavailable, TypeOK
  <2>6. CASE AwaitedStopReturns(r)
    <3>1. callee[r] \in Workers
      BY <1>0, <2>6 DEF AwaitedStopReturns, CalleesLaunched
    <3> QED BY <1>1, <1>3, <2>6, <3>1 DEF AwaitedStopReturns, KeepTracked
  <2> QED BY <2>1, <2>2, <2>3, <2>4, <2>5, <2>6 DEF RunStep
<1>5. CASE \E w \in Workers : WorkerStep(w)
  <2>1. PICK w \in Workers : WorkerStep(w)
    BY <1>5
  <2>2. CASE IdleTimerFires(w)
    BY <1>3, <2>2 DEF IdleTimerFires
  <2>3. CASE IdleStopReturns(w)
    BY <1>1, <1>3, <2>3 DEF IdleStopReturns, KeepTracked
  <2>4. CASE EcsMoves(w)
    BY <1>0, <2>4 DEF EcsMoves, TypeOK
  <2> QED BY <2>1, <2>2, <2>3, <2>4 DEF WorkerStep
<1> QED BY <1>4, <1>5 DEF Next

\* A slot is granted only to a run without a lease, within both limits and on a
\* worker that is open: the port's Grant.
LEMMA GrantRefines ==
  ASSUME IInv, NEW r \in Runs, NEW w \in Workers, Granting(r, w)
  PROVE  Port!Grant(r, w)
<1>0. TypeOK /\ AbsentTasksUntouched /\ LeasesConsistent
  BY DEF IInv
<1>1. Cardinality(Port!Load(w)) < MaxSessionsPerWorker
  <2>1. Port!Load(w) \subseteq assignedRuns[w]
    BY <1>0 DEF Port!Load, LeasesConsistent
  <2>2. Cardinality(Port!Load(w)) \in Nat
        /\ Cardinality(Port!Load(w)) <= Cardinality(assignedRuns[w])
    BY <1>0, <2>1, Finite, FS_Subset, FS_CardinalityType
  <2> QED BY <1>0, <2>2, GrantCounts, Finite, AllocatorAssumption
<1>2. Closed' = Closed /\ w \notin Closed
  BY <1>0 DEF Granting, Closed, Candidates, AbsentTasksUntouched, TypeOK
<1>3. Cardinality(Port!Leased) < MaxTotalSessions
  BY DEF Granting, Port!Leased, Assigned
<1>4. assignment[r] = None /\ assignment' = [assignment EXCEPT ![r] = w]
  BY DEF Granting, Lease
<1>5. \A S : Port!Cardinality(S) = Cardinality(S)
  BY DEF Port!Cardinality, Port!IsFiniteSet, Cardinality, IsFiniteSet
<1> QED BY <1>1, <1>2, <1>3, <1>4, <1>5 DEF Port!Grant

\* The ECS allocator implements the lease contract of its port.
THEOREM ImplementsPort == Spec => LeaseContract
<1>1. Init => Port!Init
  BY NoneIsNoWorker DEF Init, Port!Init, Closed
<1>2. IInv /\ [Next]_vars => [Port!Next]_<<assignment, Closed>>
  <2> SUFFICES ASSUME IInv, [Next]_vars PROVE [Port!Next]_<<assignment, Closed>>
    OBVIOUS
  <2>1. ASSUME NEW r \in Runs, NEW w \in Workers, Granting(r, w)
        PROVE  Port!Next
    BY <2>1, GrantRefines DEF Port!Next
  <2>2. ASSUME NEW r \in Runs, ReleaseRun(r)
        PROVE  Port!Next
    <3>1. Port!Revoke(r)
      BY <2>2 DEF ReleaseRun, Port!Revoke, Closed
    <3> QED BY <3>1 DEF Port!Next
  <2>3. CASE LeasesKept /\ Next
    BY <2>3, ClosedEffects DEF LeasesKept, Port!Next, Port!Close
  <2>4. CASE UNCHANGED vars
    BY <2>4 DEF vars, leases, fleet, Closed
  <2> QED BY <2>1, <2>2, <2>3, <2>4, LeaseEffects
<1> QED BY <1>1, <1>2, InitInductive, StepInductive, PTL DEF Spec, LeaseContract, Port!Spec
=============================================================================
