-------------------------- MODULE BrowserSupplyProofs --------------------------
(***************************************************************************)
(* Proofs about the parts of Services that supply the service with         *)
(* browsers: the in-memory allocator, the connections of the driver, and   *)
(* the reconciliation at start-up.  Each part is reduced to its own        *)
(* module's steps first, and its invariant is inductive over those.        *)
(***************************************************************************)
EXTENDS Services, FiniteSetTheorems, TLAPS

-----------------------------------------------------------------------------
(* Memory: the in-memory allocator *)

\* Workers that were never created are not in any map.
Uncreated ==
  \A w \in Memory!Workers :
    w >= nextTask => w \notin tracked \cup unavailable /\ assignedRuns[w] = {}

MemoryInv == Memory!TypeOK /\ Memory!LeasedWorkersTracked /\ Uncreated

\* A step of the composition is a step of the allocator, or not this part.
LEMMA MemoryPart ==
  [Next]_vars => part' = part /\ (part = "memory" => [Memory!Next]_(Memory!vars))
  BY DEF Next, Rest, vars, OfMemory, Memory!vars

LEMMA MemoryInit ==
  ASSUME MemoryConstants, Memory!Init
  PROVE  MemoryInv
  BY DEF MemoryConstants, Memory!Init, MemoryInv, Memory!TypeOK, Memory!LeasedWorkersTracked,
     Uncreated, Memory!Workers, Memory!Assigned

LEMMA MemoryStep ==
  ASSUME MemoryConstants, MemoryInv, [Memory!Next]_(Memory!vars)
  PROVE  MemoryInv'
<1> USE DEF MemoryConstants, MemoryInv, Memory!TypeOK, Memory!LeasedWorkersTracked, Uncreated,
          Memory!Workers, Memory!Assigned
<1>1. ASSUME NEW r \in Runs, Memory!AssignRun(r)
      PROVE  MemoryInv'
  <2>1. PICK w \in Memory!Workers :
          /\ w \in tracked \/ w = nextTask
          /\ tracked' = tracked \cup {w}
          /\ nextTask' = IF w = nextTask THEN nextTask + 1 ELSE nextTask
          /\ timer' = timer \ {w}
          /\ assignedRuns' = [assignedRuns EXCEPT ![w] = @ \cup {r}]
          /\ assignment' = [assignment EXCEPT ![r] = w]
    BY <1>1 DEF Memory!AssignRun, Memory!Chosen, Memory!Candidates, Memory!TimerCleared
  <2>2. assignment[r] = None /\ UNCHANGED unavailable
    BY <1>1 DEF Memory!AssignRun
  <2>3. Memory!TypeOK'
    BY <2>1, <2>2
  <2>4. Uncreated'
    BY <2>1, <2>2
  <2>5. Memory!LeasedWorkersTracked'
    <3>1. assignment'[r] = w /\ \A q \in Runs \ {r} : assignment'[q] = assignment[q]
      BY <2>1
    <3>2. assignedRuns'[w] = assignedRuns[w] \cup {r}
          /\ \A v \in Memory!Workers \ {w} : assignedRuns'[v] = assignedRuns[v]
      BY <2>1
    <3>3. \A q \in Runs : assignment'[q] # None =>
            assignment'[q] \in tracked' /\ q \in assignedRuns'[assignment'[q]]
      BY <3>1, <3>2, <2>1
    <3>4. \A v \in Memory!Workers : \A q \in assignedRuns'[v] : assignment'[q] = v
      <4> SUFFICES ASSUME NEW v \in Memory!Workers, NEW q \in assignedRuns'[v]
                   PROVE  assignment'[q] = v
        OBVIOUS
      <4>1. q \in Runs
        BY <2>3
      <4>2. CASE q = r
        BY <4>2, <3>1, <3>2, <2>2
      <4>3. CASE q # r
        BY <4>1, <4>3, <3>1, <3>2
      <4> QED
        BY <4>2, <4>3
    <3> QED
      BY <3>3, <3>4
  <2> QED
    BY <2>3, <2>4, <2>5
<1>2. ASSUME NEW r \in Runs, Memory!ReleaseRun(r)
      PROVE  MemoryInv'
  <2>1. assignment[r] # None /\ assignment' = [assignment EXCEPT ![r] = None]
        /\ UNCHANGED <<unavailable, nextTask>>
    BY <1>2 DEF Memory!ReleaseRun
  <2>2. CASE assignment[r] \notin tracked
    BY <1>2, <2>1, <2>2 DEF Memory!ReleaseRun
  <2>3. CASE assignment[r] \in tracked
    <3> DEFINE w == assignment[r]
    <3>1. /\ assignedRuns' = [assignedRuns EXCEPT ![w] = @ \ {r}]
          /\ tracked' = tracked \/ (assignedRuns[w] = {r} /\ tracked' = tracked \ {w})
          /\ timer' \in {timer, timer \ {w}, timer \cup {w}}
      BY <1>2, <2>3 DEF Memory!ReleaseRun, Memory!Retire, Memory!TimerCleared
    <3>2. Memory!TypeOK'
      <4>1. w \in Memory!Workers
        BY <2>1
      <4>2. tracked' \subseteq Memory!Workers /\ timer' \subseteq Memory!Workers
        BY <3>1, <4>1
      <4>3. assignedRuns' \in [Memory!Workers -> SUBSET Runs]
        BY <3>1, <4>1
      <4> QED
        BY <2>1, <4>2, <4>3
    <3>3. Uncreated'
      BY <2>1, <3>1
    <3>4. ASSUME NEW q \in Runs, assignment'[q] # None
          PROVE  assignment'[q] \in tracked' /\ q \in assignedRuns'[assignment'[q]]
      <4>1. q # r /\ assignment'[q] = assignment[q]
        BY <3>4, <2>1
      <4>2. assignment[q] \in tracked /\ q \in assignedRuns[assignment[q]]
        BY <3>4, <4>1
      <4>3. q \in assignedRuns'[assignment[q]]
        BY <3>1, <4>1, <4>2
      <4> QED
        BY <3>1, <4>1, <4>2, <4>3
    <3>5. ASSUME NEW v \in Memory!Workers, NEW q \in assignedRuns'[v]
          PROVE  assignment'[q] = v
      <4>1. q \in assignedRuns[v] /\ q \in Runs
        BY <3>1
      <4>2. q # r
        BY <3>1, <4>1
      <4> QED
        BY <2>1, <4>1, <4>2
    <3> QED
      BY <3>2, <3>3, <3>4, <3>5
  <2> QED
    BY <2>2, <2>3
<1>3. ASSUME NEW w \in Memory!Workers, Memory!IdleTimerFires(w)
      PROVE  MemoryInv'
  BY <1>3 DEF Memory!IdleTimerFires, Memory!StopWorkerIfIdle, Memory!TimerCleared
<1>4. ASSUME NEW w \in Memory!Workers, Memory!MarkWorkerUnavailable(w)
      PROVE  MemoryInv'
  BY <1>4 DEF Memory!MarkWorkerUnavailable, Memory!StopWorkerIfIdle, Memory!TimerCleared
<1>5. CASE UNCHANGED Memory!vars
  BY <1>5 DEF Memory!vars
<1> QED
  BY <1>1, <1>2, <1>3, <1>4, <1>5 DEF Memory!Next

\* The limits are checked before a lease is given, a closed worker gets none, and
\* each call changes at most the leases or the worker it is about.
LEMMA MemoryLeaseStep ==
  ASSUME MemoryConstants, MemoryInv, [Memory!Next]_(Memory!vars)
  PROVE  Memory!LeaseStep
<1> USE DEF MemoryConstants, MemoryInv, Memory!TypeOK, Memory!LeasedWorkersTracked, Uncreated,
          Memory!Workers, Memory!Assigned, Memory!Closed
<1>0. \A S : Memory!Port!Cardinality(S) = Memory!Cardinality(S) /\ Memory!Cardinality(S) = Cardinality(S)
  BY DEF Memory!Port!Cardinality, Memory!Port!IsFiniteSet, Memory!Cardinality, Memory!IsFiniteSet,
     Cardinality, IsFiniteSet
<1>1. ASSUME NEW r \in Runs, Memory!AssignRun(r)
      PROVE  \E w \in Memory!Workers : Memory!Port!Grant(r, w)
  <2>1. PICK w \in Memory!Workers :
          /\ Memory!Chosen(w)
          /\ tracked' = tracked \cup {w}
          /\ nextTask' = IF w = nextTask THEN nextTask + 1 ELSE nextTask
          /\ assignment' = [assignment EXCEPT ![r] = w]
    BY <1>1 DEF Memory!AssignRun
  <2>2. assignment[r] = None /\ Cardinality({q \in Runs : assignment[q] # None}) < MaxTotalSessions
        /\ UNCHANGED unavailable
    BY <1>1, <1>0 DEF Memory!AssignRun
  <2>3. w \notin Memory!Closed /\ UNCHANGED Memory!Closed
    BY <2>1, <2>2 DEF Memory!Chosen, Memory!Candidates
  <2>4. Cardinality({q \in Runs : assignment[q] = w}) < MaxSessionsPerWorker
    <3>1. CASE w \in Memory!Candidates
      <4>1. {q \in Runs : assignment[q] = w} = assignedRuns[w]
        BY <3>1 DEF Memory!Candidates
      <4> QED
        BY <3>1, <4>1, <1>0 DEF Memory!Candidates
    <3>2. CASE w = nextTask
      <4>1. {q \in Runs : assignment[q] = w} = {}
        BY <3>2
      <4>2. Cardinality({}) = 0
        BY FS_EmptySet
      <4>3. Cardinality({q \in Runs : assignment[q] = w}) = 0
        BY <4>1, <4>2, Zenon
      <4> QED
        BY <4>3
    <3> QED
      BY <2>1, <3>1, <3>2 DEF Memory!Chosen
  <2> QED
    BY <2>1, <2>2, <2>3, <2>4, <1>0 DEF Memory!Port!Grant, Memory!Port!Leased, Memory!Port!Load
<1>2. ASSUME NEW r \in Runs, Memory!ReleaseRun(r)
      PROVE  Memory!Port!Revoke(r)
  BY <1>2 DEF Memory!ReleaseRun, Memory!Retire, Memory!TimerCleared, Memory!Port!Revoke
<1>3. ASSUME NEW w \in Memory!Workers, Memory!IdleTimerFires(w)
      PROVE  Memory!Port!Close(w) \/ UNCHANGED <<assignment, Memory!Closed>>
  BY <1>3 DEF Memory!IdleTimerFires, Memory!StopWorkerIfIdle, Memory!Port!Close
<1>4. ASSUME NEW w \in Memory!Workers, Memory!MarkWorkerUnavailable(w)
      PROVE  Memory!Port!Close(w)
  BY <1>4 DEF Memory!MarkWorkerUnavailable, Memory!StopWorkerIfIdle, Memory!Port!Close
<1>5. CASE UNCHANGED Memory!vars
  BY <1>5 DEF Memory!vars, Memory!LeaseStep
<1> QED
  BY <1>1, <1>2, <1>3, <1>4, <1>5 DEF Memory!Next, Memory!LeaseStep, Memory!Port!Next

\* The limits follow from the contract: a lease is given below both, and nothing
\* else adds to the leased runs or to the runs of a worker.
LeasesWithinLimits ==
  /\ Cardinality({r \in Runs : assignment[r] # None}) <= MaxTotalSessions
  /\ \A w \in Memory!Workers : Cardinality({r \in Runs : assignment[r] = w}) <= MaxSessionsPerWorker

LEMMA MemoryLimits ==
  ASSUME MemoryConstants
  PROVE  /\ Memory!Init => LeasesWithinLimits
         /\ MemoryInv /\ LeasesWithinLimits /\ Memory!LeaseStep => LeasesWithinLimits'
         /\ MemoryInv /\ LeasesWithinLimits => Memory!CapacityRespected
<1>0. \A S : Memory!Port!Cardinality(S) = Memory!Cardinality(S) /\ Memory!Cardinality(S) = Cardinality(S)
  BY DEF Memory!Port!Cardinality, Memory!Port!IsFiniteSet, Memory!Cardinality, Memory!IsFiniteSet,
     Cardinality, IsFiniteSet
<1>1. \A S \in SUBSET Runs : IsFiniteSet(S) /\ Cardinality(S) \in Nat
  BY FS_Subset, FS_CardinalityType DEF MemoryConstants
<1>2. \A S, T \in SUBSET Runs : S \subseteq T => Cardinality(S) <= Cardinality(T)
  BY <1>1, FS_Subset
<1>3. ASSUME Memory!Init
      PROVE  LeasesWithinLimits
  <2>1. \A r \in Runs : assignment[r] = None
    BY <1>3 DEF Memory!Init
  <2>2. {r \in Runs : assignment[r] # None} = {}
    BY <2>1
  <2>3. \A w \in Memory!Workers : {r \in Runs : assignment[r] = w} = {}
    BY <2>1 DEF MemoryConstants, Memory!Workers
  <2> QED
    BY <2>2, <2>3, FS_EmptySet DEF LeasesWithinLimits, MemoryConstants
<1>4. ASSUME MemoryInv, LeasesWithinLimits, NEW r \in Runs, NEW w \in Memory!Workers, Memory!Port!Grant(r, w)
      PROVE  LeasesWithinLimits'
  <2> DEFINE leased == {q \in Runs : assignment[q] # None}
             load(v) == {q \in Runs : assignment[q] = v}
  <2>1. /\ assignment[r] = None /\ assignment' = [assignment EXCEPT ![r] = w] /\ w # None
        /\ assignment \in [Runs -> Memory!Workers \cup {None}]
        /\ Cardinality(leased) < MaxTotalSessions /\ Cardinality(load(w)) < MaxSessionsPerWorker
    BY <1>0, <1>4 DEF Memory!Port!Grant, Memory!Port!Leased, Memory!Port!Load, MemoryConstants, MemoryInv,
       Memory!TypeOK, Memory!Workers
  <2>2. {q \in Runs : assignment'[q] # None} = leased \cup {r}
    BY <2>1
  <2>3. \A v \in Memory!Workers : {q \in Runs : assignment'[q] = v} = IF v = w THEN load(w) \cup {r} ELSE load(v)
    <3>1. \A q \in Runs : assignment'[q] = IF q = r THEN w ELSE assignment[q]
      BY <2>1
    <3>2. {q \in Runs : assignment'[q] = w} = load(w) \cup {r}
      BY <3>1
    <3>3. \A v \in Memory!Workers \ {w} : {q \in Runs : assignment'[q] = v} = load(v)
      BY <2>1, <3>1 DEF MemoryConstants, Memory!Workers
    <3> QED
      BY <3>2, <3>3
  <2>4. leased \in SUBSET Runs /\ \A v : load(v) \in SUBSET Runs
    OBVIOUS
  <2>5. ASSUME NEW S \in SUBSET Runs, NEW n \in Nat, Cardinality(S) < n
        PROVE  Cardinality(S \cup {r}) <= n
    <3>1. Cardinality(S) \in Nat /\ Cardinality(S \cup {r}) \in {Cardinality(S), Cardinality(S) + 1}
      BY <1>1, FS_AddElement
    <3> QED
      BY <2>5, <3>1
  <2> HIDE DEF leased, load
  <2>6. Cardinality(leased \cup {r}) <= MaxTotalSessions
    BY <2>1, <2>4, <2>5 DEF MemoryConstants
  <2>7. Cardinality(load(w) \cup {r}) <= MaxSessionsPerWorker
    BY <2>1, <2>4, <2>5 DEF MemoryConstants
  <2>8. \A v \in Memory!Workers : Cardinality(load(v)) <= MaxSessionsPerWorker
    BY <1>4 DEF LeasesWithinLimits, load
  <2> QED
    BY <2>2, <2>3, <2>6, <2>7, <2>8 DEF LeasesWithinLimits
<1>5. ASSUME MemoryInv, LeasesWithinLimits, \A q \in Runs : assignment'[q] \in {assignment[q], None}
      PROVE  LeasesWithinLimits'
  <2>1. None \notin Memory!Workers
    BY DEF MemoryConstants, Memory!Workers
  <2>2. Cardinality({q \in Runs : assignment'[q] # None}) <= Cardinality({q \in Runs : assignment[q] # None})
    BY <1>2, <1>5
  <2>3. \A v \in Memory!Workers :
          Cardinality({q \in Runs : assignment'[q] = v}) <= Cardinality({q \in Runs : assignment[q] = v})
    BY <1>2, <1>5, <2>1
  <2>4. \A S \in SUBSET Runs : Cardinality(S) \in Nat
    BY <1>1
  <2>5. /\ Cardinality({q \in Runs : assignment[q] # None}) \in Nat
        /\ Cardinality({q \in Runs : assignment'[q] # None}) \in Nat
        /\ \A v : Cardinality({q \in Runs : assignment[q] = v}) \in Nat
        /\ \A v : Cardinality({q \in Runs : assignment'[q] = v}) \in Nat
    BY <2>4
  <2>6. \A x, y \in Nat, z \in Nat : x <= y /\ y <= z => x <= z
    OBVIOUS
  <2>7. Cardinality({q \in Runs : assignment'[q] # None}) <= MaxTotalSessions
    BY <1>5, <2>2, <2>5, <2>6 DEF LeasesWithinLimits, MemoryConstants
  <2>8. ASSUME NEW v \in Memory!Workers
        PROVE  Cardinality({q \in Runs : assignment'[q] = v}) <= MaxSessionsPerWorker
    <3>1. Cardinality({q \in Runs : assignment[q] = v}) <= MaxSessionsPerWorker
      BY <1>5 DEF LeasesWithinLimits
    <3> DEFINE before == Cardinality({q \in Runs : assignment[q] = v})
               after == Cardinality({q \in Runs : assignment'[q] = v})
    <3>2. after \in Nat /\ before \in Nat /\ after <= before /\ before <= MaxSessionsPerWorker
      BY <2>3, <2>5, <3>1
    <3> HIDE DEF before, after
    <3>3. after <= MaxSessionsPerWorker
      BY <3>2 DEF MemoryConstants
    <3> QED
      BY <3>3 DEF after
  <2> QED
    BY <2>7, <2>8 DEF LeasesWithinLimits, Memory!Workers
<1>6. ASSUME MemoryInv, LeasesWithinLimits, Memory!LeaseStep
      PROVE  LeasesWithinLimits'
  <2>1. CASE \E r \in Runs, w \in Memory!Workers : Memory!Port!Grant(r, w)
    BY <1>4, <1>6, <2>1
  <2>2. CASE \E r \in Runs : Memory!Port!Revoke(r)
    BY <1>5, <1>6, <2>2 DEF Memory!Port!Revoke, MemoryInv, Memory!TypeOK
  <2>3. CASE assignment' = assignment
    BY <1>5, <1>6, <2>3
  <2> QED
    BY <1>6, <2>1, <2>2, <2>3 DEF Memory!LeaseStep, Memory!Port!Next, Memory!Port!Close
<1>7. ASSUME MemoryInv, LeasesWithinLimits
      PROVE  Memory!CapacityRespected
  <2>1. \A w \in Memory!Workers : assignedRuns[w] \subseteq {r \in Runs : assignment[r] = w}
    BY <1>7 DEF MemoryInv, Memory!TypeOK, Memory!LeasedWorkersTracked
  <2>2. ASSUME NEW w \in Memory!Workers
        PROVE  Cardinality(assignedRuns[w]) <= MaxSessionsPerWorker
    <3> DEFINE mine == assignedRuns[w]
               load == {r \in Runs : assignment[r] = w}
    <3>1. mine \in SUBSET Runs /\ load \in SUBSET Runs /\ mine \subseteq load
      BY <1>7, <2>1 DEF MemoryInv, Memory!TypeOK
    <3>2. Cardinality(load) <= MaxSessionsPerWorker
      BY <1>7 DEF LeasesWithinLimits
    <3> HIDE DEF mine, load
    <3>3. Cardinality(mine) <= Cardinality(load) /\ Cardinality(mine) \in Nat /\ Cardinality(load) \in Nat
      BY <1>1, <1>2, <3>1
    <3>4. Cardinality(mine) <= MaxSessionsPerWorker
      BY <3>2, <3>3 DEF MemoryConstants
    <3> QED
      BY <3>4 DEF mine
  <2> QED
    BY <1>0, <1>7, <2>2 DEF Memory!CapacityRespected, Memory!Assigned, LeasesWithinLimits
<1> QED
  BY <1>3, <1>6, <1>7

\* The in-memory allocator keeps every leased worker through idle timers and
\* quarantines and neither limit is exceeded; each of its calls is a step of the
\* lease contract of the port (assignRun, releaseRun, markWorkerUnavailable, the
\* idle timer).
THEOREM MemoryKeepsLeases == Spec => LeasesKept
<1> USE ServicesAssumption
<1> DEFINE Held == part = "memory" => MemoryInv /\ LeasesWithinLimits
           Leases == part = "memory" => Memory!LeaseStep
           Tracked == part = "memory" => Memory!LeasedWorkersTracked /\ Memory!CapacityRespected
<1>1. Init => Held
  BY MemoryInit, MemoryLimits DEF Init
<1>2. Held /\ [Next]_vars => Held'
  BY MemoryPart, MemoryStep, MemoryLeaseStep, MemoryLimits
<1>3. Held /\ [Next]_vars => [Leases]_vars
  BY MemoryPart, MemoryLeaseStep
<1>4. Held => Tracked
  BY MemoryLimits DEF MemoryInv
<1> HIDE DEF Held, Leases, Tracked
<1>5. Spec => []Tracked /\ [][Leases]_vars
  BY <1>1, <1>2, <1>3, <1>4, PTL DEF Spec
<1> QED
  BY <1>5 DEF LeasesKept, Leases, Tracked

-----------------------------------------------------------------------------
(* Connections: the driver and the map of the session service *)

\* While a promise is stored nothing is cached, and no other attempt runs.
OneAttempt ==
  /\ stored # None => cached = 0
  /\ \A p \in Callers : attempt[p] # 0 => stored = p

\* Connections are numbered as they are made, and who awaits, awaits a caller.
ConnectionsNumbered ==
  /\ up \cup unheard \subseteq 1..made
  /\ \A c \in Callers : pc[c] = "awaiting" => awaits[c] \in Callers

ConnectionsInv ==
  /\ Connections!TypeOK /\ Connections!OpenConnectionsAreCached /\ Connections!StoredPromisesRun
  /\ OneAttempt /\ ConnectionsNumbered

\* A step of the composition is a step of the connections, or not this part.
LEMMA ConnectionsPart ==
  [Next]_vars => part' = part /\ (part = "connections" => [Connections!Next]_(Connections!vars))
  BY DEF Next, Rest, vars, OfConnections, Connections!vars

LEMMA ConnectionsInit ==
  ASSUME ConnectionsConstants, Connections!Init
  PROVE  ConnectionsInv
  BY DEF ConnectionsConstants, Connections!Init, ConnectionsInv, Connections!TypeOK, OneAttempt,
     Connections!OpenConnectionsAreCached, Connections!StoredPromisesRun, ConnectionsNumbered,
     Connections!Connections

LEMMA ConnectionsStep ==
  ASSUME ConnectionsConstants, ConnectionsInv, [Connections!Next]_(Connections!vars)
  PROVE  ConnectionsInv'
<1> USE DEF ConnectionsConstants, ConnectionsInv, Connections!TypeOK, OneAttempt,
          Connections!OpenConnectionsAreCached, Connections!StoredPromisesRun, ConnectionsNumbered,
          Connections!Connections
<1>1. ASSUME NEW c \in Callers, Connections!Reuse(c)
      PROVE  ConnectionsInv'
  BY <1>1 DEF Connections!Reuse
<1>2. ASSUME NEW c \in Callers, Connections!Connect(c)
      PROVE  ConnectionsInv'
  BY <1>2 DEF Connections!Connect, Connections!Joined
<1>3. ASSUME NEW p \in Callers, Connections!Connected(p)
      PROVE  ConnectionsInv'
  BY <1>3 DEF Connections!Connected, Connections!Settle, Connections!Awaiting
<1>4. ASSUME NEW p \in Callers, Connections!AttemptFails(p)
      PROVE  ConnectionsInv'
  BY <1>4 DEF Connections!AttemptFails, Connections!Settle, Connections!Awaiting
<1>5. ASSUME NEW n \in Connections!Connections, Connections!Drops(n)
      PROVE  ConnectionsInv'
  BY <1>5 DEF Connections!Drops
<1>6. ASSUME NEW n \in Connections!Connections, Connections!Disconnected(n)
      PROVE  ConnectionsInv'
  BY <1>6 DEF Connections!Disconnected, Connections!CachedAfter
<1>7. ASSUME NEW r \in Releasers, Connections!Release(r)
      PROVE  ConnectionsInv'
  BY <1>7 DEF Connections!Release
<1>8. ASSUME NEW r \in Releasers, Connections!Closed(r)
      PROVE  ConnectionsInv'
  <2> DEFINE n == closing[r]
  <2>1. /\ rc' = [rc EXCEPT ![r] = "done"]
        /\ cached' = IF cached = n THEN 0 ELSE cached
        /\ UNCHANGED <<made, known, attempt, stored, awaits, pc, got, closing>>
    BY <1>8 DEF Connections!Closed
  <2>2. CASE up' = up \ {n} /\ unheard' = unheard \cup ({n} \cap up) /\ UNCHANGED leaked
    <3>1. up' \subseteq 1..made /\ unheard' \subseteq 1..made /\ up' \cap unheard' = {}
      BY <2>2
    <3>2. up' \subseteq {cached'} \cup leaked'
      BY <2>1, <2>2
    <3> QED
      BY <2>1, <2>2, <3>1, <3>2
  <2>3. CASE leaked' = leaked \cup ({n} \cap up) /\ UNCHANGED <<up, unheard>>
    <3>1. up' \subseteq {cached'} \cup leaked' /\ leaked' \subseteq Connections!Connections
      BY <2>1, <2>3
    <3>2. cached' \in 0..MaxMade /\ (stored # None => cached' = 0)
      BY <2>1
    <3>3. rc' \in [Releasers -> {"idle", "closing", "done"}]
      BY <2>1
    <3> QED
      BY <2>1, <2>3, <3>1, <3>2, <3>3
  <2> QED
    BY <1>8, <2>2, <2>3 DEF Connections!Closed
<1>9. CASE UNCHANGED Connections!vars
  BY <1>9 DEF Connections!vars
<1> QED
  BY <1>1, <1>2, <1>3, <1>4, <1>5, <1>6, <1>7, <1>8, <1>9 DEF Connections!Next

\* Callers that share a connection attempt, dropped sockets, late 'disconnected'
\* events and releases leave no open connection that the driver has lost track
\* of, but one whose close failed, and no caller joins a settled promise.
THEOREM ConnectionsAreTracked == Spec => []ConnectionsTracked
<1> USE ServicesAssumption
<1> DEFINE Held == part = "connections" => ConnectionsInv
<1>1. Init => Held
  BY ConnectionsInit DEF Init
<1>2. Held /\ [Next]_vars => Held'
  BY ConnectionsPart, ConnectionsStep
<1>3. Held => ConnectionsTracked
  BY DEF ConnectionsInv, ConnectionsTracked
<1> HIDE DEF Held
<1> QED
  BY <1>1, <1>2, <1>3, PTL DEF Spec

-----------------------------------------------------------------------------
(* Start-up: reconciliation of the tasks that dead processes left *)

\* A process that started is an owner of its own.
OwnersStarted ==
  /\ \A t \in Tasks : task[t].owner <= starts
  /\ \A i \in Instances : owner[i] <= starts /\ (Start!Serving(i) => owner[i] # 0)

\* t runs or ran, and neither process i nor another service started it.
LeftBehind(i, t) ==
  task[t].state \in {"live", "stopped"} /\ task[t].owner \notin {0, owner[i]}

\* What the reconciliation of i looks at, and what it must not miss.
Reconciling ==
  \A i \in Instances :
    /\ Start!Serving(i) => \A t \in orphans[i] : LeftBehind(i, t)
    /\ phase[i] = "stopping" => \A t \in listed[i] : LeftBehind(i, t)
    /\ phase[i] = "describing" \/ (phase[i] = "stopping" /\ ~refused[i]) =>
         \A t \in orphans[i] : Start!Live(t) => t \in listed[i]

StartInv ==
  /\ Start!TypeOK /\ Start!ReadyMeansClean /\ Start!OwnTasksSurvive
  /\ OwnersStarted /\ Reconciling
  /\ \A t \in Tasks : stoppedBy[t] # 0 => task[t].state = "stopped"

\* A step of the composition is a step of the instances, or not this part.
LEMMA StartPart ==
  [Next]_vars => part' = part /\ (part = "start" => [Start!Next]_(Start!vars))
  BY DEF Next, Rest, vars, OfStart, Start!vars

LEMMA StartInit ==
  ASSUME StartConstants, Start!Init
  PROVE  StartInv
  BY DEF StartConstants, Start!Init, StartInv, Start!TypeOK, Start!ReadyMeansClean,
     Start!OwnTasksSurvive, OwnersStarted, Reconciling, LeftBehind, Start!Serving, Start!Live,
     Start!Foreign, Start!Phases

LEMMA StartStep ==
  ASSUME StartConstants, StartInv, [Start!Next]_(Start!vars)
  PROVE  StartInv'
<1> USE DEF StartConstants, StartInv, Start!TypeOK, Start!ReadyMeansClean,
          Start!OwnTasksSurvive, OwnersStarted, Reconciling, LeftBehind, Start!Serving, Start!Live,
          Start!Foreign, Start!Phases
<1> DEFINE TaskRecords == [state : {"none", "asked", "live", "stopped"}, owner : 0..MaxStarts]
<1>1. ASSUME NEW i \in Instances, Start!Start(i)
      PROVE  StartInv'
  BY <1>1 DEF Start!Start, Start!OwnerAlive
<1>2. ASSUME NEW i \in Instances, NEW t \in Tasks, Start!RunTask(i, t)
      PROVE  StartInv'
  BY <1>2 DEF Start!RunTask
<1>3. ASSUME NEW t \in Tasks, Start!TaskAppears(t)
      PROVE  StartInv'
  <2>1. PICK s \in {"live", "none"} : task' = [task EXCEPT ![t].state = s]
    BY <1>3 DEF Start!TaskAppears
  <2>2. task[t].state = "asked"
        /\ UNCHANGED <<starts, phase, owner, listed, orphans, refused, stoppedBy>>
    BY <1>3 DEF Start!TaskAppears
  <2>3. task'[t].state = s /\ task'[t].owner = task[t].owner
        /\ \A u \in Tasks \ {t} : task'[u] = task[u]
    BY <2>1
  <2>4. Start!TypeOK'
    <3>1. task' \in [Tasks -> TaskRecords]
      BY <2>1
    <3> QED
      BY <2>2, <3>1
  <2>5. OwnersStarted'
    BY <2>2, <2>3
  <2>6. Reconciling'
    <3>1. \A j \in Instances, u \in Tasks : LeftBehind(j, u) => u # t /\ LeftBehind(j, u)'
      BY <2>2, <2>3
    <3>2. \A j \in Instances : Start!Serving(j) => t \notin orphans[j]
      BY <2>2
    <3>3. \A u \in Tasks \ {t} : Start!Live(u)' = Start!Live(u)
      BY <2>3
    <3> SUFFICES ASSUME NEW j \in Instances
                 PROVE  /\ Start!Serving(j) => \A u \in orphans[j] : LeftBehind(j, u)'
                        /\ phase[j] = "stopping" => \A u \in listed[j] : LeftBehind(j, u)'
                        /\ phase[j] = "describing" \/ (phase[j] = "stopping" /\ ~refused[j]) =>
                             \A u \in orphans[j] : Start!Live(u)' => u \in listed[j]
      BY <2>2
    <3>4. Start!Serving(j) => \A u \in orphans[j] : LeftBehind(j, u)'
      BY <3>1
    <3>5. phase[j] = "stopping" => \A u \in listed[j] : LeftBehind(j, u)'
      BY <3>1
    <3>6. phase[j] = "describing" \/ (phase[j] = "stopping" /\ ~refused[j]) =>
            \A u \in orphans[j] : Start!Live(u)' => u \in listed[j]
      BY <3>2, <3>3
    <3> QED
      BY <3>4, <3>5, <3>6
  <2>7. Start!ReadyMeansClean'
    BY <2>2, <2>3
  <2>8. ASSUME NEW u \in Tasks, stoppedBy'[u] # 0
        PROVE  task'[u].state = "stopped" /\ task'[u].owner \notin {0, stoppedBy'[u]}
    <3>1. task[u].state = "stopped" /\ task[u].owner \notin {0, stoppedBy[u]}
      BY <2>2, <2>8
    <3>2. u # t
      BY <2>2, <3>1
    <3> QED
      BY <2>2, <2>3, <3>1, <3>2
  <2>9. Start!OwnTasksSurvive' /\ \A u \in Tasks : stoppedBy'[u] # 0 => task'[u].state = "stopped"
    BY <2>8
  <2> HIDE DEF Start!TypeOK, Start!ReadyMeansClean, Start!OwnTasksSurvive, OwnersStarted, Reconciling
  <2> QED
    BY <2>4, <2>5, <2>6, <2>7, <2>9
<1>4. ASSUME NEW i \in Instances, Start!ListTasks(i)
      PROVE  StartInv'
  BY <1>4 DEF Start!ListTasks
<1>5. ASSUME NEW i \in Instances, Start!DescribeTasks(i)
      PROVE  StartInv'
  BY <1>5 DEF Start!DescribeTasks, Start!ToStop
<1>6. ASSUME NEW i \in Instances, Start!ReconcileFails(i)
      PROVE  StartInv'
  BY <1>6 DEF Start!ReconcileFails
<1>7. ASSUME NEW i \in Instances, NEW t \in Tasks, Start!StopTask(i, t)
      PROVE  StartInv'
  <2>1. /\ phase[i] = "stopping" /\ t \in listed[i]
        /\ listed' = [listed EXCEPT ![i] = @ \ {t}]
        /\ UNCHANGED <<starts, phase, owner, orphans>>
    BY <1>7 DEF Start!StopTask
  <2>2. LeftBehind(i, t)
    BY <2>1
  <2>3. CASE refused' = [refused EXCEPT ![i] = TRUE] /\ UNCHANGED <<task, stoppedBy>>
    BY <2>1, <2>3
  <2>4. CASE UNCHANGED refused /\ task' = [task EXCEPT ![t].state = "stopped"]
             /\ stoppedBy' \in {stoppedBy, [stoppedBy EXCEPT ![t] = owner[i]]}
    <3>1. task'[t].state = "stopped" /\ task'[t].owner = task[t].owner
          /\ \A u \in Tasks \ {t} : task'[u] = task[u]
      BY <2>4
    <3>2. stoppedBy'[t] \in {stoppedBy[t], owner[i]}
          /\ \A u \in Tasks \ {t} : stoppedBy'[u] = stoppedBy[u]
      BY <2>4
    <3>3. Start!TypeOK'
      <4>1. task' \in [Tasks -> TaskRecords]
        BY <2>4
      <4>2. stoppedBy' \in [Tasks -> 0..MaxStarts]
        BY <2>4
      <4>3. listed' \in [Instances -> SUBSET Tasks]
        BY <2>1
      <4> QED
        BY <2>1, <2>4, <4>1, <4>2, <4>3
    <3>4. OwnersStarted'
      BY <2>1, <3>1
    <3>5. Reconciling'
      BY <2>1, <2>4, <3>1
    <3>6. Start!ReadyMeansClean'
      BY <2>1, <2>4, <3>1
    <3>7. Start!OwnTasksSurvive' /\ \A u \in Tasks : stoppedBy'[u] # 0 => task'[u].state = "stopped"
      BY <2>2, <3>1, <3>2
    <3> QED
      BY <3>3, <3>4, <3>5, <3>6, <3>7
  <2> QED
    BY <1>7, <2>3, <2>4 DEF Start!StopTask
<1>8. ASSUME NEW i \in Instances, Start!Ready(i)
      PROVE  StartInv'
  BY <1>8 DEF Start!Ready, Start!Awaited
<1>9. ASSUME NEW i \in Instances, Start!Crash(i)
      PROVE  StartInv'
  BY <1>9 DEF Start!Crash
<1>10. CASE UNCHANGED Start!vars
  BY <1>10 DEF Start!vars
<1> QED
  BY <1>1, <1>2, <1>3, <1>4, <1>5, <1>6, <1>7, <1>8, <1>9, <1>10 DEF Start!Next

\* However instances start, crash and serve requests while they reconcile, none
\* stops a task it started itself or one of another service, and one that is
\* ready and was refused no StopTask has stopped every task it found orphaned.
THEOREM OrphansOnlyAreStopped == Spec => []OnlyOrphansStopped
<1> USE ServicesAssumption
<1> DEFINE Held == part = "start" => StartInv
<1>1. Init => Held
  BY StartInit DEF Init
<1>2. Held /\ [Next]_vars => Held'
  BY StartPart, StartStep
<1>3. Held => OnlyOrphansStopped
  BY DEF StartInv, OnlyOrphansStopped
<1> HIDE DEF Held
<1> QED
  BY <1>1, <1>2, <1>3, PTL DEF Spec
=============================================================================
