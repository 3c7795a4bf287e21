-------------------------- MODULE BrowserlessLeases --------------------------
(***************************************************************************)
(* What an allocator behind the IBrowserlessAllocator port promises        *)
(* (src/core/ports/browserless-allocator.port.ts, docs/operations/         *)
(* browserless.md): a run leases at most one slot, limits are respected,   *)
(* and a worker closed to new runs stays closed.  Queues, timers, ECS      *)
(* calls and endpoints are details of an implementation.                   *)
(***************************************************************************)
EXTENDS Naturals, FiniteSets

CONSTANTS Runs, Workers, None, MaxSessionsPerWorker, MaxTotalSessions

VARIABLES
  lease,   \* the worker each run is pinned to, or None
  closed   \* workers quarantined or stopped

Init == lease = [r \in Runs |-> None] /\ closed = {}

Leased == {r \in Runs : lease[r] # None}
Load(w) == {r \in Runs : lease[r] = w}

\* assignRun of a run without a lease.
Grant(r, w) ==
  /\ lease[r] = None
  /\ w \notin closed
  /\ Cardinality(Leased) < MaxTotalSessions
  /\ Cardinality(Load(w)) < MaxSessionsPerWorker
  /\ lease' = [lease EXCEPT ![r] = w]
  /\ UNCHANGED closed

\* releaseRun; without a grace period the worker may go with its last run.
Revoke(r) ==
  /\ lease[r] # None
  /\ lease' = [lease EXCEPT ![r] = None]
  /\ closed' \in {closed, closed \cup {lease[r]}}

\* markWorkerUnavailable, a failed readiness wait, or a stopped worker.
Close(w) ==
  /\ closed' = closed \cup {w}
  /\ UNCHANGED lease

Next ==
  \/ \E r \in Runs, w \in Workers : Grant(r, w)
  \/ \E r \in Runs : Revoke(r)
  \/ \E w \in Workers : Close(w)

Spec == Init /\ [][Next]_<<lease, closed>>
=============================================================================
