---------------------------- MODULE RunLifecycle ----------------------------
(***************************************************************************)
(* The life of a run's session as a caller sees it (the state machine of   *)
(* docs/architecture/overview.md, over the sessions that                   *)
(* src/api/context/browser.context.ts registers).  Requests, locks, pages  *)
(* and awaits are details of the implementation.                           *)
(***************************************************************************)
CONSTANTS
  Runs,
  Browserless   \* whether an open session needs a worker lease

VARIABLES
  phase,   \* "absent", "creating", "active" or "degraded", for each run
  lease    \* the runs that hold a worker lease

Init == phase = [r \in Runs |-> "absent"] /\ lease = {}

Move(r, from, to) == phase[r] \in from /\ phase' = [phase EXCEPT ![r] = to]

\* The session is registered, with its lease; no runtime yet.
Create(r) ==
  /\ Move(r, {"absent"}, "creating")
  /\ lease' = IF Browserless THEN lease \cup {r} ELSE lease

Activate(r) == Move(r, {"creating"}, "active") /\ UNCHANGED lease

\* A lost local browser is launched again for the same session.
Relaunch(r) == ~Browserless /\ Move(r, {"active"}, "creating") /\ UNCHANGED lease

\* A lost remote browser is final.
Degrade(r) == Browserless /\ Move(r, {"active"}, "degraded") /\ UNCHANGED lease

\* Close, expiry, an unsupported flow, or the rollback of a failed creation.
End(r) == Move(r, {"creating", "active", "degraded"}, "absent") /\ lease' = lease \ {r}

Next == \E r \in Runs : Create(r) \/ Activate(r) \/ Relaunch(r) \/ Degrade(r) \/ End(r)

Spec == Init /\ [][Next]_<<phase, lease>>
=============================================================================
