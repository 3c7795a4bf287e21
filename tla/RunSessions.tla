----------------------------- MODULE RunSessions -----------------------------
(***************************************************************************)
(* Run-owned browser sessions (src/api/context/browser.context.ts).        *)
(*                                                                         *)
(* HTTP requests create, use and close the session of a run; a timer       *)
(* sweeps expired sessions.  A promise chain per profile and run           *)
(* (withRunLock) serialises them.  A step of this module is the code       *)
(* between two awaits of one request.  Sessions are objects: a request     *)
(* keeps its reference while it awaits, whatever the registry then holds.  *)
(* Chrome, the remote browser and the allocator are external: they answer  *)
(* an await in any way they can.                                           *)
(***************************************************************************)
EXTENDS Naturals, Sequences, FiniteSets

CONSTANTS
  Profiles,     \* configured profiles; all have the same provider
  Runs,         \* run ids
  Callers,      \* HTTP requests that can be in progress at once
  Sweepers,     \* candidates that expiry sweeps can be working on at once
  MaxSessions,  \* bound: session objects alive at once
  Targets,      \* ids of pages
  Keys,         \* idempotency keys
  Provider,     \* "local" or "browserless"
  MaxActive,    \* the lower of GLOBAL_MAX_SESSIONS and the provider's limit
  Timeouts,     \* expiry reasons switched on: "degraded", "lifetime", "idle"
  None

ASSUME SessionsAssumption ==
  /\ Provider \in {"local", "browserless"}
  /\ MaxActive \in Nat \ {0} /\ MaxSessions \in Nat
  /\ Timeouts \subseteq {"degraded", "lifetime", "idle"}
  /\ Callers \cap Sweepers = {}
  /\ None \notin Targets \cup Keys \cup Runs \cup Profiles \cup (1..MaxSessions)

Requests == Callers \cup Sweepers
Sessions == 1..MaxSessions
Locks == Profiles \X Runs
Browserless == Provider = "browserless"

VARIABLES
  runSessions,   \* state().runSessions: run -> session
  session,       \* the session objects
  targetOwners,  \* state().targetOwners: target -> run
  idempotency,   \* createIdempotencyResults: profile, run, key -> target
  runLocks,      \* requests queued on each run lock, the holder first
  req,           \* what each request is doing
  leased,        \* runs with an allocator assignment
  chrome,        \* sessions whose local Chrome process lives (external)
  home           \* the session whose browser shows each page (external)

vars == <<runSessions, session, targetOwners, idempotency, runLocks, req, leased, chrome, home>>

NoSession == [run |-> None, profile |-> None, runtime |-> FALSE, target |-> None,
              degraded |-> FALSE, expired |-> {}, closed |-> FALSE]

NoRequest == [pc |-> "ok", op |-> "none", profile |-> None, run |-> None, arg |-> None,
              s |-> None, target |-> None, created |-> FALSE, retried |-> FALSE]

TabOps == {"target", "current", "new"}

PcStates == {"ok", "error", "scanned", "queued", "assigning", "checking", "recycling",
             "launching", "readying", "connecting", "quarantining", "creating", "listing",
             "focusing", "closing", "releasing"}

TypeOK ==
  /\ runSessions \in [Runs -> Sessions \cup {None}]
  /\ session \in [Sessions -> [run : Runs \cup {None}, profile : Profiles \cup {None},
       runtime : BOOLEAN, target : Targets \cup {None}, degraded : BOOLEAN,
       expired : SUBSET Timeouts, closed : BOOLEAN]]
  /\ targetOwners \in [Targets -> Runs \cup {None}]
  /\ idempotency \in [Locks \X Keys -> Targets \cup {None}]
  /\ runLocks \in [Locks -> Seq(Requests)]
  /\ req \in [Requests -> [pc : PcStates, op : TabOps \cup {"none", "create", "close", "sweep"},
       profile : Profiles \cup {None}, run : Runs \cup {None},
       arg : Targets \cup Keys \cup Timeouts \cup {None}, s : Sessions \cup {None},
       target : Targets \cup {None}, created : BOOLEAN, retried : BOOLEAN]]
  /\ leased \subseteq Runs
  /\ chrome \subseteq Sessions
  /\ home \in [Targets -> Sessions \cup {None}]

Init ==
  /\ runSessions = [r \in Runs |-> None]
  /\ session = [s \in Sessions |-> NoSession]
  /\ targetOwners = [t \in Targets |-> None]
  /\ idempotency = [k \in Locks \X Keys |-> None]
  /\ runLocks = [l \in Locks |-> <<>>]
  /\ req = [q \in Requests |-> NoRequest]
  /\ leased = {} /\ chrome = {}
  /\ home = [t \in Targets |-> None]

-----------------------------------------------------------------------------
(* Helpers *)

Idle(q) == req[q].pc \in {"ok", "error"}
LockOf(q) == <<req[q].profile, req[q].run>>
Registered(q) == runSessions[req[q].run]

\* The run has a session, of the request's profile.
Bound(q) == Registered(q) # None /\ session[Registered(q)].profile = req[q].profile

\* Mutant: an operation does not wait for the one before it.
MyTurnUnlocked(q) == req[q].pc = "queued"

\* withRunLock: q joins the chain, holds the lock once it is first, leaves it.
MyTurn(q) == req[q].pc = "queued" /\ Head(runLocks[LockOf(q)]) = q
Unlock(q) == runLocks' = [runLocks EXCEPT ![LockOf(q)] = Tail(@)]

\* The request goes on to await the next answer.
Await(q, state) == req' = [req EXCEPT ![q].pc = state] /\ UNCHANGED runLocks

\* The request ends and lets the next one in.  The session object it worked on
\* is collected when neither the registry nor another request refers to it.
Collect(q, objects) ==
  session' = [s \in Sessions |->
    IF s = req[q].s /\ (\A r \in Runs : runSessions'[r] # s)
       /\ (\A p \in Requests \ {q} : req[p].s # s)
    THEN NoSession ELSE objects[s]]

\* Mutant: a finished request does not let the next one in.
AnswerHoldingLock(q, outcome, objects) ==
  /\ req' = [req EXCEPT ![q] = [NoRequest EXCEPT !.pc = outcome]]
  /\ UNCHANGED runLocks
  /\ Collect(q, objects)

Answer(q, outcome, objects) ==
  /\ req' = [req EXCEPT ![q] = [NoRequest EXCEPT !.pc = outcome]]
  /\ Unlock(q)
  /\ Collect(q, objects)

\* ensureTabAvailable runs the operation once more, from the back of the queue,
\* after an error that looks like a refused connection.
Retry(q) ==
  /\ req[q].op \in TabOps /\ ~req[q].retried
  /\ req' = [req EXCEPT ![q].pc = "queued", ![q].s = None, ![q].target = None, ![q].retried = TRUE]
  /\ runLocks' = [runLocks EXCEPT ![LockOf(q)] = Append(Tail(@), q)]
  /\ Collect(q, session)

\* Mutants of Touched: a touch revives a degraded session; it sets the idle mark.
TouchedRevived(s) == [session EXCEPT ![s].expired = @ \ {"idle"}, ![s].degraded = FALSE]
\* touchSession restarts the idle time.
Touched(s) == [session EXCEPT ![s].expired = @ \ {"idle"}]

Register(r, s) == runSessions' = [runSessions EXCEPT ![r] = s]

Disown(t) == targetOwners' = [p \in Targets |-> IF p = t THEN None ELSE targetOwners[p]]

\* Mutant: the keys of a closed session stay.
KeepIdempotency(l) == UNCHANGED idempotency

ClearIdempotency(l) ==
  idempotency' = [k \in Locks \X Keys |-> IF k[1] = l THEN None ELSE idempotency[k]]

Remember(q, t) ==
  idempotency' = IF req[q].arg = None THEN idempotency
                 ELSE [idempotency EXCEPT ![<<LockOf(q), req[q].arg>>] = t]

Fresh(t) ==
  /\ home[t] = None /\ targetOwners[t] = None
  /\ \A s \in Sessions : session[s].target # t
  /\ \A q \in Requests : t \notin {req[q].arg, req[q].target}
  /\ \A k \in Locks \X Keys : idempotency[k] # t

\* Ids that a caller can name.
KnownTargets == {t \in Targets : ~Fresh(t)}

\* The pages of the browser of s close with it.
BrowserCloses(s) == home' = [t \in Targets |-> IF home[t] = s THEN None ELSE home[t]]

\* Every session in the registry with a runtime counts against the limit.
Active(objects) == {r \in Runs : runSessions[r] # None /\ objects[runSessions[r]].runtime}

registry == <<runSessions, targetOwners, idempotency>>
pages == <<chrome, home>>
external == <<leased, chrome, home>>

-----------------------------------------------------------------------------
(* Requests arrive *)

Arrive(q, op, p, r, arg) ==
  /\ Idle(q)
  /\ req' = [req EXCEPT ![q] = [NoRequest EXCEPT !.pc = "queued", !.op = op, !.profile = p,
                                                 !.run = r, !.arg = arg]]
  /\ runLocks' = [runLocks EXCEPT ![<<p, r>>] = Append(@, q)]
  /\ UNCHANGED <<registry, session, external>>

EnsureRunSession(q, p, r) == Arrive(q, "create", p, r, None)

EnsureTabAvailable(q, p, r) ==
  \/ \E t \in KnownTargets : Arrive(q, "target", p, r, t)
  \/ Arrive(q, "current", p, r, None)
  \/ \E k \in Keys \cup {None} : Arrive(q, "new", p, r, k)

CloseRunSession(q, p, r) ==
  \E t \in KnownTargets \cup {None} : Arrive(q, "close", p, r, t)

-----------------------------------------------------------------------------
(* Failures *)

\* Mutant: the rollback forgets the worker's lease.
RollbackKeepsLease(q, objects) ==
  LET s == req[q].s IN
  /\ req[q].created /\ Registered(q) = s
  /\ Disown(session[s].target)
  /\ Register(req[q].run, None)
  /\ ClearIdempotency(<<session[s].profile, req[q].run>>)
  /\ UNCHANGED leased
  /\ Answer(q, "error", [objects EXCEPT ![s].closed = TRUE])

\* ensureRunSession fails after it registered a new session.  The runtime that
\* may have been launched is not released.
Rollback(q, objects) ==
  LET s == req[q].s IN
  /\ req[q].created /\ Registered(q) = s
  /\ Disown(session[s].target)
  /\ Register(req[q].run, None)
  /\ ClearIdempotency(<<session[s].profile, req[q].run>>)
  /\ leased' = leased \ {req[q].run}
  /\ IF Browserless
     THEN Await(q, "releasing") /\ session' = [objects EXCEPT ![s].closed = TRUE]
     ELSE Answer(q, "error", [objects EXCEPT ![s].closed = TRUE])

Fail(q, objects) ==
  \/ Rollback(q, objects)
  \/ /\ ~(req[q].created /\ Registered(q) = req[q].s)
     /\ UNCHANGED <<registry, leased>>
     /\ Answer(q, "error", objects)

\* An await of ensureBrowserRunning was rejected.
Reject(q) == Fail(q, session) \/ (UNCHANGED <<registry, leased>> /\ Retry(q))

\* markBrowserlessSessionDegraded, up to the await of markWorkerUnavailable.
Degrade(q) ==
  LET s == req[q].s IN
  /\ IF session[s].degraded THEN UNCHANGED <<session, runSessions>>
     ELSE session' = [Touched(s) EXCEPT ![s].degraded = TRUE] /\ Register(session[s].run, s)
  /\ Await(q, "quarantining")
  /\ UNCHANGED <<targetOwners, idempotency, leased>>

\* A page operation failed.  A lost remote browser degrades the session; any
\* other refused connection is worth a retry.
PageError(q) ==
  \/ Fail(q, session)
  \/ Browserless /\ Degrade(q)
  \/ ~Browserless /\ UNCHANGED <<registry, leased>> /\ Retry(q)

\* The worker was reported unavailable: throwIfSessionDegraded, or the readiness
\* error, ends the request.
Quarantined(q) ==
  /\ req[q].pc = "quarantining"
  /\ Fail(q, session)
  /\ UNCHANGED pages

-----------------------------------------------------------------------------
(* ensureBrowserRunning: launch, recycle or check the runtime of req[q].s *)

Admit(q, objects) ==
  IF Cardinality(Active(objects)) >= MaxActive THEN Fail(q, objects)
  ELSE Await(q, "launching") /\ session' = objects /\ UNCHANGED <<registry, leased>>

\* The runtime is there.
Proceed(q) ==
  /\ UNCHANGED <<registry, leased>>
  /\ \/ req[q].op = "create" /\ Answer(q, "ok", session)
     \/ req[q].op \in {"target", "current"} /\ Await(q, "listing") /\ UNCHANGED session
     \/ req[q].op = "new" /\ Await(q, "creating") /\ UNCHANGED session

\* isBrowserAvailable and, on Browserless, the probe of the endpoint.
CheckReturns(q) ==
  LET s == req[q].s IN
  /\ req[q].pc = "checking"
  /\ \/ ~session[s].runtime /\ Admit(q, session)
     \/ session[s].runtime /\ (Browserless \/ s \in chrome) /\ Proceed(q)
     \/ session[s].runtime /\ Browserless /\ Degrade(q)
     \/ /\ session[s].runtime /\ ~Browserless
        /\ Await(q, "recycling") /\ UNCHANGED <<session, registry, leased>>
  /\ UNCHANGED pages

\* releaseBrowser has stopped an unavailable local browser.
RecycleReturns(q) ==
  LET s == req[q].s IN
  /\ req[q].pc = "recycling"
  /\ chrome' = chrome \ {s} /\ BrowserCloses(s)
  /\ Admit(q, [session EXCEPT ![s].runtime = FALSE])

LaunchReturns(q) ==
  LET s == req[q].s IN
  /\ req[q].pc = "launching"
  /\ \/ Reject(q) /\ UNCHANGED chrome
     \/ /\ session' = [session EXCEPT ![s].runtime = TRUE]
        /\ IF Browserless
           THEN Await(q, "readying") /\ UNCHANGED chrome
           ELSE Await(q, "connecting") /\ chrome' = chrome \cup {s}
        /\ UNCHANGED <<registry, leased>>
  /\ UNCHANGED home

\* waitForBrowserlessReadiness; a failure is reported to the allocator first.
ReadinessReturns(q) ==
  /\ req[q].pc = "readying"
  /\ \/ Await(q, "quarantining") /\ UNCHANGED session
     \/ Await(q, "connecting") /\ session' = [session EXCEPT ![req[q].s].degraded = FALSE]
  /\ UNCHANGED <<registry, leased, pages>>

ConnectReturns(q) ==
  /\ req[q].pc = "connecting"
  /\ Proceed(q) \/ Reject(q)
  /\ UNCHANGED pages

-----------------------------------------------------------------------------
(* ensureRunSession *)

FreeSession(s) ==
  /\ \A r \in Runs : runSessions[r] # s
  /\ \A q \in Requests : req[q].s # s
  /\ s \notin chrome /\ \A t \in Targets : home[t] # s

\* A new session object; a local one awaits a port, a remote one its worker.
NewSession(q) ==
  \E s \in Sessions :
    /\ FreeSession(s) /\ \A u \in 1..(s - 1) : ~FreeSession(u)
    /\ session' = [session EXCEPT
         ![s] = [NoSession EXCEPT !.run = req[q].run, !.profile = req[q].profile]]
    /\ req' = [req EXCEPT ![q].pc = "assigning", ![q].s = s, ![q].created = TRUE]
    /\ UNCHANGED <<runLocks, registry, leased>>

CreateTurn(q) ==
  LET s == Registered(q) IN
  /\ MyTurn(q) /\ req[q].op = "create"
  /\ \/ s = None /\ NewSession(q)
     \/ s # None /\ (~Bound(q) \/ session[s].degraded) /\ Fail(q, session)
     \/ /\ Bound(q) /\ ~session[s].degraded
        /\ req' = [req EXCEPT ![q].pc = IF Browserless THEN "assigning" ELSE "checking", ![q].s = s]
        /\ session' = IF Browserless THEN session ELSE Touched(s)
        /\ UNCHANGED <<runLocks, registry, leased>>
  /\ UNCHANGED pages

\* The port is reserved, or ensureBrowserlessPinnedWorker has a lease: only now
\* is the session registered.  A failure here is before the try block.
AssignReturns(q) ==
  LET r == req[q].run IN
  /\ req[q].pc = "assigning"
  /\ \/ /\ r \notin leased
        /\ UNCHANGED <<registry, leased>>
        /\ Answer(q, "error", session)
     \/ /\ leased' = IF Browserless THEN leased \cup {r} ELSE leased
        /\ session' = Touched(req[q].s)
        /\ Register(r, req[q].s)
        /\ Await(q, "checking")
        /\ UNCHANGED <<targetOwners, idempotency>>
  /\ UNCHANGED pages

-----------------------------------------------------------------------------
(* ensureTabAvailable *)

Cached(q) ==
  /\ req[q].op = "new" /\ req[q].arg # None
  /\ idempotency[<<LockOf(q), req[q].arg>>] # None

\* A known key is answered from the cache, whatever became of the session.
AnswerFromCache(q) ==
  /\ MyTurn(q) /\ Cached(q)
  /\ UNCHANGED <<registry, external>>
  /\ Answer(q, "ok", session)

RefuseTab(q) ==
  /\ MyTurn(q) /\ req[q].op \in TabOps /\ ~Cached(q) /\ ~Bound(q)
  /\ UNCHANGED <<registry, external>>
  /\ Answer(q, "error", session)

\* ensureBrowserRunning is entered for target t of the registered session s.
EnsureBrowserFor(q, s, t) ==
  IF session[s].degraded THEN Answer(q, "error", Touched(s))
  ELSE /\ req' = [req EXCEPT ![q].pc = "checking", ![q].s = s, ![q].target = t]
       /\ session' = Touched(s)
       /\ UNCHANGED runLocks

TabTurn(q) ==
  LET s == Registered(q)
      t == session[s].target
  IN
  /\ MyTurn(q) /\ req[q].op \in TabOps /\ ~Cached(q) /\ Bound(q)
  /\ UNCHANGED <<runSessions, targetOwners, external>>
  /\ \/ /\ req[q].op = "target"
        /\ IF targetOwners[req[q].arg] \notin {None, req[q].run}
           THEN Answer(q, "error", Touched(s))
           ELSE EnsureBrowserFor(q, s, req[q].arg)
        /\ UNCHANGED idempotency
     \/ /\ req[q].op = "current"
        /\ IF t = None THEN Answer(q, "error", Touched(s)) ELSE EnsureBrowserFor(q, s, t)
        /\ UNCHANGED idempotency
     \/ /\ req[q].op = "new"
        /\ IF t = None THEN EnsureBrowserFor(q, s, None) /\ UNCHANGED idempotency
           ELSE Answer(q, "ok", Touched(s)) /\ Remember(q, t)

\* setActiveTarget; the owner entry of a previous active target stays.
SetActiveTarget(q) ==
  LET s == req[q].s
      t == req[q].target
  IN
  /\ Register(req[q].run, s)
  /\ targetOwners' = [targetOwners EXCEPT ![t] = req[q].run]
  /\ Answer(q, "ok", [Touched(s) EXCEPT ![s].target = t])
  /\ UNCHANGED leased

\* clearOwnedTarget: the active page is gone.
ClearOwnedTarget(q) ==
  LET s == req[q].s IN
  /\ Disown(session[s].target)
  /\ Register(req[q].run, s)
  /\ Answer(q, "error", [Touched(s) EXCEPT ![s].target = None])
  /\ UNCHANGED <<idempotency, leased>>

CreatePageReturns(q) ==
  /\ req[q].pc = "creating"
  /\ \/ PageError(q) /\ UNCHANGED home
     \/ \E t \in Targets :
          /\ Fresh(t)
          /\ home' = [home EXCEPT ![t] = req[q].s]
          /\ req' = [req EXCEPT ![q].pc = "listing", ![q].target = t]
          /\ UNCHANGED <<runLocks, session, registry, leased>>
  /\ UNCHANGED chrome

\* listPages: a second page, unless it is blank, is an unsupported flow that
\* closes the session; the close refuses a target other than the active one.
ListReturns(q) ==
  LET s == req[q].s
      t == req[q].target
  IN
  /\ req[q].pc = "listing"
  /\ \/ PageError(q)
     \/ /\ \E u \in Targets \ {t} : home[u] = s
        /\ IF session[s].target \notin {None, t} THEN Fail(q, session)
           ELSE Await(q, "closing") /\ UNCHANGED <<session, registry, leased>>
     \/ /\ req[q].op \in {"target", "current"} /\ home[t] = s
        /\ Await(q, "focusing") /\ UNCHANGED <<session, registry, leased>>
     \/ req[q].op = "target" /\ home[t] # s /\ Fail(q, session)
     \/ req[q].op = "current" /\ home[t] # s /\ ClearOwnedTarget(q)
     \/ req[q].op = "new" /\ SetActiveTarget(q) /\ Remember(q, t)
  /\ UNCHANGED pages

FocusReturns(q) ==
  /\ req[q].pc = "focusing"
  /\ PageError(q) \/ (SetActiveTarget(q) /\ UNCHANGED idempotency)
  /\ UNCHANGED pages

-----------------------------------------------------------------------------
(* closeRunSession and closeSessionInternal *)

\* The runtime of s is released and disconnected before anything is deleted.
StartClosing(q, s, t) ==
  /\ req' = [req EXCEPT ![q].pc = "closing", ![q].s = s, ![q].target = t]
  /\ UNCHANGED <<runLocks, session>>

CloseTurn(q) ==
  LET s == Registered(q) IN
  /\ MyTurn(q) /\ req[q].op = "close"
  /\ UNCHANGED <<registry, external>>
  /\ \/ ~Bound(q) /\ Answer(q, "ok", session)
     \/ /\ Bound(q)
        /\ IF req[q].arg # None /\ session[s].target \notin {None, req[q].arg}
           THEN Answer(q, "error", session)
           ELSE StartClosing(q, s, IF req[q].arg # None THEN req[q].arg ELSE session[s].target)

CloseOutcome(q) == IF req[q].op \in {"close", "sweep"} THEN "ok" ELSE "error"

\* Deletes by run id and target id, whatever the maps hold by now.
CloseReturns(q) ==
  LET s == req[q].s
      r == req[q].run
      objects == [session EXCEPT ![s].closed = TRUE]
  IN
  /\ req[q].pc = "closing"
  /\ chrome' = chrome \ {s} /\ BrowserCloses(s)
  /\ Disown(req[q].target)
  /\ Register(r, None)
  /\ ClearIdempotency(<<session[s].profile, r>>)
  /\ leased' = leased \ {r}
  /\ IF Browserless THEN Await(q, "releasing") /\ session' = objects
     ELSE Answer(q, CloseOutcome(q), objects)

\* releaseRun drops the lease at once and answers when it has stopped, or failed
\* to stop, an unavailable worker.
ReleaseReturns(q) ==
  /\ req[q].pc = "releasing"
  /\ UNCHANGED <<registry, external>>
  /\ Answer(q, CloseOutcome(q), session)

-----------------------------------------------------------------------------
(* sweepExpiredSessions: each candidate of a sweep is a request of its own *)

\* Time passes a limit of the session.  A sweep judges by the time it began, so
\* a session touched since cannot become idle for it.
Expire(s, reason) ==
  /\ reason \in Timeouts \ session[s].expired
  /\ \E r \in Runs : runSessions[r] = s
  /\ reason = "degraded" => session[s].degraded
  /\ reason = "idle" => \A q \in Sweepers : req[q].s # s
  /\ session' = [session EXCEPT ![s].expired = @ \cup {reason}]
  /\ UNCHANGED <<registry, runLocks, req, external>>

\* Mutant: an idle session is reported as past its lifetime.
ReasonNeverIdle(s) == IF "degraded" \in session[s].expired THEN "degraded" ELSE "lifetime"

\* The first reason that applies.
Reason(s) ==
  IF "degraded" \in session[s].expired THEN "degraded"
  ELSE IF "lifetime" \in session[s].expired THEN "lifetime" ELSE "idle"

SweepScans(q, r) ==
  /\ Idle(q)
  /\ runSessions[r] # None /\ session[runSessions[r]].expired # {}
  /\ req' = [req EXCEPT ![q] = [NoRequest EXCEPT !.pc = "scanned", !.op = "sweep", !.run = r,
                                  !.s = runSessions[r], !.arg = Reason(runSessions[r])]]
  /\ UNCHANGED <<registry, session, runLocks, external>>

\* The lock key is built when the candidate's turn comes.  Without a session the
\* key is a lock nobody else uses, and nothing it could find has expired.
SweepLocks(q) ==
  LET s == Registered(q) IN
  /\ req[q].pc = "scanned"
  /\ UNCHANGED <<registry, external>>
  /\ \/ /\ s = None
        /\ req' = [req EXCEPT ![q] = NoRequest]
        /\ Collect(q, session)
        /\ UNCHANGED runLocks
     \/ /\ s # None
        /\ req' = [req EXCEPT ![q].pc = "queued", ![q].profile = session[s].profile]
        /\ runLocks' = [runLocks EXCEPT ![<<session[s].profile, req[q].run>>] = Append(@, q)]
        /\ UNCHANGED session

\* Mutant: only idle sessions are closed when their turn comes.
StillIdle(q) == Registered(q) = req[q].s /\ req[q].arg = "idle"

\* A session created since the scan is younger than the sweep's clock.
StillExpired(q) ==
  /\ Registered(q) = req[q].s
  /\ req[q].arg \in session[req[q].s].expired

SweepTurn(q) ==
  /\ MyTurn(q) /\ req[q].op = "sweep"
  /\ UNCHANGED <<registry, external>>
  /\ IF StillExpired(q) THEN StartClosing(q, req[q].s, session[req[q].s].target)
     ELSE Answer(q, "ok", session)

-----------------------------------------------------------------------------
(* The outside world *)

\* A page opens another page, a page closes, a local browser exits.
PageOpens(s) ==
  /\ session[s].runtime /\ (Browserless \/ s \in chrome)
  /\ \E t \in Targets : Fresh(t) /\ home' = [home EXCEPT ![t] = s]
  /\ UNCHANGED <<registry, session, runLocks, req, leased, chrome>>

PageCloses(t) ==
  /\ home[t] # None
  /\ home' = [home EXCEPT ![t] = None]
  /\ UNCHANGED <<registry, session, runLocks, req, leased, chrome>>

BrowserExits(s) ==
  /\ s \in chrome
  /\ chrome' = chrome \ {s} /\ BrowserCloses(s)
  /\ UNCHANGED <<registry, session, runLocks, req, leased>>

\* CREATE_IDEMPOTENCY_TTL_MS has passed.
KeyExpires(k) ==
  /\ idempotency[k] # None
  /\ idempotency' = [idempotency EXCEPT ![k] = None]
  /\ UNCHANGED <<runSessions, targetOwners, session, runLocks, req, external>>

Arrives(q) ==
  \E p \in Profiles, r \in Runs :
    EnsureRunSession(q, p, r) \/ EnsureTabAvailable(q, p, r) \/ CloseRunSession(q, p, r)

\* The next step of a request that has been accepted.
Progress(q) ==
  \/ CreateTurn(q) \/ AnswerFromCache(q) \/ RefuseTab(q) \/ TabTurn(q) \/ CloseTurn(q)
  \/ SweepLocks(q) \/ SweepTurn(q)
  \/ AssignReturns(q) \/ CheckReturns(q) \/ RecycleReturns(q) \/ LaunchReturns(q)
  \/ ReadinessReturns(q) \/ ConnectReturns(q) \/ CreatePageReturns(q) \/ ListReturns(q)
  \/ FocusReturns(q) \/ Quarantined(q) \/ CloseReturns(q) \/ ReleaseReturns(q)

World ==
  \/ \E s \in Sessions : PageOpens(s) \/ BrowserExits(s) \/ \E x \in Timeouts : Expire(s, x)
  \/ \E t \in Targets : PageCloses(t)
  \/ \E k \in Locks \X Keys : KeyExpires(k)

Next ==
  \/ \E q \in Callers : Arrives(q)
  \/ \E q \in Sweepers, r \in Runs : SweepScans(q, r)
  \/ \E q \in Requests : Progress(q)
  \/ World

Spec == Init /\ [][Next]_vars

\* The event loop runs every accepted request on, and every external call is
\* answered.  The sweep timer fires again and again, and a sweep visits every
\* candidate: a run it always finds expired is scanned sooner or later.
Fairness ==
  /\ \A q \in Requests : WF_vars(Progress(q))
  /\ \A s \in Sessions : WF_vars(Expire(s, "degraded"))
  /\ \A r \in Runs : SF_vars(\E q \in Sweepers : SweepScans(q, r))

FairSpec == Spec /\ Fairness

-----------------------------------------------------------------------------
(* Properties *)

\* Requests that work on a session (not those that wait for its lock).
Working(q) == ~Idle(q) /\ req[q].pc \notin {"scanned", "queued"}

\* At most one request at a time works on a session object, although sweeps
\* find the lock's key in the registry and retries leave and rejoin the queue.
OneRequestPerSession ==
  \A p, q \in Requests : Working(p) /\ Working(q) /\ req[p].s = req[q].s => p = q

\* A session that was closed never comes back: setActiveTarget, degradation and
\* clearOwnedTarget write the registry after awaits, from a kept reference.
NoResurrection ==
  [][\A r \in Runs : runSessions'[r] \notin {runSessions[r], None}
       => ~session[runSessions'[r]].closed]_vars

\* A run keeps its session until that session is closed; it is never rebound.
BindingStable ==
  [][\A r \in Runs : runSessions[r] # None => runSessions'[r] \in {runSessions[r], None}]_vars

\* A degraded session stays degraded until it is closed: no request that is
\* still in progress, no relaunch and no retry puts it back into service.
DegradedIsFinal ==
  [][\A r \in Runs : runSessions[r] # None /\ runSessions'[r] = runSessions[r]
       /\ session[runSessions[r]].degraded => session'[runSessions[r]].degraded]_vars

\* A remembered create result belongs to a session that is still open, so that
\* a retried key cannot be answered with the tab of an earlier session.
KeysBelongToSessions ==
  \A p \in Profiles, r \in Runs, k \in Keys :
    idempotency[<<<<p, r>>, k>>] # None
      => runSessions[r] # None /\ session[runSessions[r]].profile = p

\* The life of a run as the documentation draws it.
Phase ==
  [r \in Runs |->
    IF runSessions[r] = None THEN "absent"
    ELSE IF session[runSessions[r]].degraded THEN "degraded"
    ELSE IF session[runSessions[r]].runtime THEN "active" ELSE "creating"]

Lifecycle == INSTANCE RunLifecycle WITH phase <- Phase, lease <- leased

\* Requests, sweeps and failures move each run only along the documented state
\* machine, and a Browserless run is in the registry exactly while it is leased.
ImplementsLifecycle == Lifecycle!Spec

\* Every accepted request is answered in the end.
RequestsAnswered == \A q \in Callers : req[q].pc = "queued" ~> Idle(q)

\* A degraded session is closed in the end.
DegradedAreClosed == \A r \in Runs : Phase[r] = "degraded" ~> Phase[r] = "absent"

\* At most BROWSER_LOCAL_MAX_SESSIONS local browsers run at once.
LocalCapRespected == Cardinality(chrome) <= MaxActive

\* An action on a degraded session is rejected.
DegradedFailsClosed ==
  [][\A q \in Requests : req[q].op \in TabOps /\ req'[q].pc = "ok" /\ runSessions[req[q].run] # None
       => ~session[runSessions[req[q].run]].degraded]_vars

\* When nothing is in progress, every local browser belongs to a session: a
\* creation that failed left none behind.
FailedCreationLeavesNothing ==
  (\A q \in Requests : Idle(q)) => \A s \in chrome : \E r \in Runs : runSessions[r] = s

\* No request takes the ownership of a target from another run.
ForeignTargetsRejected ==
  [][\A t \in Targets, q \in Callers :
       req[q].pc # req'[q].pc /\ targetOwners[t] \in Runs \ {req[q].run}
         => targetOwners'[t] = targetOwners[t]]_vars
=============================================================================
