--------------------- MODULE RunSessionsLifecycleProofs ---------------------
(***************************************************************************)
(* Proof that RunSessions implements RunLifecycle: every step of a request *)
(* moves its own run along the documented state machine, or not at all.    *)
(*                                                                         *)
(* Two facts are needed beyond SafeInv.  A request that works with pages   *)
(* works on a session with a runtime, so what it degrades was active       *)
(* (Served); and a registered Browserless run is leased already, so that   *)
(* ensureBrowserlessPinnedWorker adds nothing for it (LeasedRuns).         *)
(***************************************************************************)
EXTENDS RunSessionsSafetyProofs

\* What a request knows about the runtime of its session.
Served(q) ==
  Working(q) =>
    /\ req[q].pc \in {"readying", "connecting", "creating", "listing", "focusing"}
         => session[req[q].s].runtime
    /\ req[q].pc = "recycling" => ~Browserless
    /\ req[q].pc = "assigning" /\ req[q].created => ~session[req[q].s].runtime

\* The runs with a lease are those with a registered session.
LeasedRuns == Browserless => leased = {r \in Runs : runSessions[r] # None}

LifeInv == SafeInv /\ (\A q \in Requests : Served(q)) /\ LeasedRuns

PhaseOf(s, objects) ==
  IF s = None THEN "absent"
  ELSE IF objects[s].degraded THEN "degraded"
  ELSE IF objects[s].runtime THEN "active" ELSE "creating"

\* The way of the run of q: it stays where it is or goes along one edge.
Path(q, objects) ==
  LET r == req[q].run
      from == PhaseOf(runSessions[r], session)
      to == PhaseOf(runSessions'[r], objects)
  IN
  \/ from = to /\ UNCHANGED leased
  \/ /\ from = "absent" /\ to = "creating"
     /\ leased' = IF Browserless THEN leased \cup {r} ELSE leased
  \/ from = "creating" /\ to = "active" /\ UNCHANGED leased
  \/ ~Browserless /\ from = "active" /\ to = "creating" /\ UNCHANGED leased
  \/ Browserless /\ from = "active" /\ to = "degraded" /\ UNCHANGED leased
  \/ from # "absent" /\ to = "absent" /\ leased' = leased \ {r}

Follows(q) == Path(q, session') /\ Served(q)'

\* The parts of the invariant, by name.
LEMMA LifeFacts ==
  ASSUME LifeInv
  PROVE  SafeInv /\ (\A q \in Requests : Served(q)) /\ LeasedRuns /\ CoreTypes /\ RegistryTypes
BY SafeFacts DEF LifeInv

-----------------------------------------------------------------------------
(* Ways a run can go *)

\* The run keeps its session, and the session its runtime and its health.
LEMMA SamePath ==
  ASSUME NEW q, UNCHANGED <<runSessions, leased>>, NEW objects,
         Registered(q) # None =>
           /\ objects[Registered(q)].runtime = session[Registered(q)].runtime
           /\ objects[Registered(q)].degraded = session[Registered(q)].degraded
  PROVE  Path(q, objects)
BY DEF Path, PhaseOf, Registered

\* A registered session, registered again.
LEMMA RegisteredPath ==
  ASSUME RegistryTypes, NEW q, req[q].run \in Runs, Registered(q) # None,
         Register(req[q].run, Registered(q)), UNCHANGED leased, NEW objects,
         /\ objects[Registered(q)].runtime = session[Registered(q)].runtime
         /\ objects[Registered(q)].degraded = session[Registered(q)].degraded
  PROVE  Path(q, objects)
<1>1. runSessions' = runSessions
  BY DEF Register, Registered, RegistryTypes
<1> QED BY <1>1, SamePath

\* The run's session ends.
LEMMA EndPath ==
  ASSUME RegistryTypes, NEW q, req[q].run \in Runs, Registered(q) # None,
         Register(req[q].run, None), leased' = leased \ {req[q].run}, NEW objects
  PROVE  Path(q, objects)
<1>1. runSessions'[req[q].run] = None
  BY DEF Register, RegistryTypes
<1>2. PhaseOf(runSessions[req[q].run], session) # "absent"
  BY DEF PhaseOf, Registered
<1> QED BY <1>1, <1>2 DEF Path, PhaseOf

\* Objects that are collected are not those of a run.
LEMMA CollectPath ==
  ASSUME NEW q \in Requests, req[q].run \in Runs, RegistryTypes', NEW objects,
         Path(q, objects), Collect(q, objects)
  PROVE  Path(q, session')
<1> DEFINE s == runSessions'[req[q].run]
<1>1. s # None => s \in Sessions /\ InUse(q, s)
  BY DEF RegistryTypes, InUse
<1>2. s # None => session'[s] = objects[s]
  BY <1>1, CollectKeeps
<1>3. PhaseOf(s, session') = PhaseOf(s, objects)
  BY <1>2 DEF PhaseOf
<1> QED BY <1>3 DEF Path

-----------------------------------------------------------------------------
(* The endings *)

\* Answering after a way the run can go.
LEMMA AnswerFollows ==
  ASSUME LifeInv, NEW q \in Requests, req[q].run \in Runs, RegistryTypes',
         NEW outcome \in {"ok", "error"}, NEW objects,
         Path(q, objects), Answer(q, outcome, objects)
  PROVE  Follows(q)
<1>1. req'[q].pc = outcome
  BY LifeFacts DEF Answer, CoreTypes, NoRequest
<1>2. Served(q)'
  BY <1>1 DEF Served, Working, Idle
<1>3. Path(q, session')
  BY CollectPath DEF Answer
<1> QED BY <1>2, <1>3 DEF Follows

\* Retrying leaves the run where it is.
LEMMA RetryFollows ==
  ASSUME LifeInv, NEW q \in Requests, req[q].run \in Runs, RegistryTypes',
         UNCHANGED <<registry, leased>>, Retry(q)
  PROVE  Follows(q)
<1>1. req'[q].pc = "queued"
  BY LifeFacts DEF Retry, CoreTypes, RequestRecords
<1>2. Served(q)'
  BY <1>1 DEF Served, Working
<1>3. Path(q, session)
  BY SamePath DEF registry
<1>4. Path(q, session')
  BY <1>3, CollectPath DEF Retry
<1> QED BY <1>2, <1>4 DEF Follows

\* Awaiting something, with the runtime that the next step counts on.
LEMMA AwaitFollows ==
  ASSUME LifeInv, NEW q \in Requests, Path(q, session'),
         NEW state \in PcStates \ {"assigning"}, Await(q, state),
         state \in {"readying", "connecting", "creating", "listing", "focusing"}
           => session'[req[q].s].runtime,
         state = "recycling" => ~Browserless
  PROVE  Follows(q)
<1>1. req'[q].pc = state /\ req'[q].s = req[q].s
  BY LifeFacts DEF Await, CoreTypes, RequestRecords
<1>2. Served(q)'
  BY <1>1 DEF Served
<1> QED BY <1>2 DEF Follows

\* A failure ends the run that was created, or leaves it where it is.
LEMMA FailFollows ==
  ASSUME LifeInv, NEW q \in Requests, req[q].run \in Runs, RegistryTypes', NEW objects,
         Working(q) \/ ~req[q].created,
         UNCHANGED <<registry, leased>> => Path(q, objects),
         Fail(q, objects)
  PROVE  Follows(q)
<1>1. CASE Rollback(q, objects)
  <2> DEFINE gone == [objects EXCEPT ![req[q].s].closed = TRUE]
  <2>1. /\ Working(q) /\ Registered(q) = req[q].s
        /\ Register(req[q].run, None) /\ leased' = leased \ {req[q].run}
    BY <1>1 DEF Rollback
  <2>2. Registered(q) # None
    BY <2>1, LifeFacts, SafeFacts, OwnSession, NoneIsNoSession
  <2>3. \/ Await(q, "releasing") /\ session' = gone
        \/ Answer(q, "error", gone)
    BY <1>1 DEF Rollback
  <2> HIDE DEF gone
  <2>4. Path(q, gone)
    BY <2>1, <2>2, LifeFacts, EndPath
  <2>5. CASE Await(q, "releasing") /\ session' = gone
    BY <2>4, <2>5, AwaitFollows DEF PcStates
  <2>6. CASE Answer(q, "error", gone)
    BY <2>4, <2>6, AnswerFollows
  <2> QED BY <2>3, <2>5, <2>6
<1>2. CASE ~Rollback(q, objects)
  BY <1>2, AnswerFollows DEF Fail
<1> QED BY <1>1, <1>2

\* The same for a failure that first changed no object.
LEMMA FailSameFollows ==
  ASSUME LifeInv, NEW q \in Requests, req[q].run \in Runs, RegistryTypes',
         Working(q) \/ ~req[q].created, Fail(q, session)
  PROVE  Follows(q)
<1>1. UNCHANGED <<registry, leased>> => Path(q, session)
  BY SamePath DEF registry
<1> QED BY <1>1, FailFollows

\* The request awaits something else, with the session as it was.
LEMMA AwaitSameFollows ==
  ASSUME LifeInv, NEW q \in Requests, Working(q),
         UNCHANGED <<registry, leased, session>>,
         NEW state \in PcStates \ {"assigning"}, Await(q, state),
         state \in {"readying", "connecting", "creating", "listing", "focusing"}
           => session[req[q].s].runtime,
         state = "recycling" => ~Browserless
  PROVE  Follows(q)
<1>1. Path(q, session')
  BY SamePath DEF registry
<1> QED BY <1>1, AwaitFollows

\* A rejected await.
LEMMA RejectFollows ==
  ASSUME LifeInv, NEW q \in Requests, req[q].run \in Runs, RegistryTypes', Working(q), Reject(q)
  PROVE  Follows(q)
BY FailSameFollows, RetryFollows DEF Reject

\* A remote browser is lost: its session was active.
LEMMA DegradeFollows ==
  ASSUME LifeInv, NEW q \in Requests, Working(q), req[q].pc \notin {"assigning", "releasing"},
         Browserless, session[req[q].s].runtime, Degrade(q)
  PROVE  Follows(q)
<1> DEFINE s == req[q].s
<1>1. /\ req[q].run \in Runs /\ s \in Sessions /\ s # None
      /\ session[s].run = req[q].run /\ Registered(q) = s /\ runSessions[req[q].run] = s
      /\ CoreTypes /\ RegistryTypes
  BY LifeFacts, HeldSession
<1>2. CASE session[s].degraded
  <2>1. Path(q, session')
    BY <1>2, SamePath DEF Degrade
  <2> QED BY <2>1, AwaitFollows DEF Degrade, PcStates
<1>3. CASE ~session[s].degraded
  <2>1. session' = [Touched(s) EXCEPT ![s].degraded = TRUE] /\ Register(req[q].run, s)
        /\ UNCHANGED leased
    BY <1>1, <1>3 DEF Degrade
  <2>2. runSessions'[req[q].run] = s /\ session'[s].degraded
    BY <1>1, <2>1 DEF Register, RegistryTypes, Touched, CoreTypes, SessionRecords
  <2>3. PhaseOf(s, session) = "active" /\ PhaseOf(s, session') = "degraded"
    BY <1>1, <1>3, <2>2 DEF PhaseOf
  <2>4. Path(q, session')
    BY <1>1, <2>1, <2>2, <2>3 DEF Path
  <2> QED BY <2>4, AwaitFollows DEF Degrade, PcStates
<1> QED BY <1>2, <1>3

\* A failed page operation: only a session with a runtime can have pages.
LEMMA PageErrorFollows ==
  ASSUME LifeInv, NEW q \in Requests, RegistryTypes', Working(q),
         req[q].pc \in {"creating", "listing", "focusing"}, PageError(q)
  PROVE  Follows(q)
<1>1. /\ req[q].run \in Runs /\ session[req[q].s].runtime /\ ~session[req[q].s].degraded
  BY LifeFacts, SafeFacts, HeldSession DEF Served, Held
<1> QED BY <1>1, FailSameFollows, DegradeFollows, RetryFollows DEF PageError

\* The capacity test fails the request or lets it launch.
LEMMA AdmitFollows ==
  ASSUME LifeInv, NEW q \in Requests, RegistryTypes', Working(q),
         req[q].pc \in {"checking", "recycling"}, NEW objects,
         UNCHANGED <<registry, leased>> => Path(q, objects),
         Admit(q, objects)
  PROVE  Follows(q)
<1>1. req[q].run \in Runs
  BY LifeFacts, HeldSession
<1>2. CASE Fail(q, objects)
  BY <1>1, <1>2, FailFollows
<1>3. CASE Await(q, "launching") /\ session' = objects /\ UNCHANGED <<registry, leased>>
  BY <1>3, AwaitFollows DEF PcStates
<1> QED BY <1>2, <1>3 DEF Admit

\* Going on with a runtime.
LEMMA ProceedFollows ==
  ASSUME LifeInv, NEW q \in Requests, RegistryTypes', Working(q),
         req[q].pc \in {"checking", "connecting"}, session[req[q].s].runtime, Proceed(q)
  PROVE  Follows(q)
<1>1. req[q].run \in Runs /\ UNCHANGED <<registry, leased>> /\ Path(q, session)
  BY LifeFacts, HeldSession, SamePath DEF Proceed, registry
<1>2. CASE Answer(q, "ok", session)
  BY <1>1, <1>2, AnswerFollows
<1>3. CASE UNCHANGED session /\ (Await(q, "listing") \/ Await(q, "creating"))
  BY <1>1, <1>3, AwaitSameFollows DEF PcStates
<1> QED BY <1>2, <1>3 DEF Proceed

-----------------------------------------------------------------------------
(* The steps of a request that holds its lock *)

\* Taking up a session moves no run.
LEMMA BeginFollows ==
  ASSUME LifeInv, NEW q \in Requests, Path(q, session'),
         req'[q].pc \in {"checking", "closing"}
           \/ (req'[q].pc = "assigning"
                 /\ (req'[q].created => ~session'[req'[q].s].runtime))
  PROVE  Follows(q)
BY DEF Follows, Served

\* A touched session keeps its runtime and its health.
LEMMA TouchedPath ==
  ASSUME LifeInv, NEW q \in Requests, UNCHANGED <<runSessions, leased>>,
         Registered(q) # None => Registered(q) \in Sessions
  PROVE  Path(q, Touched(Registered(q)))
<1>1. CASE Registered(q) = None
  BY <1>1, SamePath
<1>2. CASE Registered(q) # None
  <2> DEFINE s == Registered(q)
  <2>1. Touched(s)[s].runtime = session[s].runtime /\ Touched(s)[s].degraded = session[s].degraded
    BY <1>2, LifeFacts DEF Touched, CoreTypes, SessionRecords
  <2> QED BY <2>1, SamePath
<1> QED BY <1>1, <1>2

\* A creation begins without a runtime, or with the session that is there.
LEMMA CreateTurnFollows ==
  ASSUME LifeInv, NEW q \in Requests, RegistryTypes', CreateTurn(q)
  PROVE  Follows(q)
<1> DEFINE s == Registered(q)
<1>1. /\ MyTurn(q) /\ req[q].op = "create" /\ CoreTypes
      /\ req[q].run \in Runs /\ req[q].created = FALSE
      /\ s # None => s \in Sessions
  BY LifeFacts, TurnHolds DEF CreateTurn
<1>2. CASE s = None /\ NewSession(q)
  <2>1. PICK u \in Sessions :
          /\ session' = [session EXCEPT
               ![u] = [NoSession EXCEPT !.run = req[q].run, !.profile = req[q].profile]]
          /\ req' = [req EXCEPT ![q].pc = "assigning", ![q].s = u, ![q].created = TRUE]
          /\ UNCHANGED <<runLocks, registry, leased>>
    BY <1>2 DEF NewSession
  <2>2. req'[q].pc = "assigning" /\ req'[q].s = u
    <3> req \in [Requests -> RequestRecords]
      BY <1>1 DEF CoreTypes
    <3> QED BY <2>1 DEF RequestRecords
  <2>3. ~session'[u].runtime
    BY <1>1, <2>1 DEF CoreTypes, NoSession
  <2>4. Path(q, session')
    BY <1>2, <2>1, SamePath DEF registry
  <2> QED BY <2>2, <2>3, <2>4, BeginFollows
<1>3. CASE s # None /\ Fail(q, session)
  BY <1>1, <1>3, FailSameFollows
<1>4. CASE /\ s # None
           /\ req' = [req EXCEPT ![q].pc = IF Browserless THEN "assigning" ELSE "checking",
                                 ![q].s = s]
           /\ session' = IF Browserless THEN session ELSE Touched(s)
           /\ UNCHANGED <<runLocks, registry, leased>>
  <2>1. Path(q, session')
    BY <1>1, <1>4, TouchedPath, SamePath DEF registry
  <2>2. req'[q].pc \in {"assigning", "checking"} /\ ~req'[q].created
    <3> req \in [Requests -> RequestRecords]
      BY <1>1 DEF CoreTypes
    <3> HIDE DEF s
    <3> QED BY <1>1, <1>4 DEF RequestRecords
  <2> QED BY <2>1, <2>2, BeginFollows
<1> QED BY <1>2, <1>3, <1>4 DEF CreateTurn, Bound

\* A session is registered without a runtime and with a lease; a run that was
\* registered has its lease.
LEMMA AssignReturnsFollows ==
  ASSUME LifeInv, NEW q \in Requests, RegistryTypes', AssignReturns(q)
  PROVE  Follows(q)
<1> DEFINE s == req[q].s
           r == req[q].run
<1>1. Working(q) /\ req[q].pc = "assigning"
  BY DEF AssignReturns, Working, Idle
<1>2. /\ r \in Runs /\ s \in Sessions /\ CoreTypes /\ RegistryTypes /\ ~session[s].degraded
      /\ Registered(q) = IF req[q].created THEN None ELSE s
      /\ req[q].created => ~session[s].runtime
  BY <1>1, LifeFacts, SafeFacts, OwnSession DEF Held, Served
<1>3. CASE UNCHANGED <<registry, leased>> /\ Answer(q, "error", session)
  <2>1. Path(q, session)
    BY <1>3, SamePath DEF registry
  <2> QED BY <1>2, <1>3, <2>1, AnswerFollows
<1>4. CASE /\ leased' = IF Browserless THEN leased \cup {r} ELSE leased
           /\ session' = Touched(s) /\ Register(r, s) /\ Await(q, "checking")
  <2>1. /\ runSessions'[r] = s
        /\ session'[s].runtime = session[s].runtime /\ session'[s].degraded = session[s].degraded
    BY <1>2, <1>4 DEF Register, RegistryTypes, Touched, CoreTypes, SessionRecords
  <2>2. s # None
    BY <1>2, NoneIsNoSession
  <2>3. PhaseOf(s, session') = PhaseOf(s, session)
    BY <2>1 DEF PhaseOf
  <2>4. CASE req[q].created
    <3>1. PhaseOf(runSessions[r], session) = "absent" /\ PhaseOf(s, session') = "creating"
      BY <1>2, <2>2, <2>3, <2>4 DEF PhaseOf, Registered
    <3>2. Path(q, session')
      BY <1>4, <2>1, <3>1 DEF Path
    <3> QED BY <1>4, <3>2, AwaitFollows DEF PcStates
  <2>5. CASE ~req[q].created
    <3>1. runSessions[r] = s
      BY <1>2, <2>5 DEF Registered
    <3>2. leased' = leased
      BY <1>2, <1>4, <2>2, <3>1, LifeFacts DEF LeasedRuns
    <3>3. Path(q, session')
      BY <2>1, <2>3, <3>1, <3>2 DEF Path
    <3> QED BY <1>4, <3>3, AwaitFollows DEF PcStates
  <2> QED BY <2>4, <2>5
<1> QED BY <1>3, <1>4 DEF AssignReturns

\* A request for a tab takes up the session, or is answered.
LEMMA TabTurnFollows ==
  ASSUME LifeInv, NEW q \in Requests, RegistryTypes', TabTurn(q)
  PROVE  Follows(q)
<1> DEFINE s == Registered(q)
<1>1. /\ MyTurn(q) /\ s # None /\ UNCHANGED <<runSessions, leased>>
      /\ req[q].run \in Runs /\ s \in Sessions
  BY LifeFacts, TurnHolds DEF TabTurn, Bound, external
<1>2. Path(q, Touched(s))
  BY <1>1, TouchedPath
<1>3. CASE Answer(q, "error", Touched(s)) \/ Answer(q, "ok", Touched(s))
  BY <1>1, <1>2, <1>3, AnswerFollows
<1>4. ASSUME NEW t, EnsureBrowserFor(q, s, t)
      PROVE  Follows(q)
  <2>1. CASE Answer(q, "error", Touched(s))
    BY <1>1, <1>2, <2>1, AnswerFollows
  <2>2. CASE session' = Touched(s) /\ Starts(q, "checking", s, t)
    BY <1>2, <2>2, LifeFacts, StartsFacts, BeginFollows
  <2> QED BY <1>4, <2>1, <2>2 DEF EnsureBrowserFor, Starts
<1> QED BY <1>3, <1>4 DEF TabTurn

\* The availability check: a lost remote browser degrades an active session.
LEMMA CheckReturnsFollows ==
  ASSUME LifeInv, NEW q \in Requests, RegistryTypes', CheckReturns(q)
  PROVE  Follows(q)
<1>1. Working(q) /\ req[q].pc = "checking"
  BY DEF CheckReturns, Working, Idle
<1>2. UNCHANGED <<registry, leased>> => Path(q, session)
  BY SamePath DEF registry
<1>3. CASE Admit(q, session)
  BY <1>1, <1>2, <1>3, AdmitFollows
<1>4. CASE session[req[q].s].runtime /\ Proceed(q)
  BY <1>1, <1>4, ProceedFollows
<1>5. CASE session[req[q].s].runtime /\ Browserless /\ Degrade(q)
  BY <1>1, <1>5, DegradeFollows
<1>6. CASE ~Browserless /\ Await(q, "recycling") /\ UNCHANGED <<session, registry, leased>>
  BY <1>1, <1>6, AwaitSameFollows DEF PcStates
<1> QED BY <1>3, <1>4, <1>5, <1>6 DEF CheckReturns

\* A local browser is relaunched, or its run has no runtime for the time being.
LEMMA RecycleReturnsFollows ==
  ASSUME LifeInv, NEW q \in Requests, RegistryTypes', RecycleReturns(q)
  PROVE  Follows(q)
<1> DEFINE s == req[q].s
           objects == [session EXCEPT ![s].runtime = FALSE]
<1>1. Working(q) /\ req[q].pc = "recycling" /\ Admit(q, objects)
  BY DEF RecycleReturns, Working, Idle
<1>2. /\ s \in Sessions /\ runSessions[req[q].run] = s /\ s # None /\ ~Browserless
      /\ ~session[s].degraded /\ CoreTypes
  BY <1>1, LifeFacts, SafeFacts, HeldSession DEF Held, Served
<1>3. PhaseOf(s, session) \in {"active", "creating"} /\ PhaseOf(s, objects) = "creating"
  BY <1>2 DEF PhaseOf, CoreTypes, SessionRecords
<1> HIDE DEF objects
<1>4. UNCHANGED <<registry, leased>> => Path(q, objects)
  BY <1>2, <1>3 DEF Path, registry
<1> QED BY <1>1, <1>4, AdmitFollows

\* A launch activates the session.
LEMMA LaunchReturnsFollows ==
  ASSUME LifeInv, NEW q \in Requests, RegistryTypes', LaunchReturns(q)
  PROVE  Follows(q)
<1> DEFINE s == req[q].s
<1>1. Working(q) /\ req[q].pc = "launching"
  BY DEF LaunchReturns, Working, Idle
<1>2. /\ s \in Sessions /\ req[q].run \in Runs /\ runSessions[req[q].run] = s /\ s # None
      /\ ~session[s].degraded /\ CoreTypes
  BY <1>1, LifeFacts, SafeFacts, HeldSession DEF Held
<1>3. CASE Reject(q)
  BY <1>1, <1>2, <1>3, RejectFollows
<1>4. CASE /\ session' = [session EXCEPT ![s].runtime = TRUE]
           /\ Await(q, "readying") \/ Await(q, "connecting")
           /\ UNCHANGED <<registry, leased>>
  <2>1. session'[s].runtime /\ session'[s].degraded = session[s].degraded
    BY <1>2, <1>4 DEF CoreTypes, SessionRecords
  <2>2. PhaseOf(s, session) \in {"active", "creating"} /\ PhaseOf(s, session') = "active"
    BY <1>2, <2>1 DEF PhaseOf
  <2>3. Path(q, session')
    BY <1>2, <1>4, <2>2 DEF Path, registry
  <2> QED BY <1>4, <2>1, <2>3, AwaitFollows DEF PcStates
<1> QED BY <1>3, <1>4 DEF LaunchReturns

\* The probe of a remote browser clears a flag that is not set.
LEMMA ReadinessReturnsFollows ==
  ASSUME LifeInv, NEW q \in Requests, ReadinessReturns(q)
  PROVE  Follows(q)
<1> DEFINE s == req[q].s
<1>1. Working(q) /\ req[q].pc = "readying" /\ UNCHANGED <<registry, leased>>
  BY DEF ReadinessReturns, Working, Idle
<1>2. /\ s \in Sessions /\ Registered(q) = s /\ ~session[s].degraded /\ CoreTypes
      /\ session[s].runtime
  BY <1>1, LifeFacts, SafeFacts, HeldSession DEF Held, Served
<1>3. CASE Await(q, "quarantining") /\ UNCHANGED session
  BY <1>1, <1>3, AwaitSameFollows DEF PcStates
<1>4. CASE Await(q, "connecting") /\ session' = [session EXCEPT ![s].degraded = FALSE]
  <2>1. session'[s].runtime = session[s].runtime /\ session'[s].degraded = session[s].degraded
    BY <1>2, <1>4 DEF CoreTypes, SessionRecords
  <2>2. Path(q, session')
    BY <1>1, <1>2, <2>1, SamePath DEF registry
  <2> QED BY <1>2, <1>4, <2>1, <2>2, AwaitFollows DEF PcStates
<1> QED BY <1>3, <1>4 DEF ReadinessReturns

\* setActiveTarget and clearOwnedTarget move no run.
LEMMA TargetFollows ==
  ASSUME LifeInv, NEW q \in Requests, RegistryTypes', Working(q),
         req[q].pc \in {"listing", "focusing"}, SetActiveTarget(q) \/ ClearOwnedTarget(q)
  PROVE  Follows(q)
<1> DEFINE s == req[q].s
           touched(t) == [Touched(s) EXCEPT ![s].target = t]
<1>1. /\ s \in Sessions /\ req[q].run \in Runs /\ Registered(q) = s /\ s # None
      /\ CoreTypes /\ RegistryTypes
  BY LifeFacts, HeldSession
<1>2. \A t : touched(t)[s].runtime = session[s].runtime /\ touched(t)[s].degraded = session[s].degraded
  BY <1>1 DEF Touched, CoreTypes, SessionRecords
<1>3. /\ Register(req[q].run, s) /\ UNCHANGED leased
      /\ \/ Answer(q, "ok", touched(req[q].target))
         \/ Answer(q, "error", touched(None))
  BY DEF SetActiveTarget, ClearOwnedTarget
<1> HIDE DEF touched
<1>4. \A t : Path(q, touched(t))
  BY <1>1, <1>2, <1>3, RegisteredPath
<1> QED BY <1>1, <1>3, <1>4, AnswerFollows

\* Connecting and focusing, and the report of an unavailable worker.
LEMMA PageReturnsFollow ==
  ASSUME LifeInv, NEW q \in Requests, RegistryTypes',
         ConnectReturns(q) \/ Quarantined(q) \/ FocusReturns(q)
  PROVE  Follows(q)
<1>1. Working(q) /\ req[q].pc \in {"connecting", "quarantining", "focusing"}
  BY DEF ConnectReturns, Quarantined, FocusReturns, Working, Idle
<1>2. req[q].run \in Runs /\ Served(q)
  BY <1>1, LifeFacts, HeldSession
<1>3. CASE ConnectReturns(q)
  BY <1>1, <1>2, <1>3, ProceedFollows, RejectFollows DEF ConnectReturns, Served
<1>4. CASE Quarantined(q)
  BY <1>1, <1>2, <1>4, FailSameFollows DEF Quarantined
<1>5. CASE FocusReturns(q)
  BY <1>1, <1>2, <1>5, PageErrorFollows, TargetFollows DEF FocusReturns
<1> QED BY <1>3, <1>4, <1>5

\* A page has been created; its session has a runtime.
LEMMA CreatePageReturnsFollows ==
  ASSUME LifeInv, NEW q \in Requests, RegistryTypes', CreatePageReturns(q)
  PROVE  Follows(q)
<1>1. Working(q) /\ req[q].pc = "creating"
  BY DEF CreatePageReturns, Working, Idle
<1>2. CASE PageError(q)
  BY <1>1, <1>2, PageErrorFollows
<1>3. CASE ~PageError(q)
  <2>1. PICK t \in Targets : req' = [req EXCEPT ![q].pc = "listing", ![q].target = t]
    BY <1>3 DEF CreatePageReturns
  <2>2. UNCHANGED <<session, registry, leased>>
    BY <1>3 DEF CreatePageReturns
  <2>3. req'[q].pc = "listing" /\ req'[q].s = req[q].s
    <3> req \in [Requests -> RequestRecords]
      BY LifeFacts DEF CoreTypes
    <3> QED BY <2>1 DEF RequestRecords
  <2>4. session[req[q].s].runtime
    BY <1>1, LifeFacts DEF Served
  <2>5. Served(q)'
    BY <2>2, <2>3, <2>4 DEF Served
  <2>6. Path(q, session')
    BY <2>2, SamePath DEF registry
  <2> QED BY <2>5, <2>6 DEF Follows
<1> QED BY <1>2, <1>3

\* The pages are listed.
LEMMA ListReturnsFollows ==
  ASSUME LifeInv, NEW q \in Requests, RegistryTypes', ListReturns(q)
  PROVE  Follows(q)
<1>1. Working(q) /\ req[q].pc = "listing"
  BY DEF ListReturns, Working, Idle
<1>2. req[q].run \in Runs /\ session[req[q].s].runtime
  BY <1>1, LifeFacts, HeldSession DEF Served
<1>3. CASE PageError(q)
  BY <1>1, <1>3, PageErrorFollows
<1>4. CASE Fail(q, session)
  BY <1>1, <1>2, <1>4, FailSameFollows
<1>5. CASE (Await(q, "closing") \/ Await(q, "focusing")) /\ UNCHANGED <<session, registry, leased>>
  BY <1>1, <1>2, <1>5, AwaitSameFollows DEF PcStates
<1>6. CASE ClearOwnedTarget(q) \/ SetActiveTarget(q)
  BY <1>1, <1>6, TargetFollows
<1> QED BY <1>3, <1>4, <1>5, <1>6 DEF ListReturns

\* Turns that are answered at once, or go on to close the session.
LEMMA OtherTurnsFollow ==
  ASSUME LifeInv, NEW q \in Requests, RegistryTypes',
         AnswerFromCache(q) \/ RefuseTab(q) \/ CloseTurn(q) \/ SweepTurn(q)
  PROVE  Follows(q)
<1>1. MyTurn(q) /\ UNCHANGED <<runSessions, leased>>
  BY DEF AnswerFromCache, RefuseTab, CloseTurn, SweepTurn, registry, external
<1>2. req[q].run \in Runs /\ Path(q, session)
  BY <1>1, LifeFacts, TurnHolds, SamePath
<1>3. CASE Answer(q, "ok", session) \/ Answer(q, "error", session)
  BY <1>2, <1>3, AnswerFollows
<1>4. ASSUME NEW s, NEW t, StartClosing(q, s, t)
      PROVE  Follows(q)
  <2>1. Starts(q, "closing", s, t) /\ UNCHANGED session
    BY <1>4 DEF StartClosing, Starts
  <2>2. req'[q].pc = "closing"
    BY <2>1, LifeFacts, StartsFacts
  <2>3. Path(q, session')
    BY <1>2, <2>1
  <2> QED BY <2>2, <2>3, BeginFollows
<1> QED BY <1>3, <1>4 DEF AnswerFromCache, RefuseTab, CloseTurn, SweepTurn

\* A close ends the run, with its lease.
LEMMA CloseReturnsFollows ==
  ASSUME LifeInv, NEW q \in Requests, RegistryTypes', CloseReturns(q) \/ ReleaseReturns(q)
  PROVE  Follows(q)
<1> DEFINE objects == [session EXCEPT ![req[q].s].closed = TRUE]
<1>1. Working(q) /\ CloseOutcome(q) \in {"ok", "error"} /\ req[q].run \in Runs
  BY LifeFacts, SafeFacts, OwnSession DEF CloseReturns, ReleaseReturns, CloseOutcome, Working, Idle
<1>2. CASE CloseReturns(q)
  <2>1. Register(req[q].run, None) /\ leased' = leased \ {req[q].run} /\ Registered(q) # None
    BY <1>1, <1>2, LifeFacts, HeldSession DEF CloseReturns
  <2>2. \/ Await(q, "releasing") /\ session' = objects
        \/ Answer(q, CloseOutcome(q), objects)
    BY <1>2 DEF CloseReturns
  <2> HIDE DEF objects
  <2>3. Path(q, objects)
    BY <1>1, <2>1, LifeFacts, EndPath
  <2>4. CASE Await(q, "releasing") /\ session' = objects
    BY <2>3, <2>4, AwaitFollows DEF PcStates
  <2>5. CASE Answer(q, CloseOutcome(q), objects)
    BY <1>1, <2>3, <2>5, AnswerFollows
  <2> QED BY <2>2, <2>4, <2>5
<1>3. CASE ReleaseReturns(q)
  <2>1. Path(q, session) /\ Answer(q, CloseOutcome(q), session)
    BY <1>3, SamePath DEF ReleaseReturns, registry, external
  <2> QED BY <1>1, <2>1, AnswerFollows
<1> QED BY <1>2, <1>3

\* Every step of a request that has got its lock moves its run along.
LEMMA ProgressFollows ==
  ASSUME LifeInv, NEW q \in Requests, RegistryTypes', Progress(q), ~SweepLocks(q)
  PROVE  Follows(q)
BY CreateTurnFollows, OtherTurnsFollow, TabTurnFollows, AssignReturnsFollows,
   CheckReturnsFollows, RecycleReturnsFollows, LaunchReturnsFollows, ReadinessReturnsFollows,
   PageReturnsFollow, CreatePageReturnsFollows, ListReturnsFollows, CloseReturnsFollows
   DEF Progress

-----------------------------------------------------------------------------
(* From the run of a request to all runs *)

\* The other runs keep their sessions, and the other requests theirs.
LEMMA OtherRunsStay ==
  ASSUME OneProfile, LifeInv, NEW q \in Requests, Holds(q), Sound(q), Keeps(q)
  PROVE  /\ \A x \in Runs \ {req[q].run} :
              /\ runSessions'[x] = runSessions[x]
              /\ runSessions[x] # None => session'[runSessions[x]] = session[runSessions[x]]
         /\ \A p \in Requests \ {q} :
              /\ req'[p] = req[p]
              /\ Working(p) => session'[req[p].s] = session[req[p].s]
<1> DEFINE r == req[q].run
<1>1. SafeInv /\ Inv /\ OwnerInv /\ RegistryTypes
  BY LifeFacts, SafeFacts
<1>2. PICK objects : Update(q, objects) /\ \A s \in Sessions : InUse(q, s) => session'[s] = objects[s]
  BY DEF Keeps
<1>3. ASSUME NEW x \in Runs \ {r}
      PROVE  /\ runSessions'[x] = runSessions[x]
             /\ runSessions[x] # None => session'[runSessions[x]] = session[runSessions[x]]
  <2>1. runSessions'[x] = runSessions[x]
    BY <1>2 DEF Update
  <2>2. ASSUME runSessions[x] # None
        PROVE  session'[runSessions[x]] = session[runSessions[x]]
    <3>1. runSessions[x] \in Sessions /\ session[runSessions[x]].run = x
      BY <1>1, <2>2 DEF OwnerInv, Owned, RegistryTypes
    <3>2. InUse(q, runSessions[x])
      BY <2>1 DEF InUse
    <3> QED BY <1>2, <3>1, <3>2 DEF Update
  <2> QED BY <2>1, <2>2
<1>4. ASSUME NEW p \in Requests \ {q}
      PROVE  /\ req'[p] = req[p]
             /\ Working(p) => session'[req[p].s] = session[req[p].s]
  <2>1. req'[p] = req[p]
    BY DEF Sound, Ending, QueueStep, Others
  <2>2. ASSUME Working(p) PROVE session'[req[p].s] = session[req[p].s]
    <3>1. Holds(p) /\ req[p].s \in Sessions /\ session[req[p].s].run = req[p].run
      BY <1>1, <2>2, OwnSession DEF Owned
    <3>2. req[p].run # r
      BY <3>1, OneHolder
    <3>3. InUse(q, req[p].s)
      BY DEF InUse
    <3> QED BY <1>2, <3>1, <3>2, <3>3 DEF Update
  <2> QED BY <2>1, <2>2
<1> QED BY <1>3, <1>4

LifeStep == [Lifecycle!Next]_<<Phase, leased>>

\* The phase of a run is that of its session.
LEMMA PhaseIs == \A r \in Runs : Phase[r] = PhaseOf(runSessions[r], session)
BY DEF Phase, PhaseOf

\* A way of one run, with the others where they were, is a step of the lifecycle.
LEMMA PathIsLifeStep ==
  ASSUME NEW q \in Requests, req[q].run \in Runs, Path(q, session'),
         \A x \in Runs \ {req[q].run} :
           /\ runSessions'[x] = runSessions[x]
           /\ runSessions[x] # None => session'[runSessions[x]] = session[runSessions[x]]
  PROVE  LifeStep
<1> DEFINE r == req[q].run
           to == PhaseOf(runSessions'[r], session')
<1>1. Phase[r] = PhaseOf(runSessions[r], session)
  BY PhaseIs
<1>2. \A x \in Runs \ {r} : PhaseOf(runSessions'[x], session') = PhaseOf(runSessions[x], session)
  BY DEF PhaseOf
<1>3. Phase' = [x \in Runs |-> PhaseOf(runSessions'[x], session')]
  BY DEF Phase, PhaseOf
<1>4. Phase = [x \in Runs |-> PhaseOf(runSessions[x], session)]
  BY DEF Phase, PhaseOf
<1>5. Phase' = [Phase EXCEPT ![r] = to]
  BY <1>2, <1>3, <1>4
<1>6. CASE Phase[r] = to /\ UNCHANGED leased
  <2>1. Phase' = Phase
    BY <1>4, <1>5, <1>6
  <2> QED BY <1>6, <2>1 DEF LifeStep
<1>7. CASE Phase[r] # to \/ leased' # leased
  <2> HIDE DEF to
  <2>1. \/ /\ Phase[r] = "absent" /\ to = "creating"
           /\ leased' = IF Browserless THEN leased \cup {r} ELSE leased
        \/ Phase[r] = "creating" /\ to = "active" /\ UNCHANGED leased
        \/ ~Browserless /\ Phase[r] = "active" /\ to = "creating" /\ UNCHANGED leased
        \/ Browserless /\ Phase[r] = "active" /\ to = "degraded" /\ UNCHANGED leased
        \/ Phase[r] # "absent" /\ to = "absent" /\ leased' = leased \ {r}
    BY <1>1, <1>7 DEF Path, to
  <2>2. Phase[r] \in {"absent", "creating", "active", "degraded"}
    BY <1>1 DEF PhaseOf
  <2>3. \/ Lifecycle!Create(r) \/ Lifecycle!Activate(r) \/ Lifecycle!Relaunch(r)
        \/ Lifecycle!Degrade(r) \/ Lifecycle!End(r)
    BY <1>5, <2>1, <2>2 DEF Lifecycle!Create, Lifecycle!Activate, Lifecycle!Relaunch,
       Lifecycle!Degrade, Lifecycle!End, Lifecycle!Move
  <2> QED BY <2>3 DEF LifeStep, Lifecycle!Next
<1> QED BY <1>6, <1>7

\* The run of a request keeps the set of leased runs right.
LEMMA PathKeepsLeases ==
  ASSUME LifeInv, NEW q \in Requests, req[q].run \in Runs, Path(q, session'),
         \A x \in Runs \ {req[q].run} : runSessions'[x] = runSessions[x]
  PROVE  LeasedRuns'
<1> DEFINE r == req[q].run
<1>1. SUFFICES ASSUME Browserless, NEW x
               PROVE  x \in leased' <=> x \in Runs /\ runSessions'[x] # None
  BY DEF LeasedRuns
<1>2. x \in leased <=> x \in Runs /\ runSessions[x] # None
  BY <1>1, LifeFacts DEF LeasedRuns
<1>3. CASE x # r
  <2>1. x \in leased' <=> x \in leased
    BY <1>3 DEF Path
  <2> QED BY <1>2, <1>3, <2>1
<1>4. CASE x = r
  <2>1. /\ runSessions[r] = None <=> PhaseOf(runSessions[r], session) = "absent"
        /\ runSessions'[r] = None <=> PhaseOf(runSessions'[r], session') = "absent"
    BY DEF PhaseOf
  <2> QED BY <1>1, <1>2, <1>4, <2>1 DEF Path
<1> QED BY <1>3, <1>4

\* A step of the lock holder.
LEMMA LockedLife ==
  ASSUME OneProfile, LifeInv, NEW q \in Requests, Progress(q), ~SweepLocks(q)
  PROVE  LifeInv' /\ LifeStep
<1>1. SafeInv /\ Inv /\ \A p \in Requests : Served(p)
  BY LifeFacts, SafeFacts
<1>2. Holds(q) /\ Keeps(q) /\ Sound(q)
  BY <1>1, LockedProgress, ProgressSound
<1>3. SafeInv' /\ RegistryTypes' /\ req[q].run \in Runs
  BY <1>1, <1>2, KeepsSafe DEF Sound, Ending, Holds, LockOf, Locks
<1>4. Path(q, session') /\ Served(q)'
  BY <1>3, ProgressFollows DEF Follows
<1>5. /\ \A x \in Runs \ {req[q].run} :
           /\ runSessions'[x] = runSessions[x]
           /\ runSessions[x] # None => session'[runSessions[x]] = session[runSessions[x]]
      /\ \A p \in Requests \ {q} :
           /\ req'[p] = req[p]
           /\ Working(p) => session'[req[p].s] = session[req[p].s]
  BY <1>2, OtherRunsStay
<1>6. ASSUME NEW p \in Requests PROVE Served(p)'
  <2>1. CASE p = q
    BY <1>4, <2>1
  <2>2. CASE p # q
    BY <1>1, <1>5, <2>2 DEF Served, Working, Idle
  <2> QED BY <2>1, <2>2
<1>7. LeasedRuns' /\ LifeStep
  BY <1>3, <1>4, <1>5, PathKeepsLeases, PathIsLifeStep
<1> QED BY <1>3, <1>6, <1>7 DEF LifeInv

\* A step outside the locks changes neither runs, nor runtimes, nor leases.
LEMMA UnlockedLife ==
  ASSUME LifeInv, SafeInv', UNCHANGED <<runSessions, leased>>,
         \A s \in Sessions :
           (\E r \in Runs : runSessions[r] = s) \/ (\E p \in Requests : req'[p].s = s)
             => session'[s].runtime = session[s].runtime /\ session'[s].degraded = session[s].degraded,
         \A p \in Requests : req'[p] = req[p] \/ ~Working(p)'
  PROVE  LifeInv' /\ LifeStep
<1>1. SafeInv /\ (\A q \in Requests : Served(q)) /\ LeasedRuns /\ RegistryTypes
  BY LifeFacts
<1>2. \A r \in Runs : PhaseOf(runSessions'[r], session') = PhaseOf(runSessions[r], session)
  BY <1>1 DEF PhaseOf, RegistryTypes
<1>3. Phase' = Phase
  <2>1. Phase' = [r \in Runs |-> PhaseOf(runSessions'[r], session')]
    BY DEF Phase, PhaseOf
  <2>2. Phase = [r \in Runs |-> PhaseOf(runSessions[r], session)]
    BY DEF Phase, PhaseOf
  <2> QED BY <1>2, <2>1, <2>2
<1>4. ASSUME NEW p \in Requests PROVE Served(p)'
  <2>1. CASE req'[p] = req[p] /\ Working(p)
    <3>1. req[p].s \in Sessions /\ Served(p)
      BY <1>1, <2>1, SafeFacts, OwnSession
    <3>2. session'[req[p].s].runtime = session[req[p].s].runtime
      BY <2>1, <3>1
    <3> QED BY <2>1, <3>1, <3>2 DEF Served
  <2>2. CASE ~Working(p)'
    BY <2>2 DEF Served
  <2>3. CASE req'[p] = req[p] /\ ~Working(p)
    BY <2>3 DEF Served, Working, Idle
  <2> QED BY <2>1, <2>2, <2>3
<1>5. LeasedRuns'
  BY <1>1 DEF LeasedRuns
<1> QED BY <1>3, <1>4, <1>5 DEF LifeInv, LifeStep

\* Arrivals and scans.
LEMMA ArrivalLife ==
  ASSUME LifeInv, SafeInv', NEW q \in Requests,
         Arrives(q) \/ \E r \in Runs : SweepScans(q, r)
  PROVE  LifeInv' /\ LifeStep
<1>1. CASE \E op, p, r, arg : Arrive(q, op, p, r, arg)
  <2>1. UNCHANGED <<runSessions, leased, session>>
    BY <1>1 DEF Arrive, registry, external
  <2>2. /\ \A x \in Requests \ {q} : req'[x] = req[x]
        /\ req'[q].pc = "queued"
    BY <1>1, LifeFacts DEF Arrive, CoreTypes, NoRequest
  <2>3. \A x \in Requests : req'[x] = req[x] \/ ~Working(x)'
    BY <2>2 DEF Working
  <2> QED BY <2>1, <2>3, UnlockedLife
<1>2. CASE \E r \in Runs : SweepScans(q, r)
  <2>1. UNCHANGED <<runSessions, leased, session>>
    BY <1>2 DEF SweepScans, registry, external
  <2>2. /\ \A x \in Requests \ {q} : req'[x] = req[x]
        /\ req'[q].pc = "scanned"
    BY <1>2, LifeFacts DEF SweepScans, CoreTypes, NoRequest
  <2>3. \A x \in Requests : req'[x] = req[x] \/ ~Working(x)'
    BY <2>2 DEF Working
  <2> QED BY <2>1, <2>3, UnlockedLife
<1>3. Arrives(q) => \E op, p, r, arg : Arrive(q, op, p, r, arg)
  BY DEF Arrives, EnsureRunSession, EnsureTabAvailable, CloseRunSession
<1> QED BY <1>1, <1>2, <1>3

\* A sweep takes the key of its lock from the registry.
LEMMA SweepLocksLife ==
  ASSUME LifeInv, SafeInv', NEW q \in Requests, SweepLocks(q)
  PROVE  LifeInv' /\ LifeStep
<1>1. UNCHANGED <<runSessions, leased>> /\ CoreTypes
  BY LifeFacts DEF SweepLocks, registry, external
<1>2. CASE req' = [req EXCEPT ![q] = NoRequest] /\ Collect(q, session)
  <2>1. /\ \A x \in Requests \ {q} : req'[x] = req[x]
        /\ req'[q] = NoRequest
    BY <1>1, <1>2 DEF CoreTypes
  <2>2. \A x \in Requests : req'[x] = req[x] \/ ~Working(x)'
    BY <2>1 DEF Working, Idle, NoRequest
  <2>3. \A s \in Sessions :
          (\E r \in Runs : runSessions[r] = s) \/ (\E p \in Requests : req'[p].s = s)
            => session'[s] = session[s]
    BY <1>1, <1>2, <2>1, NoneIsNoSession DEF Collect, NoRequest
  <2> QED BY <1>1, <2>2, <2>3, UnlockedLife
<1>3. CASE /\ UNCHANGED session
           /\ req' = [req EXCEPT ![q].pc = "queued", ![q].profile = session[Registered(q)].profile]
  <2>1. /\ \A x \in Requests \ {q} : req'[x] = req[x]
        /\ req'[q].pc = "queued"
    BY <1>1, <1>3 DEF CoreTypes, RequestRecords
  <2>2. \A x \in Requests : req'[x] = req[x] \/ ~Working(x)'
    BY <2>1 DEF Working
  <2> QED BY <1>1, <1>3, <2>2, UnlockedLife
<1> QED BY <1>2, <1>3 DEF SweepLocks

\* Expiry, pages and browsers.
LEMMA WorldLife ==
  ASSUME LifeInv, SafeInv', World
  PROVE  LifeInv' /\ LifeStep
<1>1. UNCHANGED <<runSessions, leased, req>>
  BY DEF World, PageOpens, BrowserExits, Expire, PageCloses, KeyExpires, registry, external
<1>2. \A s \in Sessions :
        session'[s].runtime = session[s].runtime /\ session'[s].degraded = session[s].degraded
  BY LifeFacts DEF World, PageOpens, BrowserExits, Expire, PageCloses, KeyExpires, CoreTypes,
                   SessionRecords
<1> QED BY <1>1, <1>2, UnlockedLife

-----------------------------------------------------------------------------
(* The theorem *)

\* Every step keeps the invariant and is a step of the lifecycle.
LEMMA NextLife ==
  ASSUME OneProfile, LifeInv, [Next]_vars
  PROVE  LifeInv' /\ LifeStep
<1>1. SafeInv'
  BY LifeFacts, NextSafe
<1>2. CASE \E q \in Callers : Arrives(q)
  BY <1>1, <1>2, ArrivalLife DEF Requests
<1>3. CASE \E q \in Sweepers, r \in Runs : SweepScans(q, r)
  BY <1>1, <1>3, ArrivalLife DEF Requests
<1>4. CASE \E q \in Requests : Progress(q)
  BY <1>1, <1>4, SweepLocksLife, LockedLife
<1>5. CASE World
  BY <1>1, <1>5, WorldLife
<1>6. CASE UNCHANGED vars
  BY <1>1, <1>6, UnlockedLife DEF vars
<1> QED BY <1>2, <1>3, <1>4, <1>5, <1>6 DEF Next

\* At first every run is absent and nothing is leased.
LEMMA InitLife ==
  ASSUME Init
  PROVE  LifeInv /\ Lifecycle!Init
<1>1. SafeInv
  BY InitSafe
<1>2. \A q \in Requests : Served(q)
  BY DEF Init, NoRequest, Served, Working, Idle
<1>3. LeasedRuns /\ Lifecycle!Init
  BY DEF Init, LeasedRuns, Lifecycle!Init, Phase
<1> QED BY <1>1, <1>2, <1>3 DEF LifeInv

\* Sessions and leases come and go together: a Browserless run holds a worker lease
\* exactly while it is registered, whichever creation failed and whichever close or
\* sweep met it (ensureBrowserlessPinnedWorker, closeRunSessionLocked).
THEOREM LeasesFollowRegistry ==
  ASSUME OneProfile
  PROVE  Spec => []LeasedRuns
<1>1. LifeInv /\ [Next]_vars => LifeInv'
  BY NextLife
<1>2. Init => LifeInv
  BY InitLife
<1>3. LifeInv => LeasedRuns
  BY DEF LifeInv
<1> QED BY <1>1, <1>2, <1>3, PTL DEF Spec

\* Requests, sweeps and failures move each run only along the documented state
\* machine, whatever they find after an await, and the lease moves with it.
THEOREM LifecycleImplemented ==
  ASSUME OneProfile
  PROVE  Spec => ImplementsLifecycle
<1>1. Init => LifeInv /\ Lifecycle!Init
  BY InitLife
<1>2. LifeInv /\ [Next]_vars => LifeInv' /\ LifeStep
  BY NextLife
<1>3. LifeStep => [Lifecycle!Next]_<<Phase, leased>>
  BY DEF LifeStep
<1>4. Spec => Lifecycle!Init /\ [][Lifecycle!Next]_<<Phase, leased>>
  BY <1>1, <1>2, <1>3, PTL DEF Spec
<1> QED BY <1>4, PTL DEF ImplementsLifecycle, Lifecycle!Spec
=============================================================================
