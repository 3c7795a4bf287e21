---------------------- MODULE RunSessionsSafetyProofs ----------------------
(***************************************************************************)
(* Proofs of the safety properties of RunSessions that need one profile.   *)
(*                                                                         *)
(* The registry is keyed by run, the locks by profile and run, so requests *)
(* exclude each other on a run only when they name the same profile.  Then *)
(* the session a request works on stays registered and out of quarantine   *)
(* while it awaits (Held), because only the request itself changes either, *)
(* and what it writes back after an await is still right.                  *)
(***************************************************************************)
EXTENDS RunSessionsProofs

OneProfile == \E p : Profiles = {p}

\* What a request may rely on about the session it kept over an await.
Held(q) ==
  /\ req[q].created => Working(q) /\ req[q].op = "create"
  /\ Working(q) =>
       /\ req[q].pc \notin {"assigning", "releasing"} => Registered(q) = req[q].s
       /\ req[q].pc = "assigning" =>
            /\ ~session[req[q].s].closed
            /\ Registered(q) = IF req[q].created THEN None ELSE req[q].s
       /\ req[q].pc \notin {"quarantining", "closing", "releasing"} => ~session[req[q].s].degraded

RegisteredOpen == \A r \in Runs : runSessions[r] # None => ~session[runSessions[r]].closed

KeysOfRuns ==
  \A p \in Profiles, r \in Runs, k \in Keys :
    idempotency[<<<<p, r>>, k>>] # None => runSessions[r] # None

SafeInv == Inv /\ (\A q \in Requests : Held(q)) /\ RegisteredOpen /\ KeysOfRuns

\* One step: no session is resurrected, no run rebound, no degradation undone.
SafeStep ==
  \A r \in Runs :
    /\ runSessions'[r] \notin {runSessions[r], None} => ~session[runSessions'[r]].closed
    /\ runSessions[r] # None => runSessions'[r] \in {runSessions[r], None}
    /\ runSessions[r] # None /\ runSessions'[r] = runSessions[r]
         /\ session[runSessions[r]].degraded => session'[runSessions[r]].degraded

-----------------------------------------------------------------------------
(* What a step of q may change: its own run and the sessions of that run *)

\* A session that something else than q still refers to after the step.
InUse(q, s) ==
  (\E x \in Runs : runSessions'[x] = s) \/ (\E p \in Requests \ {q} : req[p].s = s)

\* The registry, the keys and the sessions as objects has them.
Update(q, objects) ==
  LET r == req[q].run IN
  /\ \A s \in Sessions : session[s].run # r => objects[s] = session[s]
  /\ \A x \in Runs \ {r} : runSessions'[x] = runSessions[x]
  /\ \/ runSessions'[r] \in {runSessions[r], None}
     \/ runSessions[r] = None /\ ~session[runSessions'[r]].closed
  /\ runSessions'[r] # None => ~objects[runSessions'[r]].closed
  /\ runSessions[r] # None /\ runSessions'[r] = runSessions[r] /\ session[runSessions[r]].degraded
       => objects[runSessions[r]].degraded
  /\ KeysOfRuns'

\* The same of the step itself, and what q relies on next.
Keeps(q) ==
  /\ \E objects : Update(q, objects) /\ \A s \in Sessions : InUse(q, s) => session'[s] = objects[s]
  /\ Held(q)'

\* The parts of the invariant, by name.
LEMMA SafeFacts ==
  ASSUME SafeInv
  PROVE  /\ Inv /\ TypeOK /\ OwnerInv /\ CoreTypes /\ RegistryTypes /\ WorldTypes
         /\ \A q \in Requests : Held(q)
         /\ RegisteredOpen /\ KeysOfRuns
BY Facts DEF SafeInv

\* Two requests that hold locks of the same run are the same.
LEMMA OneHolder ==
  ASSUME OneProfile, NEW p \in Requests, NEW q \in Requests, Holds(p), Holds(q),
         req[p].run = req[q].run
  PROVE  p = q
<1>1. LockOf(p) = LockOf(q)
  BY DEF OneProfile, Holds, LockOf, Locks
<1> QED BY <1>1 DEF Holds, AtHead

\* A step of the lock holder that updates only its run keeps all invariants.
LEMMA KeepsSafe ==
  ASSUME OneProfile, SafeInv, NEW q \in Requests, Holds(q), Sound(q), Keeps(q)
  PROVE  SafeInv' /\ SafeStep
<1> DEFINE r == req[q].run
<1>1. /\ Inv /\ TypeOK /\ OwnerInv /\ CoreTypes /\ RegistryTypes
      /\ \A p \in Requests : Held(p)
      /\ RegisteredOpen /\ KeysOfRuns
  BY SafeFacts
<1>2. Inv' /\ Others(q) /\ RegistryTypes'
  BY <1>1, SoundKeepsInv DEF Sound, Ending, QueueStep
<1>3. PICK objects : Update(q, objects) /\ \A s \in Sessions : InUse(q, s) => session'[s] = objects[s]
  BY DEF Keeps
<1>4. r \in Runs /\ \A x \in Runs : runSessions[x] # None => runSessions[x] \in Sessions
  BY <1>1 DEF Holds, LockOf, Locks, RegistryTypes
<1>5. \A x \in Runs : runSessions'[x] # None => runSessions'[x] \in Sessions
  BY <1>2 DEF RegistryTypes
<1>6. ASSUME NEW x \in Runs \ {r}
      PROVE  /\ runSessions'[x] = runSessions[x]
             /\ runSessions[x] # None => session'[runSessions[x]] = session[runSessions[x]]
  <2>1. runSessions'[x] = runSessions[x]
    BY <1>3 DEF Update
  <2>2. ASSUME runSessions[x] # None
        PROVE  session'[runSessions[x]] = session[runSessions[x]]
    <3>1. runSessions[x] \in Sessions /\ session[runSessions[x]].run = x
      BY <1>1, <1>4, <2>2 DEF OwnerInv, Owned
    <3>2. InUse(q, runSessions[x])
      BY <2>1 DEF InUse
    <3> QED BY <1>3, <3>1, <3>2 DEF Update
  <2> QED BY <2>1, <2>2
<1>7. runSessions'[r] # None => session'[runSessions'[r]] = objects[runSessions'[r]]
  BY <1>3, <1>4, <1>5 DEF InUse
<1>8. SafeStep
  <2> SUFFICES ASSUME NEW x \in Runs
               PROVE  /\ runSessions'[x] \notin {runSessions[x], None} => ~session[runSessions'[x]].closed
                      /\ runSessions[x] # None => runSessions'[x] \in {runSessions[x], None}
                      /\ runSessions[x] # None /\ runSessions'[x] = runSessions[x]
                           /\ session[runSessions[x]].degraded => session'[runSessions[x]].degraded
    BY DEF SafeStep
  <2>1. CASE x = r
    BY <1>3, <1>7, <2>1 DEF Update
  <2>2. CASE x # r
    BY <1>6, <2>2
  <2> QED BY <2>1, <2>2
<1>9. RegisteredOpen'
  <2> SUFFICES ASSUME NEW x \in Runs, runSessions'[x] # None
               PROVE  ~session'[runSessions'[x]].closed
    BY DEF RegisteredOpen
  <2>1. CASE x = r
    BY <1>3, <1>7, <2>1 DEF Update
  <2>2. CASE x # r
    BY <1>1, <1>6, <2>2 DEF RegisteredOpen
  <2> QED BY <2>1, <2>2
<1>10. ASSUME NEW p \in Requests PROVE Held(p)'
  <2>1. CASE p = q
    BY <2>1 DEF Keeps
  <2>2. CASE p # q /\ ~Working(p)
    <3>1. ~Working(p)' /\ req'[p] = req[p]
      BY <1>2, <2>2, OthersSame DEF Working, Idle
    <3> QED BY <1>1, <2>2, <3>1 DEF Held
  <2>3. CASE p # q /\ Working(p)
    <3>1. Working(p)' /\ req'[p] = req[p]
      BY <1>2, <2>3, OthersSame DEF Working, Idle
    <3>2. /\ Holds(p) /\ req[p].run \in Runs /\ req[p].s \in Sessions
          /\ session[req[p].s].run = req[p].run
      BY <1>1, <2>3, OwnSession DEF Owned
    <3>3. req[p].run # r
      BY <2>3, <3>2, OneHolder
    <3>4. Registered(p)' = Registered(p)
      BY <1>6, <3>1, <3>2, <3>3 DEF Registered
    <3>5. InUse(q, req[p].s)
      BY <2>3 DEF InUse
    <3>6. session'[req[p].s] = session[req[p].s]
      BY <1>3, <3>2, <3>3, <3>5 DEF Update
    <3>7. Held(p)
      BY <1>1
    <3> QED BY <2>3, <3>1, <3>4, <3>6, <3>7 DEF Held
  <2> QED BY <2>1, <2>2, <2>3
<1>11. KeysOfRuns'
  BY <1>3 DEF Update
<1> QED BY <1>2, <1>8, <1>9, <1>10, <1>11 DEF SafeInv

-----------------------------------------------------------------------------
(* The endings *)

\* A request that holds no session relies on nothing.
LEMMA NotWorkingHeld ==
  ASSUME NEW q, ~Working(q)', ~req'[q].created
  PROVE  Held(q)'
BY DEF Held

\* Collect leaves the objects in use as the step left them.
LEMMA CollectKeeps ==
  ASSUME NEW q \in Requests, NEW objects, Collect(q, objects)
  PROVE  \A s \in Sessions : InUse(q, s) => session'[s] = objects[s]
BY DEF Collect, InUse

\* Answering after an allowed update keeps what others rely on.
LEMMA AnswerKeeps ==
  ASSUME SafeInv, NEW q \in Requests, NEW outcome \in {"ok", "error"}, NEW objects,
         Update(q, objects), Answer(q, outcome, objects)
  PROVE  Keeps(q)
<1>1. CoreTypes
  BY SafeFacts
<1>2. req'[q].pc = outcome /\ req'[q].created = FALSE
  BY <1>1 DEF Answer, CoreTypes, NoRequest
<1>3. Held(q)'
  BY <1>2, NotWorkingHeld DEF Working, Idle
<1>4. \A s \in Sessions : InUse(q, s) => session'[s] = objects[s]
  BY CollectKeeps DEF Answer
<1> QED BY <1>3, <1>4 DEF Keeps

\* So does retrying.
LEMMA RetryKeeps ==
  ASSUME SafeInv, NEW q \in Requests, Update(q, session), Retry(q)
  PROVE  Keeps(q)
<1>1. CoreTypes /\ Held(q)
  BY SafeFacts
<1>2. req'[q].pc = "queued" /\ req'[q].created = req[q].created /\ req[q].op \in TabOps
  BY <1>1 DEF Retry, CoreTypes, RequestRecords
<1>3. Held(q)'
  BY <1>1, <1>2, NotWorkingHeld DEF Working, Held, TabOps
<1>4. \A s \in Sessions : InUse(q, s) => session'[s] = session[s]
  BY CollectKeeps DEF Retry
<1> QED BY <1>3, <1>4 DEF Keeps

\* So does awaiting, if the session stays registered and not degraded.
LEMMA AwaitKeeps ==
  ASSUME SafeInv, NEW q \in Requests, Working(q), Update(q, session'),
         NEW state \in PcStates \ {"ok", "error", "scanned", "queued", "assigning"},
         Await(q, state),
         state # "releasing" => Registered(q)' = req[q].s,
         state \notin {"quarantining", "closing", "releasing"} => ~session'[req[q].s].degraded
  PROVE  Keeps(q)
<1>1. CoreTypes /\ Held(q)
  BY SafeFacts
<1>2. /\ req'[q].pc = state /\ req'[q].created = req[q].created /\ req'[q].op = req[q].op
      /\ req'[q].s = req[q].s
  BY <1>1 DEF Await, CoreTypes, RequestRecords
<1>3. Working(q)'
  BY <1>2 DEF Working, Idle
<1>4. Held(q)'
  BY <1>1, <1>2, <1>3 DEF Held
<1> QED BY <1>4 DEF Keeps

\* The registry has not changed.
LEMMA SameUpdate ==
  ASSUME SafeInv, NEW q \in Requests, Holds(q), UNCHANGED registry,
         NEW objects,
         \A s \in Sessions : session[s].run # req[q].run => objects[s] = session[s],
         Registered(q) # None =>
           /\ ~objects[Registered(q)].closed
           /\ session[Registered(q)].degraded => objects[Registered(q)].degraded
  PROVE  Update(q, objects)
<1>1. runSessions' = runSessions /\ idempotency' = idempotency
  BY DEF registry
<1>2. KeysOfRuns'
  BY <1>1, SafeFacts DEF KeysOfRuns
<1> QED BY <1>1, <1>2 DEF Update, Registered

\* A step that changes nothing of the run is an allowed update.
LEMMA NothingUpdated ==
  ASSUME SafeInv, NEW q \in Requests, Holds(q), UNCHANGED registry
  PROVE  Update(q, session)
<1>1. req[q].run \in Runs
  BY DEF Holds, LockOf, Locks
<1>2. Registered(q) # None => ~session[Registered(q)].closed
  BY <1>1, SafeFacts DEF RegisteredOpen, Registered
<1> QED BY <1>2, SameUpdate

\* The run's session leaves the registry with the run's keys.
LEMMA ClearedUpdate ==
  ASSUME OneProfile, SafeInv, NEW q \in Requests, Holds(q), NEW p \in Profiles,
         Register(req[q].run, None), ClearIdempotency(<<p, req[q].run>>),
         NEW objects,
         \A s \in Sessions : session[s].run # req[q].run => objects[s] = session[s]
  PROVE  Update(q, objects)
<1> DEFINE r == req[q].run
<1>1. RegistryTypes /\ KeysOfRuns /\ r \in Runs
  BY SafeFacts DEF Holds, LockOf, Locks
<1>2. runSessions'[r] = None /\ \A x \in Runs \ {r} : runSessions'[x] = runSessions[x]
  BY <1>1 DEF Register, RegistryTypes
<1>3. ASSUME NEW y \in Profiles, NEW x \in Runs, NEW k \in Keys, idempotency'[<<<<y, x>>, k>>] # None
      PROVE  runSessions'[x] # None
  <2>1. <<<<y, x>>, k>> \in Locks \X Keys
    BY DEF Locks
  <2>2. <<y, x>> # <<p, r>> /\ idempotency[<<<<y, x>>, k>>] # None
    BY <1>3, <2>1 DEF ClearIdempotency
  <2>3. y = p
    BY DEF OneProfile
  <2> QED BY <1>1, <1>2, <2>2, <2>3 DEF KeysOfRuns
<1>4. KeysOfRuns'
  BY <1>3 DEF KeysOfRuns
<1> QED BY <1>2, <1>4 DEF Update

\* A failure closes a created session, or leaves the session as it was.
LEMMA FailKeeps ==
  ASSUME OneProfile, SafeInv, NEW q \in Requests, Holds(q), NEW objects, SameOwners(objects),
         \A s \in Sessions : session[s].run # req[q].run => objects[s] = session[s],
         Working(q) \/ Registered(q) # req[q].s,
         UNCHANGED registry => Update(q, objects),
         Fail(q, objects)
  PROVE  Keeps(q)
<1>1. CASE Rollback(q, objects)
  <2> DEFINE s == req[q].s
             r == req[q].run
             gone == [objects EXCEPT ![s].closed = TRUE]
  <2>1. Working(q) /\ Register(r, None) /\ ClearIdempotency(<<session[s].profile, r>>)
    BY <1>1 DEF Rollback
  <2>2. s \in Sessions /\ session[s].run = r /\ session[s].profile \in Profiles
    BY <2>1, SafeFacts, OwnSession DEF Owned
  <2>3. \A u \in Sessions : session[u].run # r => gone[u] = session[u]
    BY <2>2 DEF SameOwners
  <2>4. \/ Await(q, "releasing") /\ session' = gone
        \/ Answer(q, "error", gone)
    BY <1>1 DEF Rollback
  <2> HIDE DEF gone
  <2>5. Update(q, gone)
    BY <2>1, <2>2, <2>3, ClearedUpdate
  <2>6. CASE Await(q, "releasing") /\ session' = gone
    BY <2>1, <2>5, <2>6, AwaitKeeps DEF PcStates
  <2>7. CASE Answer(q, "error", gone)
    BY <2>5, <2>7, AnswerKeeps
  <2> QED BY <2>4, <2>6, <2>7
<1>2. CASE ~Rollback(q, objects)
  BY <1>2, AnswerKeeps DEF Fail
<1> QED BY <1>1, <1>2

\* The same for a failure that first changed no object.
LEMMA FailSameKeeps ==
  ASSUME OneProfile, SafeInv, NEW q \in Requests, Holds(q),
         Working(q) \/ Registered(q) # req[q].s, Fail(q, session)
  PROVE  Keeps(q)
BY FailKeeps, NothingUpdated, SafeFacts, SessionsSame

\* A rejected await fails or retries, and either keeps the invariant.
LEMMA RejectKeeps ==
  ASSUME OneProfile, SafeInv, NEW q \in Requests, Holds(q), Working(q), Reject(q)
  PROVE  Keeps(q)
BY FailSameKeeps, NothingUpdated, RetryKeeps DEF Reject

\* What q knows about its session once that is registered.
LEMMA HeldSession ==
  ASSUME SafeInv, NEW q \in Requests, Working(q), req[q].pc \notin {"assigning", "releasing"}
  PROVE  /\ Holds(q) /\ req[q].run \in Runs /\ req[q].s \in Sessions /\ req[q].s # None
         /\ session[req[q].s].run = req[q].run /\ session[req[q].s].profile \in Profiles
         /\ Registered(q) = req[q].s /\ runSessions[req[q].run] = req[q].s
         /\ ~session[req[q].s].closed
<1>1. /\ Holds(q) /\ req[q].run \in Runs /\ req[q].s \in Sessions /\ Owned(req[q].s, req[q].run)
  BY SafeFacts, OwnSession
<1>2. Registered(q) = req[q].s /\ req[q].s # None
  BY <1>1, SafeFacts, NoneIsNoSession DEF Held
<1> QED BY <1>1, <1>2, SafeFacts DEF RegisteredOpen, Registered, Owned

\* The session stays registered; its contents change.
LEMMA RegisterUpdate ==
  ASSUME SafeInv, NEW q \in Requests, Holds(q), NEW s \in Sessions,
         session[s].run = req[q].run, ~session[s].closed, Registered(q) \in {s, None},
         Register(req[q].run, s), KeysOfRuns',
         NEW objects,
         \A u \in Sessions : session[u].run # req[q].run => objects[u] = session[u],
         ~objects[s].closed, session[s].degraded => objects[s].degraded
  PROVE  Update(q, objects)
<1>1. RegistryTypes /\ req[q].run \in Runs
  BY SafeFacts DEF Holds, LockOf, Locks
<1>2. runSessions'[req[q].run] = s
      /\ \A x \in Runs \ {req[q].run} : runSessions'[x] = runSessions[x]
  BY <1>1 DEF Register, RegistryTypes
<1> QED BY <1>2 DEF Update, Registered

\* Registering a session loses no key's session.
LEMMA KeptKeys ==
  ASSUME SafeInv, NEW r \in Runs, NEW s \in Sessions, Register(r, s), UNCHANGED idempotency
  PROVE  KeysOfRuns'
<1>1. RegistryTypes /\ KeysOfRuns
  BY SafeFacts
<1>2. \A x \in Runs : runSessions[x] # None => runSessions'[x] # None
  BY <1>1, NoneIsNoSession DEF Register, RegistryTypes
<1> QED BY <1>1, <1>2 DEF KeysOfRuns

\* A key is remembered for a run that has a session.
LEMMA RememberedKeys ==
  ASSUME SafeInv, NEW q \in Requests, Holds(q), NEW s \in Sessions, NEW t,
         runSessions'[req[q].run] = s,
         \A x \in Runs : runSessions[x] # None => runSessions'[x] # None,
         Remember(q, t)
  PROVE  KeysOfRuns'
<1>1. RegistryTypes /\ KeysOfRuns
  BY SafeFacts
<1>2. ASSUME NEW y \in Profiles, NEW x \in Runs, NEW k \in Keys, idempotency'[<<<<y, x>>, k>>] # None
      PROVE  runSessions'[x] # None
  <2>1. CASE x = req[q].run
    BY <2>1, NoneIsNoSession
  <2>2. CASE x # req[q].run
    <3>1. <<<<y, x>>, k>> # <<LockOf(q), req[q].arg>> /\ <<<<y, x>>, k>> \in Locks \X Keys
      BY <2>2 DEF LockOf, Locks
    <3>2. idempotency'[<<<<y, x>>, k>>] = idempotency[<<<<y, x>>, k>>]
      BY <1>1, <3>1 DEF Remember, RegistryTypes
    <3> QED BY <1>1, <1>2, <3>2 DEF KeysOfRuns
  <2> QED BY <2>1, <2>2
<1> QED BY <1>2 DEF KeysOfRuns

\* Degrading registers the session that is registered already.
LEMMA DegradeKeeps ==
  ASSUME SafeInv, NEW q \in Requests, Working(q), req[q].pc \notin {"assigning", "releasing"},
         Degrade(q)
  PROVE  Keeps(q)
<1> DEFINE s == req[q].s
<1>1. /\ Holds(q) /\ req[q].run \in Runs /\ s \in Sessions /\ s # None
      /\ session[s].run = req[q].run /\ Registered(q) = s /\ runSessions[req[q].run] = s
      /\ ~session[s].closed
  BY HeldSession
<1>2. CoreTypes /\ RegistryTypes
  BY SafeFacts
<1>3. CASE session[s].degraded
  <2>1. UNCHANGED <<registry, session>>
    BY <1>3 DEF Degrade, registry
  <2>2. Update(q, session') /\ Registered(q)' = s
    <3>1. Update(q, session)
      BY <1>1, <2>1, NothingUpdated
    <3>2. req'[q].run = req[q].run
      BY <1>2 DEF Degrade, Await, CoreTypes, RequestRecords
    <3> QED BY <1>1, <2>1, <3>1, <3>2 DEF Registered, registry
  <2> QED BY <2>2, AwaitKeeps DEF Degrade, PcStates
<1>4. CASE ~session[s].degraded
  <2> DEFINE objects == [Touched(s) EXCEPT ![s].degraded = TRUE]
  <2>1. session' = objects /\ Register(req[q].run, s) /\ UNCHANGED idempotency
    BY <1>1, <1>4 DEF Degrade
  <2>2. /\ \A u \in Sessions : session[u].run # req[q].run => objects[u] = session[u]
        /\ ~objects[s].closed
    BY <1>1, <1>2 DEF Touched, CoreTypes, SessionRecords
  <2> HIDE DEF objects
  <2>3. KeysOfRuns'
    BY <1>1, <2>1, KeptKeys
  <2>4. Update(q, session')
    BY <1>1, <1>4, <2>1, <2>2, <2>3, RegisterUpdate
  <2>5. Registered(q)' = s
    <3>1. req'[q].run = req[q].run
      BY <1>2 DEF Degrade, Await, CoreTypes, RequestRecords
    <3> QED BY <1>1, <1>2, <2>1, <3>1 DEF Registered, Register, RegistryTypes
  <2> QED BY <2>4, <2>5, AwaitKeeps DEF Degrade, PcStates
<1> QED BY <1>3, <1>4

\* A failed page operation fails, degrades or retries.
LEMMA PageErrorKeeps ==
  ASSUME OneProfile, SafeInv, NEW q \in Requests, Working(q),
         req[q].pc \notin {"assigning", "releasing"}, PageError(q)
  PROVE  Keeps(q)
<1>1. Holds(q)
  BY HeldSession
<1> QED BY <1>1, FailSameKeeps, DegradeKeeps, NothingUpdated, RetryKeeps DEF PageError

\* The request awaits something else; the registry is as before.
LEMMA AwaitSameKeeps ==
  ASSUME SafeInv, NEW q \in Requests, Working(q), req[q].pc \notin {"assigning", "releasing"},
         NEW state \in PcStates \ {"ok", "error", "scanned", "queued", "assigning", "releasing"},
         Await(q, state), UNCHANGED registry, Update(q, session'),
         state \notin {"quarantining", "closing"} => ~session'[req[q].s].degraded
  PROVE  Keeps(q)
<1>1. Registered(q) = req[q].s /\ CoreTypes
  BY HeldSession, SafeFacts
<1>2. req'[q].run = req[q].run
  BY <1>1 DEF Await, CoreTypes, RequestRecords
<1>3. Registered(q)' = req[q].s
  BY <1>1, <1>2 DEF Registered, registry
<1> QED BY <1>3, AwaitKeeps

\* The capacity test fails the request or lets it launch.
LEMMA AdmitKeeps ==
  ASSUME OneProfile, SafeInv, NEW q \in Requests, Working(q),
         req[q].pc \in {"checking", "recycling"}, NEW objects, SameOwners(objects),
         \A s \in Sessions : session[s].run # req[q].run => objects[s] = session[s],
         ~objects[req[q].s].closed, ~objects[req[q].s].degraded,
         Admit(q, objects)
  PROVE  Keeps(q)
<1>1. /\ Holds(q) /\ Registered(q) = req[q].s /\ Held(q)
      /\ ~session[req[q].s].degraded
  BY HeldSession, SafeFacts DEF Held
<1>2. UNCHANGED registry => Update(q, objects)
  BY <1>1, SameUpdate
<1>3. CASE Fail(q, objects)
  BY <1>1, <1>2, <1>3, FailKeeps
<1>4. CASE Await(q, "launching") /\ session' = objects /\ UNCHANGED <<registry, leased>>
  BY <1>2, <1>4, AwaitSameKeeps DEF PcStates
<1> QED BY <1>3, <1>4 DEF Admit

\* Going on with a runtime changes nothing of the session.
LEMMA ProceedKeeps ==
  ASSUME SafeInv, NEW q \in Requests, Working(q), req[q].pc \in {"checking", "connecting"},
         Proceed(q)
  PROVE  Keeps(q)
<1>1. Holds(q) /\ ~session[req[q].s].degraded /\ UNCHANGED registry
  BY HeldSession, SafeFacts DEF Held, Proceed
<1>2. Update(q, session)
  BY <1>1, NothingUpdated
<1>3. CASE Answer(q, "ok", session)
  BY <1>2, <1>3, AnswerKeeps
<1>4. CASE UNCHANGED session /\ (Await(q, "listing") \/ Await(q, "creating"))
  BY <1>1, <1>2, <1>4, AwaitSameKeeps DEF PcStates
<1> QED BY <1>3, <1>4 DEF Proceed

-----------------------------------------------------------------------------
(* The steps of a request that holds its lock *)

\* At its turn a request holds the lock and has created nothing.
LEMMA TurnHolds ==
  ASSUME SafeInv, NEW q \in Requests, MyTurn(q)
  PROVE  /\ Holds(q) /\ req[q].run \in Runs /\ req[q].profile \in Profiles
         /\ ~Working(q) /\ req[q].created = FALSE
         /\ Registered(q) # None =>
              /\ Registered(q) \in Sessions /\ runSessions[req[q].run] = Registered(q)
              /\ session[Registered(q)].run = req[q].run
              /\ ~session[Registered(q)].closed
<1>1. /\ Holds(q) /\ req[q].run \in Runs /\ req[q].profile \in Profiles
      /\ Registered(q) # None => Registered(q) \in Sessions /\ Owned(Registered(q), req[q].run)
  BY SafeFacts, TurnFacts
<1>2. ~Working(q)
  BY DEF MyTurn, Working
<1>3. req[q].created \in BOOLEAN
  BY SafeFacts DEF CoreTypes, RequestRecords
<1>4. req[q].created = FALSE
  BY <1>2, <1>3, SafeFacts DEF Held
<1> QED BY <1>1, <1>2, <1>4, SafeFacts DEF Owned, RegisteredOpen, Registered

\* The run's session is touched and nothing else changes in it.
LEMMA TouchedKept ==
  ASSUME CoreTypes, NEW s \in Sessions, NEW r, session[s].run = r
  PROVE  /\ \A u \in Sessions : session[u].run # r => Touched(s)[u] = session[u]
         /\ Touched(s)[s].closed = session[s].closed
         /\ Touched(s)[s].degraded = session[s].degraded
BY DEF Touched, CoreTypes, SessionRecords

\* The request goes on with the registered session of its run.
LEMMA BeginKeeps ==
  ASSUME SafeInv, NEW q \in Requests, MyTurn(q), Registered(q) # None, UNCHANGED runSessions,
         Update(q, session'), ~session'[Registered(q)].closed,
         req'[q].s = Registered(q), req'[q].run = req[q].run, ~req'[q].created,
         req'[q].pc # "releasing",
         req'[q].pc # "closing" => ~session'[Registered(q)].degraded
  PROVE  Keeps(q)
<1>1. Registered(q)' = Registered(q)
  BY DEF Registered
<1>2. Held(q)'
  BY <1>1 DEF Held
<1> QED BY <1>2 DEF Keeps

\* What taking up a session sets in the request.
LEMMA StartsFacts ==
  ASSUME SafeInv, NEW q \in Requests, NEW state, NEW s, NEW t, Starts(q, state, s, t)
  PROVE  /\ req'[q].pc = state /\ req'[q].s = s /\ req'[q].run = req[q].run
         /\ req'[q].created = req[q].created
BY SafeFacts DEF Starts, CoreTypes, RequestRecords

\* A new object is not registered, and it is open.
LEMMA NewSessionKeeps ==
  ASSUME SafeInv, NEW q \in Requests, MyTurn(q), req[q].op = "create",
         Registered(q) = None, NewSession(q)
  PROVE  Keeps(q)
<1>1. PICK s \in Sessions :
        /\ FreeSession(s)
        /\ session' = [session EXCEPT
             ![s] = [NoSession EXCEPT !.run = req[q].run, !.profile = req[q].profile]]
        /\ req' = [req EXCEPT ![q].pc = "assigning", ![q].s = s, ![q].created = TRUE]
        /\ UNCHANGED <<runLocks, registry, leased>>
  BY DEF NewSession
<1>2. CoreTypes /\ Holds(q)
  BY SafeFacts, TurnHolds
<1>3. Update(q, session)
  BY <1>1, <1>2, NothingUpdated
<1>4. \A u \in Sessions : InUse(q, u) => session'[u] = session[u]
  BY <1>1, <1>2 DEF InUse, FreeSession, CoreTypes, registry
<1>5. ~session'[s].closed /\ ~session'[s].degraded
  BY <1>1, <1>2 DEF NoSession, CoreTypes
<1>6. /\ req'[q].pc = "assigning" /\ req'[q].s = s /\ req'[q].created /\ req'[q].run = req[q].run
      /\ req'[q].op = req[q].op
  <2> req \in [Requests -> RequestRecords]
    BY <1>2 DEF CoreTypes
  <2> QED BY <1>1 DEF RequestRecords
<1>7. Registered(q)' = None
  BY <1>1, <1>6 DEF Registered, registry
<1>8. Held(q)'
  BY <1>5, <1>6, <1>7 DEF Held, Working, Idle
<1> QED BY <1>3, <1>4, <1>8 DEF Keeps

\* CreateTurn updates only its own run, in an allowed way.
LEMMA CreateTurnKeeps ==
  ASSUME OneProfile, SafeInv, NEW q \in Requests, CreateTurn(q)
  PROVE  Keeps(q)
<1> DEFINE s == Registered(q)
<1>1. MyTurn(q) /\ req[q].op = "create"
  BY DEF CreateTurn
<1>2. /\ Holds(q) /\ req[q].created = FALSE /\ CoreTypes
      /\ s # None => s \in Sessions /\ session[s].run = req[q].run /\ ~session[s].closed
  BY <1>1, SafeFacts, TurnHolds
<1>3. CASE s = None /\ NewSession(q)
  BY <1>1, <1>3, NewSessionKeeps
<1>4. CASE s # None /\ Fail(q, session)
  <2>1. Registered(q) # req[q].s
    BY <1>1, <1>4, SafeFacts, WaitingHasNone
  <2> QED BY <1>2, <1>4, <2>1, FailSameKeeps
<1>5. CASE /\ s # None /\ ~session[s].degraded
           /\ req' = [req EXCEPT ![q].pc = IF Browserless THEN "assigning" ELSE "checking",
                                 ![q].s = s]
           /\ session' = IF Browserless THEN session ELSE Touched(s)
           /\ UNCHANGED <<runLocks, registry, leased>>
  <2>1. /\ \A u \in Sessions : session[u].run # req[q].run => session'[u] = session[u]
        /\ ~session'[s].closed /\ ~session'[s].degraded
    BY <1>2, <1>5, TouchedKept
  <2>2. UNCHANGED registry /\ UNCHANGED runSessions
    BY <1>5 DEF registry
  <2>3. Update(q, session')
    BY <1>2, <1>5, <2>1, <2>2, SameUpdate
  <2>4. /\ req'[q].pc \in {"assigning", "checking"} /\ req'[q].s = s
        /\ req'[q].run = req[q].run /\ ~req'[q].created
    <3> req \in [Requests -> RequestRecords]
      BY <1>2 DEF CoreTypes
    <3> HIDE DEF s
    <3> QED BY <1>2, <1>5 DEF RequestRecords
  <2> QED BY <1>1, <1>5, <2>1, <2>2, <2>3, <2>4, BeginKeeps
<1> QED BY <1>3, <1>4, <1>5 DEF CreateTurn, Bound

\* AssignReturns updates only its own run, in an allowed way.
LEMMA AssignReturnsKeeps ==
  ASSUME SafeInv, NEW q \in Requests, AssignReturns(q)
  PROVE  Keeps(q)
<1> DEFINE s == req[q].s
           r == req[q].run
<1>1. Working(q) /\ req[q].pc = "assigning"
  BY DEF AssignReturns, Working, Idle
<1>2. /\ Holds(q) /\ r \in Runs /\ s \in Sessions /\ session[s].run = r
      /\ CoreTypes /\ RegistryTypes
      /\ ~session[s].closed /\ ~session[s].degraded /\ Registered(q) \in {s, None}
  BY <1>1, SafeFacts, OwnSession DEF Held, Owned
<1>3. CASE UNCHANGED <<registry, leased>> /\ Answer(q, "error", session)
  BY <1>2, <1>3, NothingUpdated, AnswerKeeps
<1>4. CASE /\ session' = Touched(s) /\ Register(r, s)
           /\ Await(q, "checking") /\ UNCHANGED <<targetOwners, idempotency>>
  <2>1. /\ \A u \in Sessions : session[u].run # r => session'[u] = session[u]
        /\ ~session'[s].closed /\ ~session'[s].degraded
    BY <1>2, <1>4, TouchedKept
  <2>2. KeysOfRuns'
    BY <1>2, <1>4, KeptKeys
  <2>3. Update(q, session')
    BY <1>2, <1>4, <2>1, <2>2, RegisterUpdate
  <2>4. Registered(q)' = s
    <3>1. req'[q].run = r
      BY <1>2, <1>4 DEF Await, CoreTypes, RequestRecords
    <3> QED BY <1>2, <1>4, <3>1 DEF Registered, Register, RegistryTypes
  <2> QED BY <1>1, <1>4, <2>1, <2>3, <2>4, AwaitKeeps DEF PcStates
<1> QED BY <1>3, <1>4 DEF AssignReturns

\* TabTurn updates only its own run, in an allowed way.
LEMMA TabTurnKeeps ==
  ASSUME SafeInv, NEW q \in Requests, TabTurn(q)
  PROVE  Keeps(q)
<1> DEFINE s == Registered(q)
<1>1. MyTurn(q) /\ s # None /\ UNCHANGED <<runSessions, targetOwners, external>>
  BY DEF TabTurn, Bound
<1>2. /\ Holds(q) /\ req[q].run \in Runs /\ req[q].created = FALSE /\ CoreTypes /\ KeysOfRuns
      /\ s \in Sessions /\ runSessions[req[q].run] = s
      /\ session[s].run = req[q].run /\ ~session[s].closed
  BY <1>1, SafeFacts, TurnHolds
<1>3. /\ \A u \in Sessions : session[u].run # req[q].run => Touched(s)[u] = session[u]
      /\ Touched(s)[s].closed = session[s].closed
      /\ Touched(s)[s].degraded = session[s].degraded
  BY <1>2, TouchedKept
<1>4. KeysOfRuns'
  <2>1. CASE UNCHANGED idempotency
    BY <1>1, <1>2, <2>1 DEF KeysOfRuns
  <2>2. CASE Remember(q, session[s].target)
    BY <1>1, <1>2, <2>2, RememberedKeys
  <2> QED BY <2>1, <2>2 DEF TabTurn
<1>5. Update(q, Touched(s))
  BY <1>1, <1>2, <1>3, <1>4 DEF Update, Registered
<1>6. CASE Answer(q, "error", Touched(s)) \/ Answer(q, "ok", Touched(s))
  BY <1>5, <1>6, AnswerKeeps
<1>7. ASSUME NEW t, EnsureBrowserFor(q, s, t)
      PROVE  Keeps(q)
  <2>1. CASE Answer(q, "error", Touched(s))
    BY <1>5, <2>1, AnswerKeeps
  <2>2. CASE ~session[s].degraded /\ session' = Touched(s) /\ Starts(q, "checking", s, t)
    <3>1. /\ req'[q].pc = "checking" /\ req'[q].s = s /\ req'[q].run = req[q].run
          /\ req'[q].created = req[q].created
      BY <2>2, StartsFacts
    <3> QED BY <1>1, <1>2, <1>3, <1>5, <2>2, <3>1, BeginKeeps
  <2> QED BY <1>7, <2>1, <2>2 DEF EnsureBrowserFor, Starts
<1> QED BY <1>6, <1>7 DEF TabTurn

\* setActiveTarget writes back a session that is still registered.
LEMMA SetActiveTargetKeeps ==
  ASSUME SafeInv, NEW q \in Requests, Working(q), req[q].pc \notin {"assigning", "releasing"},
         SetActiveTarget(q),
         UNCHANGED idempotency \/ Remember(q, req[q].target)
  PROVE  Keeps(q)
<1> DEFINE s == req[q].s
           r == req[q].run
           objects == [Touched(s) EXCEPT ![s].target = req[q].target]
<1>1. /\ Holds(q) /\ r \in Runs /\ s \in Sessions /\ session[s].run = r
      /\ Registered(q) = s /\ runSessions[r] = s /\ ~session[s].closed
      /\ CoreTypes /\ RegistryTypes
  BY HeldSession, SafeFacts
<1>2. Register(r, s) /\ Answer(q, "ok", objects)
  BY DEF SetActiveTarget
<1>3. /\ \A u \in Sessions : session[u].run # r => objects[u] = session[u]
      /\ objects[s].closed = session[s].closed /\ objects[s].degraded = session[s].degraded
  BY <1>1 DEF Touched, CoreTypes, SessionRecords
<1> HIDE DEF objects
<1>4. KeysOfRuns'
  <2>1. CASE UNCHANGED idempotency
    BY <1>1, <1>2, <2>1, KeptKeys
  <2>2. CASE Remember(q, req[q].target)
    <3>1. runSessions' = runSessions
      BY <1>1, <1>2 DEF Register, RegistryTypes
    <3> QED BY <1>1, <2>2, <3>1, RememberedKeys
  <2> QED BY <2>1, <2>2
<1>5. Update(q, objects)
  BY <1>1, <1>2, <1>3, <1>4, RegisterUpdate
<1> QED BY <1>2, <1>5, AnswerKeeps

\* clearOwnedTarget writes back a session that is still registered.
LEMMA ClearOwnedTargetKeeps ==
  ASSUME SafeInv, NEW q \in Requests, Working(q), req[q].pc \notin {"assigning", "releasing"},
         ClearOwnedTarget(q)
  PROVE  Keeps(q)
<1> DEFINE s == req[q].s
           r == req[q].run
           objects == [Touched(s) EXCEPT ![s].target = None]
<1>1. /\ Holds(q) /\ r \in Runs /\ s \in Sessions /\ session[s].run = r
      /\ Registered(q) = s /\ ~session[s].closed /\ CoreTypes
  BY HeldSession, SafeFacts
<1>2. Register(r, s) /\ Answer(q, "error", objects) /\ UNCHANGED idempotency
  BY DEF ClearOwnedTarget
<1>3. /\ \A u \in Sessions : session[u].run # r => objects[u] = session[u]
      /\ objects[s].closed = session[s].closed /\ objects[s].degraded = session[s].degraded
  BY <1>1 DEF Touched, CoreTypes, SessionRecords
<1> HIDE DEF objects
<1>4. KeysOfRuns'
  BY <1>1, <1>2, KeptKeys
<1>5. Update(q, objects)
  BY <1>1, <1>2, <1>3, <1>4, RegisterUpdate
<1> QED BY <1>2, <1>5, AnswerKeeps

\* CheckReturns updates only its own run, in an allowed way.
LEMMA CheckReturnsKeeps ==
  ASSUME OneProfile, SafeInv, NEW q \in Requests, CheckReturns(q)
  PROVE  Keeps(q)
<1>1. Working(q) /\ req[q].pc = "checking"
  BY DEF CheckReturns, Working, Idle
<1>2. Holds(q) /\ ~session[req[q].s].closed /\ ~session[req[q].s].degraded /\ SameOwners(session)
  BY <1>1, HeldSession, SafeFacts, SessionsSame DEF Held
<1>3. CASE Admit(q, session)
  BY <1>1, <1>2, <1>3, AdmitKeeps
<1>4. CASE Proceed(q)
  BY <1>1, <1>4, ProceedKeeps
<1>5. CASE Degrade(q)
  BY <1>1, <1>5, DegradeKeeps
<1>6. CASE Await(q, "recycling") /\ UNCHANGED <<session, registry, leased>>
  BY <1>1, <1>2, <1>6, NothingUpdated, AwaitSameKeeps DEF PcStates
<1> QED BY <1>3, <1>4, <1>5, <1>6 DEF CheckReturns

\* RecycleReturns updates only its own run, in an allowed way.
LEMMA RecycleReturnsKeeps ==
  ASSUME OneProfile, SafeInv, NEW q \in Requests, RecycleReturns(q)
  PROVE  Keeps(q)
<1> DEFINE objects == [session EXCEPT ![req[q].s].runtime = FALSE]
<1>1. Working(q) /\ req[q].pc = "recycling" /\ Admit(q, objects)
  BY DEF RecycleReturns, Working, Idle
<1>2. /\ req[q].s \in Sessions /\ session[req[q].s].run = req[q].run
      /\ ~session[req[q].s].closed /\ ~session[req[q].s].degraded /\ CoreTypes
  BY <1>1, HeldSession, SafeFacts DEF Held
<1>3. SameOwners(objects)
  BY SafeFacts, SessionsSame, RuntimeSame
<1>4. /\ \A u \in Sessions : session[u].run # req[q].run => objects[u] = session[u]
      /\ ~objects[req[q].s].closed /\ ~objects[req[q].s].degraded
  BY <1>2 DEF CoreTypes, SessionRecords
<1> HIDE DEF objects
<1> QED BY <1>1, <1>3, <1>4, AdmitKeeps

\* LaunchReturns updates only its own run, in an allowed way.
LEMMA LaunchReturnsKeeps ==
  ASSUME OneProfile, SafeInv, NEW q \in Requests, LaunchReturns(q)
  PROVE  Keeps(q)
<1>1. Working(q) /\ req[q].pc = "launching"
  BY DEF LaunchReturns, Working, Idle
<1>2. /\ Holds(q) /\ req[q].s \in Sessions /\ session[req[q].s].run = req[q].run
      /\ Registered(q) = req[q].s
      /\ ~session[req[q].s].closed /\ ~session[req[q].s].degraded /\ CoreTypes
  BY <1>1, HeldSession, SafeFacts DEF Held
<1>3. CASE Reject(q)
  BY <1>1, <1>2, <1>3, RejectKeeps
<1>4. CASE /\ session' = [session EXCEPT ![req[q].s].runtime = TRUE]
           /\ Await(q, "readying") \/ Await(q, "connecting")
           /\ UNCHANGED <<registry, leased>>
  <2>1. /\ \A u \in Sessions : session[u].run # req[q].run => session'[u] = session[u]
        /\ ~session'[req[q].s].closed /\ ~session'[req[q].s].degraded
    BY <1>2, <1>4 DEF CoreTypes, SessionRecords
  <2>2. Update(q, session')
    BY <1>2, <1>4, <2>1, SameUpdate
  <2> QED BY <1>1, <1>4, <2>1, <2>2, AwaitSameKeeps DEF PcStates
<1> QED BY <1>3, <1>4 DEF LaunchReturns

\* ReadinessReturns updates only its own run, in an allowed way.
LEMMA ReadinessReturnsKeeps ==
  ASSUME SafeInv, NEW q \in Requests, ReadinessReturns(q)
  PROVE  Keeps(q)
<1>1. Working(q) /\ req[q].pc = "readying" /\ UNCHANGED registry
  BY DEF ReadinessReturns, Working, Idle
<1>2. /\ Holds(q) /\ req[q].s \in Sessions /\ session[req[q].s].run = req[q].run
      /\ Registered(q) = req[q].s
      /\ ~session[req[q].s].closed /\ ~session[req[q].s].degraded /\ CoreTypes
  BY <1>1, HeldSession, SafeFacts DEF Held
<1>3. CASE Await(q, "quarantining") /\ UNCHANGED session
  BY <1>1, <1>2, <1>3, NothingUpdated, AwaitSameKeeps DEF PcStates
<1>4. CASE Await(q, "connecting") /\ session' = [session EXCEPT ![req[q].s].degraded = FALSE]
  <2>1. /\ \A u \in Sessions : session[u].run # req[q].run => session'[u] = session[u]
        /\ ~session'[req[q].s].closed /\ ~session'[req[q].s].degraded
    BY <1>2, <1>4 DEF CoreTypes, SessionRecords
  <2>2. Update(q, session')
    BY <1>1, <1>2, <2>1, SameUpdate
  <2> QED BY <1>1, <1>4, <2>1, <2>2, AwaitSameKeeps DEF PcStates
<1> QED BY <1>3, <1>4 DEF ReadinessReturns

\* PageReturns updates only its own run, in an allowed way.
LEMMA PageReturnsKeeps ==
  ASSUME OneProfile, SafeInv, NEW q \in Requests,
         ConnectReturns(q) \/ Quarantined(q) \/ FocusReturns(q)
  PROVE  Keeps(q)
<1>1. Working(q) /\ req[q].pc \in {"connecting", "quarantining", "focusing"}
  BY DEF ConnectReturns, Quarantined, FocusReturns, Working, Idle
<1>2. Holds(q)
  BY <1>1, HeldSession
<1>3. CASE ConnectReturns(q)
  BY <1>1, <1>2, <1>3, ProceedKeeps, RejectKeeps DEF ConnectReturns
<1>4. CASE Quarantined(q)
  BY <1>1, <1>2, <1>4, FailSameKeeps DEF Quarantined
<1>5. CASE FocusReturns(q)
  BY <1>1, <1>2, <1>5, PageErrorKeeps, SetActiveTargetKeeps DEF FocusReturns
<1> QED BY <1>3, <1>4, <1>5

\* CreatePageReturns updates only its own run, in an allowed way.
LEMMA CreatePageReturnsKeeps ==
  ASSUME OneProfile, SafeInv, NEW q \in Requests, CreatePageReturns(q)
  PROVE  Keeps(q)
<1>1. Working(q) /\ req[q].pc = "creating"
  BY DEF CreatePageReturns, Working, Idle
<1>2. CASE PageError(q)
  BY <1>1, <1>2, PageErrorKeeps
<1>3. CASE ~PageError(q)
  <2>1. PICK t \in Targets : req' = [req EXCEPT ![q].pc = "listing", ![q].target = t]
    BY <1>3 DEF CreatePageReturns
  <2>2. UNCHANGED session /\ UNCHANGED registry
    BY <1>3 DEF CreatePageReturns
  <2>3. Update(q, session)
    BY <1>1, <2>2, HeldSession, NothingUpdated
  <2>4. /\ req'[q].pc = "listing" /\ req'[q].s = req[q].s /\ req'[q].run = req[q].run
        /\ req'[q].created = req[q].created /\ req'[q].op = req[q].op
    <3> req \in [Requests -> RequestRecords]
      BY SafeFacts DEF CoreTypes
    <3> QED BY <2>1 DEF RequestRecords
  <2>5. Held(q) /\ Registered(q)' = Registered(q)
    BY <2>2, <2>4, SafeFacts DEF Registered, registry
  <2>6. Held(q)'
    BY <1>1, <2>2, <2>4, <2>5 DEF Held, Working, Idle
  <2> QED BY <2>2, <2>3, <2>6 DEF Keeps
<1> QED BY <1>2, <1>3

\* ListReturns updates only its own run, in an allowed way.
LEMMA ListReturnsKeeps ==
  ASSUME OneProfile, SafeInv, NEW q \in Requests, ListReturns(q)
  PROVE  Keeps(q)
<1>1. Working(q) /\ req[q].pc = "listing"
  BY DEF ListReturns, Working, Idle
<1>2. Holds(q) /\ ~session[req[q].s].degraded
  BY <1>1, HeldSession, SafeFacts DEF Held
<1>3. CASE PageError(q)
  BY <1>1, <1>3, PageErrorKeeps
<1>4. CASE Fail(q, session)
  BY <1>1, <1>2, <1>4, FailSameKeeps
<1>5. CASE (Await(q, "closing") \/ Await(q, "focusing")) /\ UNCHANGED <<session, registry, leased>>
  BY <1>1, <1>2, <1>5, NothingUpdated, AwaitSameKeeps DEF PcStates
<1>6. CASE ClearOwnedTarget(q)
  BY <1>1, <1>6, ClearOwnedTargetKeeps
<1>7. CASE SetActiveTarget(q) /\ Remember(q, req[q].target)
  BY <1>1, <1>7, SetActiveTargetKeeps
<1> QED BY <1>3, <1>4, <1>5, <1>6, <1>7 DEF ListReturns

\* AnswerTurns updates only its own run, in an allowed way.
LEMMA AnswerTurnsKeep ==
  ASSUME SafeInv, NEW q \in Requests, AnswerFromCache(q) \/ RefuseTab(q)
  PROVE  Keeps(q)
<1>1. MyTurn(q) /\ UNCHANGED registry /\ (Answer(q, "ok", session) \/ Answer(q, "error", session))
  BY DEF AnswerFromCache, RefuseTab
<1> QED BY <1>1, TurnHolds, NothingUpdated, AnswerKeeps

\* CloseTurn updates only its own run, in an allowed way.
LEMMA CloseTurnKeeps ==
  ASSUME SafeInv, NEW q \in Requests, CloseTurn(q)
  PROVE  Keeps(q)
<1>1. MyTurn(q) /\ UNCHANGED registry
  BY DEF CloseTurn
<1>2. Update(q, session)
  BY <1>1, TurnHolds, NothingUpdated
<1>3. CASE Answer(q, "ok", session) \/ Answer(q, "error", session)
  BY <1>2, <1>3, AnswerKeeps
<1>4. ASSUME NEW t, Bound(q), StartClosing(q, Registered(q), t)
      PROVE  Keeps(q)
  <2>1. Starts(q, "closing", Registered(q), t) /\ UNCHANGED session /\ Registered(q) # None
    BY <1>4 DEF StartClosing, Starts, Bound
  <2>2. /\ req'[q].pc = "closing" /\ req'[q].s = Registered(q) /\ req'[q].run = req[q].run
        /\ req'[q].created = req[q].created
    BY <2>1, StartsFacts
  <2> QED BY <1>1, <1>2, <2>1, <2>2, TurnHolds, BeginKeeps DEF registry
<1> QED BY <1>3, <1>4 DEF CloseTurn

\* SweepTurn updates only its own run, in an allowed way.
LEMMA SweepTurnKeeps ==
  ASSUME SafeInv, NEW q \in Requests, SweepTurn(q)
  PROVE  Keeps(q)
<1>1. MyTurn(q) /\ UNCHANGED registry /\ req[q].op = "sweep"
  BY DEF SweepTurn
<1>2. Update(q, session)
  BY <1>1, TurnHolds, NothingUpdated
<1>3. CASE Answer(q, "ok", session)
  BY <1>2, <1>3, AnswerKeeps
<1>4. CASE StillExpired(q) /\ StartClosing(q, req[q].s, session[req[q].s].target)
  <2>1. /\ Starts(q, "closing", Registered(q), session[req[q].s].target)
        /\ UNCHANGED session /\ Registered(q) = req[q].s
    BY <1>4 DEF StartClosing, Starts, StillExpired
  <2>2. req[q].s \in Sessions
    BY <1>1, SafeFacts DEF OwnerInv, Refers, Idle, MyTurn
  <2>3. /\ req'[q].pc = "closing" /\ req'[q].s = Registered(q) /\ req'[q].run = req[q].run
        /\ req'[q].created = req[q].created
    BY <2>1, StartsFacts
  <2> QED BY <1>1, <1>2, <2>1, <2>2, <2>3, NoneIsNoSession, TurnHolds, BeginKeeps DEF registry
<1> QED BY <1>3, <1>4 DEF SweepTurn

\* CloseReturns updates only its own run, in an allowed way.
LEMMA CloseReturnsKeeps ==
  ASSUME OneProfile, SafeInv, NEW q \in Requests, CloseReturns(q)
  PROVE  Keeps(q)
<1> DEFINE s == req[q].s
           r == req[q].run
           objects == [session EXCEPT ![s].closed = TRUE]
<1>1. Working(q) /\ req[q].pc = "closing"
  BY DEF CloseReturns, Working, Idle
<1>2. /\ Holds(q) /\ s \in Sessions /\ session[s].run = r /\ session[s].profile \in Profiles
  BY <1>1, HeldSession
<1>3. Register(r, None) /\ ClearIdempotency(<<session[s].profile, r>>)
  BY DEF CloseReturns
<1>4. \A u \in Sessions : session[u].run # r => objects[u] = session[u]
  BY <1>2, SafeFacts DEF CoreTypes
<1>5. \/ Await(q, "releasing") /\ session' = objects
      \/ Answer(q, CloseOutcome(q), objects)
  BY DEF CloseReturns
<1>6. CloseOutcome(q) \in {"ok", "error"}
  BY DEF CloseOutcome
<1> HIDE DEF objects
<1>7. Update(q, objects)
  BY <1>2, <1>3, <1>4, ClearedUpdate
<1>8. CASE Await(q, "releasing") /\ session' = objects
  BY <1>1, <1>7, <1>8, AwaitKeeps DEF PcStates
<1>9. CASE Answer(q, CloseOutcome(q), objects)
  BY <1>6, <1>7, <1>9, AnswerKeeps
<1> QED BY <1>5, <1>8, <1>9

\* ReleaseReturns updates only its own run, in an allowed way.
LEMMA ReleaseReturnsKeeps ==
  ASSUME SafeInv, NEW q \in Requests, ReleaseReturns(q)
  PROVE  Keeps(q)
<1>1. Working(q) /\ UNCHANGED registry /\ Answer(q, CloseOutcome(q), session)
  BY DEF ReleaseReturns, Working, Idle
<1>2. CloseOutcome(q) \in {"ok", "error"} /\ Holds(q)
  BY <1>1, SafeFacts, OwnSession DEF CloseOutcome
<1> QED BY <1>1, <1>2, NothingUpdated, AnswerKeeps

\* Every step of a request that has got its lock.
LEMMA LockedProgress ==
  ASSUME OneProfile, SafeInv, NEW q \in Requests, Progress(q), ~SweepLocks(q)
  PROVE  Holds(q) /\ Keeps(q)
<1>1. Holds(q)
  <2>1. MyTurn(q) \/ Working(q)
    BY DEF Progress, CreateTurn, AnswerFromCache, RefuseTab, TabTurn, CloseTurn, SweepTurn,
           AssignReturns, CheckReturns, RecycleReturns, LaunchReturns, ReadinessReturns,
           ConnectReturns, CreatePageReturns, ListReturns, FocusReturns, Quarantined,
           CloseReturns, ReleaseReturns, Working, Idle
  <2> QED BY <2>1, SafeFacts, HoldsItsLock
<1>2. Keeps(q)
  BY CreateTurnKeeps, AnswerTurnsKeep, TabTurnKeeps, CloseTurnKeeps, SweepTurnKeeps,
     AssignReturnsKeeps, CheckReturnsKeeps, RecycleReturnsKeeps, LaunchReturnsKeeps,
     ReadinessReturnsKeeps, PageReturnsKeeps, CreatePageReturnsKeeps, ListReturnsKeeps,
     CloseReturnsKeeps, ReleaseReturnsKeeps
     DEF Progress
<1> QED BY <1>1, <1>2

-----------------------------------------------------------------------------
(* The steps outside the locks *)

\* Nothing a request relies on has changed.
LEMMA UnlockedSafe ==
  ASSUME SafeInv, Inv', UNCHANGED runSessions, KeysOfRuns',
         \A s \in Sessions :
           (\E r \in Runs : runSessions[r] = s) \/ (\E p \in Requests : req'[p].s = s)
             => session'[s].closed = session[s].closed /\ session'[s].degraded = session[s].degraded,
         \A p \in Requests : req'[p] = req[p] \/ (~Working(p)' /\ ~req'[p].created)
  PROVE  SafeInv' /\ SafeStep
<1>1. /\ Inv /\ RegistryTypes /\ OwnerInv /\ (\A p \in Requests : Held(p))
      /\ RegisteredOpen /\ KeysOfRuns
  BY SafeFacts
<1>2. \A r \in Runs : runSessions[r] # None => runSessions[r] \in Sessions
  BY <1>1 DEF RegistryTypes
<1>3. RegisteredOpen' /\ SafeStep
  BY <1>1, <1>2 DEF RegisteredOpen, SafeStep
<1>4. ASSUME NEW p \in Requests PROVE Held(p)'
  <2>1. CASE req'[p] = req[p] /\ Working(p)
    <3>1. Working(p)' /\ Registered(p)' = Registered(p)
      BY <2>1 DEF Working, Idle, Registered
    <3>2. req[p].s \in Sessions /\ Held(p)
      BY <1>1, <2>1, OwnSession
    <3>3. session'[req[p].s].closed = session[req[p].s].closed
          /\ session'[req[p].s].degraded = session[req[p].s].degraded
      BY <2>1, <3>2
    <3> QED BY <2>1, <3>1, <3>2, <3>3 DEF Held
  <2>2. CASE req'[p] = req[p] /\ ~Working(p)
    <3>1. ~Working(p)' /\ ~req'[p].created
      BY <1>1, <2>2 DEF Working, Idle, Held
    <3> QED BY <3>1, NotWorkingHeld
  <2>3. CASE ~Working(p)' /\ ~req'[p].created
    BY <2>3, NotWorkingHeld
  <2> QED BY <2>1, <2>2, <2>3
<1> QED BY <1>3, <1>4 DEF SafeInv

\* An arrival changes no session.
LEMMA ArriveSafe ==
  ASSUME SafeInv, Inv', NEW q \in Requests, NEW op, NEW p, NEW r, NEW arg, Arrive(q, op, p, r, arg)
  PROVE  SafeInv' /\ SafeStep
<1>1. CoreTypes /\ KeysOfRuns /\ OwnerInv
  BY SafeFacts
<1>2. UNCHANGED <<runSessions, idempotency, session>>
  BY DEF Arrive, registry
<1>3. /\ \A x \in Requests \ {q} : req'[x] = req[x]
      /\ req'[q].pc = "queued" /\ req'[q].created = FALSE
  BY <1>1 DEF Arrive, CoreTypes, NoRequest
<1>4. \A x \in Requests : req'[x] = req[x] \/ (~Working(x)' /\ ~req'[x].created)
  BY <1>3 DEF Working
<1>5. KeysOfRuns'
  BY <1>1, <1>2 DEF KeysOfRuns
<1> QED BY <1>2, <1>4, <1>5, UnlockedSafe

\* A scan changes no session.
LEMMA SweepScansSafe ==
  ASSUME SafeInv, Inv', NEW q \in Requests, NEW r \in Runs, SweepScans(q, r)
  PROVE  SafeInv' /\ SafeStep
<1>1. CoreTypes /\ KeysOfRuns
  BY SafeFacts
<1>2. UNCHANGED <<runSessions, idempotency, session>>
  BY DEF SweepScans, registry
<1>3. /\ \A x \in Requests \ {q} : req'[x] = req[x]
      /\ req'[q].pc = "scanned" /\ req'[q].created = FALSE
  BY <1>1 DEF SweepScans, CoreTypes, NoRequest
<1>4. \A x \in Requests : req'[x] = req[x] \/ (~Working(x)' /\ ~req'[x].created)
  BY <1>3 DEF Working
<1>5. KeysOfRuns'
  BY <1>1, <1>2 DEF KeysOfRuns
<1> QED BY <1>2, <1>4, <1>5, UnlockedSafe

\* Taking the lock's key from the registry changes no session.
LEMMA SweepLocksSafe ==
  ASSUME SafeInv, Inv', NEW q \in Requests, SweepLocks(q)
  PROVE  SafeInv' /\ SafeStep
<1>1. CoreTypes /\ KeysOfRuns /\ Held(q) /\ req[q].pc = "scanned"
  BY SafeFacts DEF SweepLocks
<1>2. UNCHANGED <<runSessions, idempotency>>
  BY DEF SweepLocks, registry
<1>3. KeysOfRuns'
  BY <1>1, <1>2 DEF KeysOfRuns
<1>4. ~req[q].created
  BY <1>1 DEF Held, Working
<1>5. CASE req' = [req EXCEPT ![q] = NoRequest] /\ Collect(q, session)
  <2>1. /\ \A x \in Requests \ {q} : req'[x] = req[x]
        /\ req'[q] = NoRequest
    BY <1>1, <1>5 DEF CoreTypes
  <2>2. \A x \in Requests : req'[x] = req[x] \/ (~Working(x)' /\ ~req'[x].created)
    BY <2>1 DEF Working, Idle, NoRequest
  <2>3. \A s \in Sessions :
          (\E r \in Runs : runSessions[r] = s) \/ (\E p \in Requests : req'[p].s = s)
            => session'[s] = session[s]
    BY <1>2, <1>5, <2>1, NoneIsNoSession DEF Collect, NoRequest
  <2> QED BY <1>2, <1>3, <2>2, <2>3, UnlockedSafe
<1>6. CASE /\ UNCHANGED session
           /\ req' = [req EXCEPT ![q].pc = "queued", ![q].profile = session[Registered(q)].profile]
  <2>1. /\ \A x \in Requests \ {q} : req'[x] = req[x]
        /\ req'[q].pc = "queued" /\ req'[q].created = req[q].created
    BY <1>1, <1>6 DEF CoreTypes, RequestRecords
  <2>2. \A x \in Requests : req'[x] = req[x] \/ (~Working(x)' /\ ~req'[x].created)
    BY <1>4, <2>1 DEF Working
  <2> QED BY <1>2, <1>3, <1>6, <2>2, UnlockedSafe
<1> QED BY <1>5, <1>6 DEF SweepLocks

\* Expiry, pages and browsers change neither registry nor degradation.
LEMMA WorldSafe ==
  ASSUME SafeInv, Inv', World
  PROVE  SafeInv' /\ SafeStep
<1>1. CoreTypes /\ KeysOfRuns
  BY SafeFacts
<1>2. UNCHANGED <<runSessions, req>>
  BY DEF World, PageOpens, BrowserExits, Expire, PageCloses, KeyExpires, registry
<1>3. \A s \in Sessions :
        session'[s].closed = session[s].closed /\ session'[s].degraded = session[s].degraded
  BY <1>1 DEF World, PageOpens, BrowserExits, Expire, PageCloses, KeyExpires, CoreTypes,
              SessionRecords
<1>4. KeysOfRuns'
  <2>1. \A k \in Locks \X Keys : idempotency'[k] # None => idempotency[k] # None
    <3>1. CASE UNCHANGED idempotency
      BY <3>1
    <3>2. CASE \E k \in Locks \X Keys : KeyExpires(k)
      BY <3>2, SafeFacts DEF KeyExpires, RegistryTypes
    <3> QED BY <3>1, <3>2 DEF World, PageOpens, BrowserExits, Expire, PageCloses, registry
  <2>2. \A p \in Profiles, r \in Runs, k \in Keys : <<<<p, r>>, k>> \in Locks \X Keys
    BY DEF Locks
  <2> QED BY <1>1, <1>2, <2>1, <2>2 DEF KeysOfRuns
<1> QED BY <1>2, <1>3, <1>4, UnlockedSafe

-----------------------------------------------------------------------------
(* The theorems *)

\* Every step keeps the invariant and is a legal step of each session.
LEMMA NextSafe ==
  ASSUME OneProfile, SafeInv, [Next]_vars
  PROVE  SafeInv' /\ SafeStep
<1>1. Inv /\ Inv'
  BY SafeFacts, NextKeepsInv
<1>2. ASSUME NEW q \in Requests, Arrives(q)
      PROVE  SafeInv' /\ SafeStep
  <2>1. \E p \in Profiles, r \in Runs : \E op, arg : Arrive(q, op, p, r, arg)
    BY <1>2 DEF Arrives, EnsureRunSession, EnsureTabAvailable, CloseRunSession
  <2> QED BY <1>1, <2>1, ArriveSafe
<1>3. ASSUME NEW q \in Requests, NEW r \in Runs, SweepScans(q, r)
      PROVE  SafeInv' /\ SafeStep
  BY <1>1, <1>3, SweepScansSafe
<1>4. ASSUME NEW q \in Requests, Progress(q)
      PROVE  SafeInv' /\ SafeStep
  <2>1. CASE SweepLocks(q)
    BY <1>1, <2>1, SweepLocksSafe
  <2>2. CASE ~SweepLocks(q)
    BY <1>1, <1>4, <2>2, LockedProgress, ProgressSound, KeepsSafe
  <2> QED BY <2>1, <2>2
<1>5. CASE World
  BY <1>1, <1>5, WorldSafe
<1>6. CASE UNCHANGED vars
  <2>1. UNCHANGED <<runSessions, idempotency, session, req>> /\ KeysOfRuns'
    BY <1>6, SafeFacts DEF vars, KeysOfRuns
  <2> QED BY <1>1, <2>1, UnlockedSafe
<1> QED BY <1>2, <1>3, <1>4, <1>5, <1>6 DEF Next, Requests

\* The invariant holds at first.
LEMMA InitSafe ==
  ASSUME Init
  PROVE  SafeInv
<1>1. Inv
  BY InitInv
<1>2. \A q \in Requests : req[q].pc = "ok" /\ ~req[q].created
  BY DEF Init, NoRequest
<1>3. \A q \in Requests : Held(q)
  BY <1>2 DEF Held, Working, Idle
<1>4. RegisteredOpen /\ KeysOfRuns
  BY DEF Init, RegisteredOpen, KeysOfRuns, Locks
<1> QED BY <1>1, <1>3, <1>4 DEF SafeInv

\* What requests rely on after an await holds in every state, and no step breaks
\* the life of a session.
THEOREM SafeCorrect ==
  ASSUME OneProfile
  PROVE  Spec => [](SafeInv) /\ [][SafeStep]_vars
<1>1. Init => SafeInv
  BY InitSafe
<1>2. SafeInv /\ [Next]_vars => SafeInv' /\ SafeStep
  BY NextSafe
<1> QED BY <1>1, <1>2, PTL DEF Spec

\* A request that kept its reference over an await never puts a closed session
\* back into the registry.
THEOREM ClosedStaysClosed ==
  ASSUME OneProfile
  PROVE  Spec => NoResurrection
<1>1. SafeStep => \A r \in Runs : runSessions'[r] \notin {runSessions[r], None}
                    => ~session[runSessions'[r]].closed
  BY DEF SafeStep
<1> QED BY <1>1, SafeCorrect, PTL DEF NoResurrection

\* No request and no sweep ever gives a run another session while it has one.
THEOREM BindingHolds ==
  ASSUME OneProfile
  PROVE  Spec => BindingStable
<1>1. SafeStep => \A r \in Runs : runSessions[r] # None => runSessions'[r] \in {runSessions[r], None}
  BY DEF SafeStep
<1> QED BY <1>1, SafeCorrect, PTL DEF BindingStable

\* A degraded session is never put back into service: a readiness check that
\* succeeds late clears only a flag that was not set.
THEOREM DegradationIsFinal ==
  ASSUME OneProfile
  PROVE  Spec => DegradedIsFinal
<1>1. SafeStep => \A r \in Runs : runSessions[r] # None /\ runSessions'[r] = runSessions[r]
                    /\ session[runSessions[r]].degraded => session'[runSessions[r]].degraded
  BY DEF SafeStep
<1> QED BY <1>1, SafeCorrect, PTL DEF DegradedIsFinal

\* The keys of a run are forgotten with its session, on every path that ends it.
THEOREM KeysFollowSessions ==
  ASSUME OneProfile
  PROVE  Spec => []KeysBelongToSessions
<1>1. SafeInv => KeysBelongToSessions
  <2> SUFFICES ASSUME SafeInv, NEW p \in Profiles, NEW r \in Runs, NEW k \in Keys,
                      idempotency[<<<<p, r>>, k>>] # None
               PROVE  runSessions[r] # None /\ session[runSessions[r]].profile = p
    BY DEF KeysBelongToSessions
  <2>1. runSessions[r] # None
    BY SafeFacts DEF KeysOfRuns
  <2>2. session[runSessions[r]].profile \in Profiles
    BY <2>1, SafeFacts DEF OwnerInv, Owned
  <2> QED BY <2>1, <2>2 DEF OneProfile
<1> QED BY <1>1, SafeCorrect, PTL
=============================================================================
