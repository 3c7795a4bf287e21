------------------------- MODULE RunSessionsProofs -------------------------
(***************************************************************************)
(* Proofs about RunSessions, for every number of profiles, runs, requests, *)
(* sweepers, sessions, targets and keys and for both providers.            *)
(*                                                                         *)
(* A request may use its session because it is first on the lock of its    *)
(* run (QueueInv), and it works on a session of that run (OwnerInv).  Most *)
(* steps end in one of a few ways: the request awaits something else, is   *)
(* answered, or queues again.  A lemma says what each ending preserves;    *)
(* the proof of an action only shows that its endings' conditions hold.    *)
(***************************************************************************)
EXTENDS RunSessions, SequenceTheorems, TLAPS

InQueue(q) == req[q].pc \notin {"ok", "error", "scanned"}
AtHead(q) == runLocks[LockOf(q)] # <<>> /\ Head(runLocks[LockOf(q)]) = q

\* The locks' queues hold exactly the requests that are under way, each of them
\* once and on its own lock; only the first of a queue is past "queued".
QueueInv ==
  /\ \A q \in Requests : InQueue(q) =>
       /\ LockOf(q) \in Locks
       /\ \E i \in 1..Len(runLocks[LockOf(q)]) : runLocks[LockOf(q)][i] = q
       /\ req[q].pc # "queued" => AtHead(q)
  /\ \A l \in Locks : \A i \in 1..Len(runLocks[l]) :
       /\ InQueue(runLocks[l][i]) /\ LockOf(runLocks[l][i]) = l
       /\ \A j \in 1..Len(runLocks[l]) : runLocks[l][i] = runLocks[l][j] => i = j

\* Requests that keep a reference to a session object.
Refers(q) == Working(q) \/ (req[q].op = "sweep" /\ ~Idle(q))

\* A request for a page names one; only sweeps scan.
Fits(q) ==
  /\ req[q].op = "target" => req[q].arg \in Targets
  /\ req[q].op = "close" => req[q].arg \in Targets \cup {None}
  /\ req[q].pc = "scanned" => req[q].op = "sweep"

Owned(s, r) == session[s].run = r /\ session[s].profile \in Profiles

Kept(s) == session'[s].run = session[s].run /\ session'[s].profile = session[s].profile

\* A session object that is referred to belongs to the run it is used for.
OwnerInv ==
  /\ \A q \in Requests : Refers(q) =>
       req[q].run \in Runs /\ req[q].s \in Sessions /\ Owned(req[q].s, req[q].run)
  /\ \A q \in Requests : ~Refers(q) => req[q].s = None
  /\ \A q \in Requests : Fits(q)
  /\ \A r \in Runs : runSessions[r] # None => Owned(runSessions[r], r)

Inv == TypeOK /\ QueueInv /\ OwnerInv

\* The request holds its lock, so its step may use it.
Holds(q) == InQueue(q) /\ LockOf(q) \in Locks /\ AtHead(q)

-----------------------------------------------------------------------------
(* The parts of the type invariant *)

SessionRecords ==
  [run : Runs \cup {None}, profile : Profiles \cup {None}, runtime : BOOLEAN,
   target : Targets \cup {None}, degraded : BOOLEAN, expired : SUBSET Timeouts, closed : BOOLEAN]

RequestRecords ==
  [pc : PcStates, op : TabOps \cup {"none", "create", "close", "sweep"},
   profile : Profiles \cup {None}, run : Runs \cup {None},
   arg : Targets \cup Keys \cup Timeouts \cup {None}, s : Sessions \cup {None},
   target : Targets \cup {None}, created : BOOLEAN, retried : BOOLEAN]

CoreTypes ==
  /\ session \in [Sessions -> SessionRecords]
  /\ runLocks \in [Locks -> Seq(Requests)]
  /\ req \in [Requests -> RequestRecords]

RegistryTypes ==
  /\ runSessions \in [Runs -> Sessions \cup {None}]
  /\ targetOwners \in [Targets -> Runs \cup {None}]
  /\ idempotency \in [Locks \X Keys -> Targets \cup {None}]

WorldTypes ==
  /\ leased \subseteq Runs
  /\ chrome \subseteq Sessions
  /\ home \in [Targets -> Sessions \cup {None}]

USE DEF Owned, Kept

\* The type invariant is the conjunction of its three parts.
LEMMA TypeParts == TypeOK <=> CoreTypes /\ RegistryTypes /\ WorldTypes
BY DEF TypeOK, CoreTypes, RegistryTypes, WorldTypes, SessionRecords, RequestRecords

\* Blank session and request records have the types of the maps.
LEMMA BlankRecords ==
  /\ NoSession \in SessionRecords
  /\ \A outcome \in {"ok", "error"} : [NoRequest EXCEPT !.pc = outcome] \in RequestRecords
  /\ NoRequest \in RequestRecords
BY DEF NoSession, SessionRecords, NoRequest, RequestRecords, PcStates, TabOps

-----------------------------------------------------------------------------
(* What a step of q does to the locks and to the ownership of sessions *)

Others(q) == \A p \in Requests \ {q} : req'[p] = req[p]

Stays(q) ==
  /\ runLocks' = runLocks
  /\ req'[q].pc \notin {"ok", "error", "scanned", "queued"}
  /\ LockOf(q)' = LockOf(q)

Leaves(q) == Unlock(q) /\ req'[q].pc \in {"ok", "error"}

Requeues(q) ==
  /\ runLocks' = [runLocks EXCEPT ![LockOf(q)] = Append(Tail(@), q)]
  /\ req'[q].pc = "queued"
  /\ LockOf(q)' = LockOf(q)

Joins(q) ==
  /\ ~InQueue(q) /\ LockOf(q)' \in Locks /\ req'[q].pc = "queued"
  /\ runLocks' = [runLocks EXCEPT ![LockOf(q)'] = Append(@, q)]

Outside(q) == ~InQueue(q) /\ ~InQueue(q)' /\ UNCHANGED runLocks

QueueStep(q) ==
  /\ Others(q)
  /\ \/ Holds(q) /\ (Stays(q) \/ Leaves(q) \/ Requeues(q))
     \/ Joins(q) \/ Outside(q)

OwnerStep(q) ==
  /\ \A p \in Requests \ {q} :
       req[p].s \in Sessions => Kept(req[p].s)
  /\ \A r \in Runs : runSessions'[r] # None => Owned(runSessions[r], r)'
  /\ Refers(q)' =>
       req'[q].run \in Runs /\ req'[q].s \in Sessions /\ Owned(req[q].s, req[q].run)'
  /\ ~Refers(q)' => req'[q].s = None
  /\ Fits(q)'

\* What all the endings establish.
Ending(q) ==
  /\ CoreTypes' /\ RegistryTypes' /\ leased' \subseteq Runs
  /\ QueueStep(q) /\ OwnerStep(q)

\* The objects are those of the sessions, possibly with other contents.
SameOwners(objects) ==
  /\ objects \in [Sessions -> SessionRecords]
  /\ \A s \in Sessions :
       objects[s].run = session[s].run /\ objects[s].profile = session[s].profile

\* What is registered are sessions of the run.
Registry ==
  /\ RegistryTypes'
  /\ \A r \in Runs : runSessions'[r] # None => Owned(runSessions'[r], r)

\* None is not a session, so a registered session is a real one.
LEMMA NoneIsNoSession == None \notin Sessions
BY SessionsAssumption DEF Sessions

\* The objects as they are have their own owners.
LEMMA SessionsSame ==
  ASSUME CoreTypes
  PROVE  SameOwners(session)
BY DEF CoreTypes, SameOwners

\* touchSession changes no owner.
LEMMA TouchedSame ==
  ASSUME CoreTypes, NEW s
  PROVE  SameOwners(Touched(s))
BY DEF Touched, SessionRecords, CoreTypes, SameOwners

\* Marking an object closed changes no owner.
LEMMA ClosedSame ==
  ASSUME NEW objects, SameOwners(objects), NEW s
  PROVE  SameOwners([objects EXCEPT ![s].closed = TRUE])
BY DEF SessionRecords, SameOwners

\* Setting or clearing degradedAt changes no owner.
LEMMA DegradedSame ==
  ASSUME NEW objects, SameOwners(objects), NEW s, NEW b \in BOOLEAN
  PROVE  SameOwners([objects EXCEPT ![s].degraded = b])
BY DEF SessionRecords, SameOwners

\* Setting or dropping the runtime changes no owner.
LEMMA RuntimeSame ==
  ASSUME NEW objects, SameOwners(objects), NEW s, NEW b \in BOOLEAN
  PROVE  SameOwners([objects EXCEPT ![s].runtime = b])
BY DEF SessionRecords, SameOwners

\* Setting the active target changes no owner.
LEMMA TargetSame ==
  ASSUME NEW objects, SameOwners(objects), NEW s, NEW t \in Targets \cup {None}
  PROVE  SameOwners([objects EXCEPT ![s].target = t])
BY DEF SessionRecords, SameOwners

\* A step that leaves the maps alone leaves them right.
LEMMA RegistryKept ==
  ASSUME RegistryTypes, OwnerInv, UNCHANGED registry
  PROVE  Registry
BY DEF RegistryTypes, registry, Registry, OwnerInv

\* runSessions.set and delete keep the registry typed.
LEMMA RegisterTypes ==
  ASSUME RegistryTypes, NEW r, NEW s \in Sessions \cup {None}, Register(r, s)
  PROVE  runSessions' \in [Runs -> Sessions \cup {None}]
BY DEF RegistryTypes, Register

\* Registering a session of the run, or none, keeps every entry on its run.
LEMMA RegisterOwners ==
  ASSUME RegistryTypes, OwnerInv, NEW r, NEW s \in Sessions \cup {None}, Register(r, s),
         s = None \/ Owned(s, r)
  PROVE  \A x \in Runs : runSessions'[x] # None => Owned(runSessions'[x], x)
BY DEF RegistryTypes, Register, OwnerInv

\* targetOwners.delete keeps the owners typed.
LEMMA DisownTypes ==
  ASSUME RegistryTypes, NEW t, Disown(t)
  PROVE  targetOwners' \in [Targets -> Runs \cup {None}]
BY DEF RegistryTypes, Disown

\* clearIdempotencyForRun keeps the results typed.
LEMMA ClearTypes ==
  ASSUME RegistryTypes, NEW l, ClearIdempotency(l)
  PROVE  idempotency' \in [Locks \X Keys -> Targets \cup {None}]
BY DEF RegistryTypes, ClearIdempotency

-----------------------------------------------------------------------------
(* The endings *)

\* Collecting an unreferenced object leaves those in use with their owners.
LEMMA CollectOwners ==
  ASSUME TypeOK, OwnerInv, NEW q \in Requests, Registry,
         NEW objects, SameOwners(objects), Collect(q, objects)
  PROVE  /\ session' \in [Sessions -> SessionRecords]
         /\ \A p \in Requests \ {q} :
              req[p].s \in Sessions => Kept(req[p].s)
         /\ \A r \in Runs : runSessions'[r] # None => Owned(runSessions[r], r)'
<1>1. session' \in [Sessions -> SessionRecords]
  BY BlankRecords DEF Collect, SameOwners
<1>2. ASSUME NEW s \in Sessions,
             (\E r \in Runs : runSessions'[r] = s) \/ (\E p \in Requests \ {q} : req[p].s = s)
      PROVE  Kept(s)
  BY <1>2 DEF Collect, SameOwners
<1>3. \A r \in Runs : runSessions'[r] # None => runSessions'[r] \in Sessions
  BY DEF Registry, RegistryTypes
<1> QED BY <1>1, <1>2, <1>3 DEF Registry

\* An answer is an ending: the request leaves its queue and keeps nothing.
LEMMA AnswerEnds ==
  ASSUME TypeOK, OwnerInv, NEW q \in Requests, Holds(q), Registry, leased' \subseteq Runs,
         NEW outcome \in {"ok", "error"}, NEW objects, SameOwners(objects),
         Answer(q, outcome, objects)
  PROVE  Ending(q)
<1> CoreTypes /\ RegistryTypes /\ WorldTypes
  BY TypeParts
<1>1. Collect(q, objects) /\ Unlock(q)
      /\ req' = [req EXCEPT ![q] = [NoRequest EXCEPT !.pc = outcome]]
  BY DEF Answer
<1>2. runLocks' \in [Locks -> Seq(Requests)]
  BY <1>1 DEF CoreTypes, Holds, AtHead, Unlock
<1>3. req' \in [Requests -> RequestRecords] /\ Others(q)
  BY <1>1, BlankRecords DEF CoreTypes, Others
<1>4. /\ req'[q].pc = outcome /\ req'[q].op = "none"
       /\ req'[q].s = None
  BY <1>1 DEF CoreTypes, NoRequest
<1>5. QueueStep(q)
  BY <1>1, <1>3, <1>4 DEF QueueStep, Leaves
<1>6. ~Refers(q)'
  BY <1>4 DEF Refers, Working, Idle
<1> QED BY <1>1, <1>2, <1>3, <1>4, <1>5, <1>6, CollectOwners DEF Ending, OwnerStep, Fits, CoreTypes, Registry

\* Awaiting the next answer is an ending: the request stays first.
LEMMA AwaitEnds ==
  ASSUME TypeOK, OwnerInv, NEW q \in Requests, Holds(q), Registry, leased' \subseteq Runs,
         NEW state \in PcStates \ {"ok", "error", "scanned", "queued"}, Working(q),
         SameOwners(session'), Await(q, state)
  PROVE  Ending(q)
<1> CoreTypes /\ RegistryTypes /\ WorldTypes
  BY TypeParts
<1>1. req' \in [Requests -> RequestRecords] /\ Others(q)
  BY DEF Await, CoreTypes, Others, RequestRecords
<1>2. /\ req'[q].pc = state /\ req'[q].s = req[q].s
      /\ req'[q].run = req[q].run /\ req'[q].profile = req[q].profile
      /\ req'[q].op = req[q].op /\ req'[q].arg = req[q].arg
  BY DEF Await, CoreTypes, RequestRecords
<1>3. QueueStep(q)
  BY <1>1, <1>2 DEF QueueStep, Stays, Await, LockOf
<1>4. req[q].run \in Runs /\ req[q].s \in Sessions /\ Owned(req[q].s, req[q].run)
  BY DEF OwnerInv, Refers
<1>5. \A r \in Runs : runSessions'[r] # None => runSessions'[r] \in Sessions
  BY DEF Registry, RegistryTypes
<1>6. Refers(q)'
  BY <1>2 DEF Refers, Working, Idle
<1>7. OwnerStep(q)
  BY <1>2, <1>4, <1>5, <1>6 DEF OwnerStep, OwnerInv, Fits, SameOwners, Registry
<1> QED BY <1>1, <1>3, <1>7 DEF Ending, CoreTypes, Registry, SameOwners, Await

\* The retry is an ending: the request goes to the back of its queue.
LEMMA RetryEnds ==
  ASSUME TypeOK, OwnerInv, NEW q \in Requests, Holds(q), Registry, leased' \subseteq Runs, Retry(q)
  PROVE  Ending(q)
<1> CoreTypes /\ RegistryTypes /\ WorldTypes
  BY TypeParts
<1>1. req' \in [Requests -> RequestRecords] /\ Others(q)
  BY DEF Retry, CoreTypes, Others, RequestRecords, PcStates
<1>2. /\ req'[q].pc = "queued" /\ req'[q].op \in TabOps /\ req'[q].s = None
      /\ req'[q].run = req[q].run /\ req'[q].profile = req[q].profile
      /\ req'[q].op = req[q].op /\ req'[q].arg = req[q].arg
  BY DEF Retry, CoreTypes, RequestRecords
<1>3. QueueStep(q)
  BY <1>1, <1>2 DEF QueueStep, Requeues, Retry, LockOf
<1>4. ~Refers(q)'
  BY <1>2 DEF Refers, Working, Idle, TabOps
<1>5. Append(Tail(runLocks[LockOf(q)]), q) \in Seq(Requests)
  BY DEF CoreTypes, Holds, AtHead
<1>6. runLocks' \in [Locks -> Seq(Requests)]
  BY <1>5 DEF Retry, CoreTypes
<1>7. Collect(q, session)
  BY DEF Retry
<1> QED BY <1>1, <1>2, <1>3, <1>4, <1>6, <1>7, CollectOwners, SessionsSame
        DEF Ending, OwnerStep, OwnerInv, Fits, CoreTypes, Registry

\* A failure, with or without rollback, is an ending.
LEMMA FailEnds ==
  ASSUME TypeOK, OwnerInv, NEW q \in Requests, Holds(q), NEW objects, SameOwners(objects),
         Working(q) \/ Registered(q) # req[q].s, Fail(q, objects)
  PROVE  Ending(q)
<1> CoreTypes /\ RegistryTypes /\ WorldTypes
  BY TypeParts
<1>1. CASE Rollback(q, objects)
  <2> DEFINE s == req[q].s
             gone == [objects EXCEPT ![s].closed = TRUE]
  <2>1. RegistryTypes'
    BY <1>1, RegisterTypes, DisownTypes, ClearTypes DEF Rollback, RegistryTypes
  <2>2. Registry
    BY <1>1, <2>1, RegisterOwners DEF Rollback, Registry
  <2>3. leased' \subseteq Runs
    BY <1>1 DEF Rollback, WorldTypes
  <2>4. SameOwners(gone)
    BY ClosedSame
  <2>5. CASE Browserless
    <3>1. Await(q, "releasing") /\ session' = gone
      BY <1>1, <2>5 DEF Rollback
    <3>2. "releasing" \in PcStates \ {"ok", "error", "scanned", "queued"}
      BY DEF PcStates
    <3>3. Working(q)
      BY <1>1 DEF Rollback
    <3> HIDE DEF gone
    <3> QED BY <2>2, <2>3, <2>4, <3>1, <3>2, <3>3, AwaitEnds
  <2>6. CASE ~Browserless
    <3>1. Answer(q, "error", gone)
      BY <1>1, <2>6 DEF Rollback
    <3> HIDE DEF gone
    <3> QED BY <2>2, <2>3, <2>4, <3>1, AnswerEnds
  <2> QED BY <2>5, <2>6
<1>2. CASE ~Rollback(q, objects)
  <2>1. UNCHANGED <<registry, leased>> /\ Answer(q, "error", objects)
    BY <1>2 DEF Fail
  <2> QED BY <2>1, AnswerEnds, RegistryKept DEF WorldTypes
<1> QED BY <1>1, <1>2

\* A rejected await of ensureBrowserRunning is an ending.
LEMMA RejectEnds ==
  ASSUME TypeOK, OwnerInv, NEW q \in Requests, Holds(q), Working(q), Reject(q)
  PROVE  Ending(q)
<1> CoreTypes /\ RegistryTypes /\ WorldTypes
  BY TypeParts
<1>1. CASE Fail(q, session)
  BY <1>1, FailEnds, SessionsSame
<1>2. CASE UNCHANGED <<registry, leased>> /\ Retry(q)
  BY <1>2, RetryEnds, RegistryKept DEF WorldTypes
<1> QED BY <1>1, <1>2 DEF Reject

\* Degrading the session is an ending.
LEMMA DegradeEnds ==
  ASSUME TypeOK, OwnerInv, NEW q \in Requests, Holds(q), Working(q), Degrade(q)
  PROVE  Ending(q)
<1> CoreTypes /\ RegistryTypes /\ WorldTypes
  BY TypeParts
<1> DEFINE s == req[q].s
<1>1. s \in Sessions /\ session[s].profile \in Profiles
  BY DEF OwnerInv, Refers
<1>2. CASE session[s].degraded
  <2>1. UNCHANGED <<session, registry>>
    BY <1>2 DEF Degrade, registry
  <2>2. SameOwners(session')
    BY <2>1, SessionsSame
  <2> QED BY <2>1, <2>2, RegistryKept, AwaitEnds DEF Degrade, WorldTypes, PcStates
<1>3. CASE ~session[s].degraded
  <2>1. session' = [Touched(s) EXCEPT ![s].degraded = TRUE] /\ Register(session[s].run, s)
    BY <1>3 DEF Degrade
  <2>2. SameOwners(session')
    BY <2>1, TouchedSame, DegradedSame
  <2>3. Registry
    BY <1>1, <2>1, RegisterTypes, RegisterOwners DEF Degrade, Registry, RegistryTypes
  <2> QED BY <2>2, <2>3, AwaitEnds DEF Degrade, WorldTypes, PcStates
<1> QED BY <1>2, <1>3

\* A failed page operation is an ending.
LEMMA PageErrorEnds ==
  ASSUME TypeOK, OwnerInv, NEW q \in Requests, Holds(q), Working(q), PageError(q)
  PROVE  Ending(q)
<1> CoreTypes /\ RegistryTypes /\ WorldTypes
  BY TypeParts
<1>1. CASE Fail(q, session)
  BY <1>1, FailEnds, SessionsSame
<1>2. CASE Degrade(q)
  BY <1>2, DegradeEnds
<1>3. CASE UNCHANGED <<registry, leased>> /\ Retry(q)
  BY <1>3, RetryEnds, RegistryKept DEF WorldTypes
<1> QED BY <1>1, <1>2, <1>3 DEF PageError

\* The capacity test is an ending, whichever way it goes.
LEMMA AdmitEnds ==
  ASSUME TypeOK, OwnerInv, NEW q \in Requests, Holds(q), Working(q),
         NEW objects, SameOwners(objects), Admit(q, objects)
  PROVE  Ending(q)
<1> CoreTypes /\ RegistryTypes /\ WorldTypes
  BY TypeParts
<1>1. CASE Fail(q, objects)
  BY <1>1, FailEnds
<1>2. CASE Await(q, "launching") /\ session' = objects /\ UNCHANGED <<registry, leased>>
  BY <1>2, AwaitEnds, RegistryKept DEF WorldTypes, PcStates
<1> QED BY <1>1, <1>2 DEF Admit

\* Going on with a runtime is an ending.
LEMMA ProceedEnds ==
  ASSUME TypeOK, OwnerInv, NEW q \in Requests, Holds(q), Working(q), Proceed(q)
  PROVE  Ending(q)
<1> CoreTypes /\ RegistryTypes /\ WorldTypes
  BY TypeParts
<1>1. Registry /\ leased' \subseteq Runs
  BY RegistryKept DEF Proceed, WorldTypes
<1>2. CASE Answer(q, "ok", session)
  BY <1>1, <1>2, AnswerEnds, SessionsSame
<1>3. CASE UNCHANGED session /\ (Await(q, "listing") \/ Await(q, "creating"))
  <2>1. SameOwners(session')
    BY <1>3, SessionsSame
  <2> QED BY <1>1, <1>3, <2>1, AwaitEnds DEF PcStates
<1> QED BY <1>2, <1>3 DEF Proceed

\* The request goes on with a session of its run.
LEMMA BeginEnds ==
  ASSUME TypeOK, OwnerInv, NEW q \in Requests, Holds(q), Registry, leased' \subseteq Runs,
         UNCHANGED runLocks, SameOwners(session'),
         req' \in [Requests -> RequestRecords], Others(q), LockOf(q)' = LockOf(q),
         req'[q].pc \notin {"ok", "error", "scanned", "queued"},
         req'[q].op = req[q].op, req'[q].arg = req[q].arg,
         req'[q].s \in Sessions, Owned(req'[q].s, req[q].run)
  PROVE  Ending(q)
<1> CoreTypes /\ RegistryTypes /\ WorldTypes
  BY TypeParts
<1>1. QueueStep(q)
  BY DEF QueueStep, Stays
<1>2. Refers(q)'
  BY DEF Refers, Working, Idle
<1>3. req'[q].run = req[q].run /\ req[q].run \in Runs
  BY DEF LockOf, Holds, Locks
<1>4. \A r \in Runs : runSessions'[r] # None => runSessions'[r] \in Sessions
  BY DEF Registry, RegistryTypes
<1>5. OwnerStep(q)
  BY <1>2, <1>3, <1>4 DEF OwnerStep, OwnerInv, Fits, SameOwners, Registry
<1> QED BY <1>1, <1>5 DEF Ending, CoreTypes, Registry, SameOwners

-----------------------------------------------------------------------------
(* Every step of a request is sound *)

Sound(q) == Ending(q) /\ WorldTypes'

\* Who has its turn, or is past it, is first on its lock.
LEMMA HoldsItsLock ==
  ASSUME Inv, NEW q \in Requests, MyTurn(q) \/ Working(q)
  PROVE  Holds(q)
<1>1. InQueue(q)
  BY DEF MyTurn, Working, Idle, InQueue
<1>2. LockOf(q) \in Locks /\ \E i \in 1..Len(runLocks[LockOf(q)]) : runLocks[LockOf(q)][i] = q
  BY <1>1 DEF Inv, QueueInv
<1>3. CASE MyTurn(q)
  <2>1. runLocks[LockOf(q)] # <<>>
    BY <1>2
  <2> QED BY <1>1, <1>2, <1>3, <2>1 DEF Holds, AtHead, MyTurn
<1>4. CASE Working(q)
  BY <1>1, <1>2, <1>4 DEF Holds, Inv, QueueInv, Working
<1> QED BY <1>3, <1>4

\* The facts every action starts from.
LEMMA Facts ==
  ASSUME Inv
  PROVE  /\ TypeOK /\ OwnerInv /\ QueueInv
         /\ CoreTypes /\ RegistryTypes /\ WorldTypes
         /\ SameOwners(session)
BY TypeParts, SessionsSame DEF Inv

\* A request at an await works on a session of its run.
LEMMA OwnSession ==
  ASSUME Inv, NEW q \in Requests, Working(q)
  PROVE  /\ Holds(q) /\ req[q].run \in Runs
         /\ req[q].s \in Sessions /\ Owned(req[q].s, req[q].run)
BY HoldsItsLock, Facts DEF OwnerInv, Refers, Holds, LockOf, Locks

\* A lock is held for a run; a session found for it is the run's own.
LEMMA TurnFacts ==
  ASSUME Inv, NEW q \in Requests, MyTurn(q)
  PROVE  /\ Holds(q) /\ req[q].profile \in Profiles /\ req[q].run \in Runs
         /\ Registered(q) # None =>
              Registered(q) \in Sessions /\ Owned(Registered(q), req[q].run)
<1>1. Holds(q) /\ req[q].profile \in Profiles /\ req[q].run \in Runs
  BY HoldsItsLock DEF Holds, LockOf, Locks
<1> QED BY <1>1, Facts DEF Registered, RegistryTypes, OwnerInv

\* A step that leaves the pages alone keeps the outside world typed.
LEMMA WorldKept ==
  ASSUME WorldTypes, leased' \subseteq Runs, UNCHANGED pages
  PROVE  WorldTypes'
BY DEF WorldTypes, pages

\* The close of a browser keeps the outside world typed.
LEMMA BrowserClosesTypes ==
  ASSUME WorldTypes, leased' \subseteq Runs, NEW s, chrome' = chrome \ {s}, BrowserCloses(s)
  PROVE  WorldTypes'
BY DEF WorldTypes, BrowserCloses

\* Quarantined is sound: queues and owners are as the invariant needs.
LEMMA QuarantinedSound ==
  ASSUME Inv, NEW q \in Requests, Quarantined(q)
  PROVE  Sound(q)
<1>1. Working(q)
  BY DEF Quarantined, Working, Idle
<1>2. Ending(q)
  BY <1>1, Facts, OwnSession, FailEnds DEF Quarantined
<1> QED BY <1>2, Facts, WorldKept DEF Sound, Ending, Quarantined

\* CheckReturns is sound: queues and owners are as the invariant needs.
LEMMA CheckReturnsSound ==
  ASSUME Inv, NEW q \in Requests, CheckReturns(q)
  PROVE  Sound(q)
<1> SUFFICES Ending(q)
  BY Facts, WorldKept DEF Sound, Ending, CheckReturns
<1>1. Working(q)
  BY DEF CheckReturns, Working, Idle
<1>2. Holds(q) /\ TypeOK /\ OwnerInv /\ SameOwners(session)
  BY <1>1, Facts, OwnSession
<1>3. CASE Admit(q, session)
  BY <1>1, <1>2, <1>3, AdmitEnds
<1>4. CASE Proceed(q)
  BY <1>1, <1>2, <1>4, ProceedEnds
<1>5. CASE Degrade(q)
  BY <1>1, <1>2, <1>5, DegradeEnds
<1>6. CASE Await(q, "recycling") /\ UNCHANGED <<session, registry, leased>>
  <2>1. Registry /\ leased' \subseteq Runs /\ SameOwners(session')
    BY <1>2, <1>6, Facts, RegistryKept DEF WorldTypes
  <2> QED BY <1>1, <1>2, <1>6, <2>1, AwaitEnds DEF PcStates
<1> QED BY <1>3, <1>4, <1>5, <1>6 DEF CheckReturns

\* RecycleReturns is sound: queues and owners are as the invariant needs.
LEMMA RecycleReturnsSound ==
  ASSUME Inv, NEW q \in Requests, RecycleReturns(q)
  PROVE  Sound(q)
<1> DEFINE objects == [session EXCEPT ![req[q].s].runtime = FALSE]
<1>1. Working(q)
  BY DEF RecycleReturns, Working, Idle
<1>2. SameOwners(objects)
  BY Facts, RuntimeSame
<1>3. Admit(q, objects)
  BY DEF RecycleReturns
<1> HIDE DEF objects
<1>4. Ending(q)
  BY <1>1, <1>2, <1>3, Facts, OwnSession, AdmitEnds
<1> QED BY <1>4, Facts, BrowserClosesTypes DEF Sound, Ending, RecycleReturns

\* LaunchReturns is sound: queues and owners are as the invariant needs.
LEMMA LaunchReturnsSound ==
  ASSUME Inv, NEW q \in Requests, LaunchReturns(q)
  PROVE  Sound(q)
<1>1. Working(q)
  BY DEF LaunchReturns, Working, Idle
<1>2. Holds(q) /\ TypeOK /\ OwnerInv /\ WorldTypes /\ req[q].s \in Sessions
  BY <1>1, Facts, OwnSession
<1> SUFFICES Ending(q)
  BY <1>2 DEF Sound, Ending, LaunchReturns, WorldTypes
<1>3. CASE Reject(q)
  BY <1>1, <1>2, <1>3, RejectEnds
<1>4. CASE /\ session' = [session EXCEPT ![req[q].s].runtime = TRUE]
           /\ Await(q, "readying") \/ Await(q, "connecting")
           /\ UNCHANGED <<registry, leased>>
  <2>1. SameOwners(session')
    BY <1>4, Facts, RuntimeSame
  <2>2. Registry /\ leased' \subseteq Runs
    BY <1>2, <1>4, Facts, RegistryKept DEF WorldTypes
  <2> QED BY <1>1, <1>2, <1>4, <2>1, <2>2, AwaitEnds DEF PcStates
<1> QED BY <1>3, <1>4 DEF LaunchReturns

\* ReadinessReturns is sound: queues and owners are as the invariant needs.
LEMMA ReadinessReturnsSound ==
  ASSUME Inv, NEW q \in Requests, ReadinessReturns(q)
  PROVE  Sound(q)
<1>1. Working(q)
  BY DEF ReadinessReturns, Working, Idle
<1>2. Holds(q) /\ TypeOK /\ OwnerInv /\ WorldTypes
  BY <1>1, Facts, OwnSession
<1>3. SameOwners(session')
  <2>1. CASE UNCHANGED session
    BY <2>1, Facts
  <2>2. CASE session' = [session EXCEPT ![req[q].s].degraded = FALSE]
    BY <2>2, Facts, DegradedSame
  <2> QED BY <2>1, <2>2 DEF ReadinessReturns
<1>4. Registry /\ leased' \subseteq Runs
  BY <1>2, Facts, RegistryKept DEF WorldTypes, ReadinessReturns
<1>5. Ending(q)
  BY <1>1, <1>2, <1>3, <1>4, AwaitEnds DEF PcStates, ReadinessReturns
<1> QED BY <1>5, <1>2, WorldKept DEF Sound, Ending, ReadinessReturns, pages

\* ConnectReturns is sound: queues and owners are as the invariant needs.
LEMMA ConnectReturnsSound ==
  ASSUME Inv, NEW q \in Requests, ConnectReturns(q)
  PROVE  Sound(q)
<1>1. Working(q)
  BY DEF ConnectReturns, Working, Idle
<1>2. Ending(q)
  BY <1>1, Facts, OwnSession, ProceedEnds, RejectEnds DEF ConnectReturns
<1> QED BY <1>2, Facts, WorldKept DEF Sound, Ending, ConnectReturns

\* Creating a session object is an ending.
LEMMA NewSessionEnds ==
  ASSUME Inv, NEW q \in Requests, MyTurn(q), NewSession(q)
  PROVE  Ending(q)
<1>1. /\ Holds(q) /\ req[q].profile \in Profiles /\ req[q].run \in Runs
      /\ TypeOK /\ OwnerInv /\ CoreTypes /\ RegistryTypes /\ WorldTypes
  BY Facts, TurnFacts
<1>2. PICK s \in Sessions :
        /\ FreeSession(s)
        /\ session' = [session EXCEPT
             ![s] = [NoSession EXCEPT !.run = req[q].run, !.profile = req[q].profile]]
        /\ req' = [req EXCEPT ![q].pc = "assigning", ![q].s = s, ![q].created = TRUE]
        /\ UNCHANGED <<runLocks, registry, leased>>
  BY DEF NewSession
<1>3. /\ req' \in [Requests -> RequestRecords] /\ Others(q)
      /\ req'[q].pc = "assigning" /\ req'[q].s = s
      /\ req'[q].run = req[q].run /\ req'[q].profile = req[q].profile
      /\ req'[q].op = req[q].op /\ req'[q].arg = req[q].arg
  <2>1. req' = [req EXCEPT ![q] = [req[q] EXCEPT !.pc = "assigning", !.s = s, !.created = TRUE]]
    BY <1>1, <1>2 DEF CoreTypes, RequestRecords
  <2>2. req[q] \in RequestRecords /\ "assigning" \in PcStates
    BY <1>1 DEF CoreTypes, PcStates
  <2> DEFINE x == [req[q] EXCEPT !.pc = "assigning", !.s = s, !.created = TRUE]
  <2>3. x \in RequestRecords
    BY <2>2 DEF RequestRecords
  <2>4. /\ x.pc = "assigning" /\ x.s = s /\ x.run = req[q].run /\ x.profile = req[q].profile
        /\ x.op = req[q].op /\ x.arg = req[q].arg
    BY <2>2 DEF RequestRecords
  <2> HIDE DEF x
  <2> QED BY <1>1, <2>1, <2>3, <2>4 DEF CoreTypes, Others, x
<1>4. [NoSession EXCEPT !.run = req[q].run, !.profile = req[q].profile] \in SessionRecords
  BY <1>1 DEF NoSession, SessionRecords
<1>5. session' \in [Sessions -> SessionRecords] /\ session'[s].run = req[q].run /\ session'[s].profile = req[q].profile
  BY <1>1, <1>2, <1>4 DEF CoreTypes, NoSession
<1>6. \A u \in Sessions \ {s} : session'[u] = session[u]
  BY <1>1, <1>2 DEF CoreTypes
<1>7. QueueStep(q)
  BY <1>1, <1>2, <1>3 DEF QueueStep, Stays, LockOf
<1>8. runSessions' = runSessions /\ RegistryTypes' /\ leased' \subseteq Runs
  BY <1>1, <1>2, RegistryKept DEF Registry, WorldTypes, registry
<1>9. Refers(q)'
  BY <1>3 DEF Refers, Working, Idle
<1>10. \A r \in Runs : runSessions[r] # s /\ (runSessions[r] # None => runSessions[r] \in Sessions)
  BY <1>1, <1>2 DEF FreeSession, RegistryTypes
<1>11. OwnerStep(q)
  BY <1>1, <1>2, <1>3, <1>5, <1>6, <1>8, <1>9, <1>10 DEF OwnerStep, OwnerInv, Fits, FreeSession
<1> QED BY <1>1, <1>2, <1>3, <1>5, <1>7, <1>8, <1>11 DEF Ending, CoreTypes

\* A create request that waits refers to no session yet.
LEMMA WaitingHasNone ==
  ASSUME Inv, NEW q \in Requests, MyTurn(q), req[q].op # "sweep"
  PROVE  req[q].s = None
BY Facts DEF OwnerInv, Refers, Working, MyTurn

\* CreateTurn is sound: queues and owners are as the invariant needs.
LEMMA CreateTurnSound ==
  ASSUME Inv, NEW q \in Requests, CreateTurn(q)
  PROVE  Sound(q)
<1> SUFFICES Ending(q)
  BY Facts, WorldKept DEF Sound, Ending, CreateTurn
<1> DEFINE s == Registered(q)
<1>1. MyTurn(q) /\ req[q].op = "create"
  BY DEF CreateTurn
<1>2. /\ Holds(q) /\ TypeOK /\ OwnerInv /\ CoreTypes /\ RegistryTypes /\ WorldTypes
      /\ SameOwners(session)
  BY <1>1, Facts, TurnFacts
<1>3. CASE NewSession(q)
  BY <1>1, <1>3, NewSessionEnds
<1>4. CASE s # None /\ Fail(q, session)
  <2>1. Registered(q) # req[q].s
    BY <1>1, <1>4, WaitingHasNone
  <2> QED BY <1>2, <1>4, <2>1, FailEnds
<1>5. CASE /\ s # None
           /\ req' = [req EXCEPT ![q].pc = IF Browserless THEN "assigning" ELSE "checking",
                                 ![q].s = s]
           /\ session' = IF Browserless THEN session ELSE Touched(s)
           /\ UNCHANGED <<runLocks, registry, leased>>
  <2>1. s \in Sessions /\ Owned(s, req[q].run)
    BY <1>1, <1>5, TurnFacts
  <2> HIDE DEF s
  <2>2. /\ req' \in [Requests -> RequestRecords] /\ Others(q) /\ LockOf(q)' = LockOf(q)
        /\ req'[q].pc \notin {"ok", "error", "scanned", "queued"} /\ req'[q].s = s
        /\ req'[q].op = req[q].op /\ req'[q].arg = req[q].arg
    <3> DEFINE pc == IF Browserless THEN "assigning" ELSE "checking"
               x == [req[q] EXCEPT !.pc = pc, !.s = s]
    <3>1. req' = [req EXCEPT ![q] = x]
      BY <1>2, <1>5 DEF CoreTypes, RequestRecords
    <3>2. pc \in PcStates \ {"ok", "error", "scanned", "queued"} /\ req[q] \in RequestRecords
      BY <1>2 DEF CoreTypes, PcStates
    <3> HIDE DEF pc
    <3>3. x \in RequestRecords /\ x.pc = pc /\ x.s = s
          /\ x.run = req[q].run /\ x.profile = req[q].profile
          /\ x.op = req[q].op /\ x.arg = req[q].arg
      BY <2>1, <3>2 DEF RequestRecords
    <3> HIDE DEF x
    <3> QED BY <1>2, <3>1, <3>2, <3>3 DEF CoreTypes, Others, LockOf
  <2>3. SameOwners(session')
    BY <1>2, <1>5, TouchedSame
  <2>4. Registry /\ leased' \subseteq Runs
    BY <1>2, <1>5, RegistryKept DEF WorldTypes
  <2>5. req'[q].s \in Sessions /\ Owned(req'[q].s, req[q].run) /\ runLocks' = runLocks
    BY <1>5, <2>1, <2>2
  <2> QED BY <1>2, <2>2, <2>3, <2>4, <2>5, BeginEnds
<1> QED BY <1>3, <1>4, <1>5 DEF CreateTurn, Bound

\* AssignReturns is sound: queues and owners are as the invariant needs.
LEMMA AssignReturnsSound ==
  ASSUME Inv, NEW q \in Requests, AssignReturns(q)
  PROVE  Sound(q)
<1> SUFFICES Ending(q)
  BY Facts, WorldKept DEF Sound, Ending, AssignReturns
<1>1. Working(q)
  BY DEF AssignReturns, Working, Idle
<1>2. /\ Holds(q) /\ TypeOK /\ OwnerInv /\ CoreTypes /\ RegistryTypes /\ WorldTypes
      /\ SameOwners(session) /\ req[q].run \in Runs
      /\ req[q].s \in Sessions /\ Owned(req[q].s, req[q].run)
  BY <1>1, Facts, OwnSession
<1>3. CASE UNCHANGED <<registry, leased>> /\ Answer(q, "error", session)
  BY <1>2, <1>3, AnswerEnds, RegistryKept DEF WorldTypes
<1>4. CASE /\ leased' = IF Browserless THEN leased \cup {req[q].run} ELSE leased
           /\ session' = Touched(req[q].s) /\ Register(req[q].run, req[q].s)
           /\ Await(q, "checking") /\ UNCHANGED <<targetOwners, idempotency>>
  <2>1. SameOwners(session') /\ leased' \subseteq Runs
    BY <1>2, <1>4, TouchedSame DEF WorldTypes
  <2>2. Registry
    BY <1>2, <1>4, RegisterTypes, RegisterOwners DEF Registry, RegistryTypes
  <2> QED BY <1>1, <1>2, <1>4, <2>1, <2>2, AwaitEnds DEF PcStates
<1> QED BY <1>3, <1>4 DEF AssignReturns

\* ReleaseReturns is sound: queues and owners are as the invariant needs.
LEMMA ReleaseReturnsSound ==
  ASSUME Inv, NEW q \in Requests, ReleaseReturns(q)
  PROVE  Sound(q)
<1> SUFFICES Ending(q)
  BY Facts, WorldKept DEF Sound, Ending, ReleaseReturns, external, pages
<1>1. Working(q)
  BY DEF ReleaseReturns, Working, Idle
<1>2. Registry /\ leased' \subseteq Runs
  BY Facts, RegistryKept DEF ReleaseReturns, external, WorldTypes
<1>3. CloseOutcome(q) \in {"ok", "error"} /\ Answer(q, CloseOutcome(q), session)
  BY DEF CloseOutcome, ReleaseReturns
<1> QED BY <1>1, <1>2, <1>3, Facts, OwnSession, AnswerEnds

\* AnswerFromCache is sound: queues and owners are as the invariant needs.
LEMMA AnswerFromCacheSound ==
  ASSUME Inv, NEW q \in Requests, AnswerFromCache(q) \/ RefuseTab(q)
  PROVE  Sound(q)
<1>1. MyTurn(q) /\ UNCHANGED <<registry, external>>
      /\ (Answer(q, "ok", session) \/ Answer(q, "error", session))
  BY DEF AnswerFromCache, RefuseTab
<1> SUFFICES Ending(q)
  BY <1>1, Facts, WorldKept DEF Sound, Ending, external, pages
<1>2. Registry /\ leased' \subseteq Runs
  BY <1>1, Facts, RegistryKept DEF external, WorldTypes
<1> QED BY <1>1, <1>2, Facts, TurnFacts, AnswerEnds

\* The request starts to work on target t of session s.
Starts(q, state, s, t) ==
  req' = [req EXCEPT ![q].pc = state, ![q].s = s, ![q].target = t]

\* Taking up the registered session is an ending.
LEMMA StartEnds ==
  ASSUME TypeOK, OwnerInv, NEW q \in Requests, Holds(q), Registry, leased' \subseteq Runs,
         UNCHANGED runLocks, SameOwners(session'),
         NEW state \in PcStates \ {"ok", "error", "scanned", "queued"},
         NEW s \in Sessions, Owned(s, req[q].run), NEW t \in Targets \cup {None},
         Starts(q, state, s, t)
  PROVE  Ending(q)
<1> DEFINE x == [req[q] EXCEPT !.pc = state, !.s = s, !.target = t]
<1>1. CoreTypes
  BY TypeParts
<1>2. req' = [req EXCEPT ![q] = x] /\ req[q] \in RequestRecords
  BY <1>1 DEF Starts, CoreTypes, RequestRecords
<1>3. /\ x \in RequestRecords /\ x.pc = state /\ x.s = s
      /\ x.run = req[q].run /\ x.profile = req[q].profile
      /\ x.op = req[q].op /\ x.arg = req[q].arg
  BY <1>2 DEF RequestRecords
<1> HIDE DEF x
<1>4. /\ req' \in [Requests -> RequestRecords] /\ Others(q)
      /\ req'[q].pc = state /\ req'[q].s = s /\ LockOf(q)' = LockOf(q)
      /\ req'[q].op = req[q].op /\ req'[q].arg = req[q].arg
  <2>1. req' \in [Requests -> RequestRecords] /\ Others(q) /\ req'[q] = x
    BY <1>1, <1>2, <1>3 DEF CoreTypes, Others
  <2> QED BY <1>3, <2>1 DEF LockOf
<1>5. req'[q].s \in Sessions /\ Owned(req'[q].s, req[q].run)
  BY <1>4
<1> QED BY <1>4, <1>5, BeginEnds

\* Entering ensureBrowserRunning is an ending, degraded or not.
LEMMA EnsureBrowserForEnds ==
  ASSUME TypeOK, OwnerInv, NEW q \in Requests, Holds(q), Registry, leased' \subseteq Runs,
         NEW s \in Sessions, Owned(s, req[q].run), NEW t \in Targets \cup {None},
         EnsureBrowserFor(q, s, t)
  PROVE  Ending(q)
<1>1. SameOwners(Touched(s))
  BY TypeParts, TouchedSame
<1>2. CASE Answer(q, "error", Touched(s))
  BY <1>1, <1>2, AnswerEnds
<1>3. CASE /\ req' = [req EXCEPT ![q].pc = "checking", ![q].s = s, ![q].target = t]
           /\ session' = Touched(s) /\ UNCHANGED runLocks
  BY <1>1, <1>3, StartEnds DEF Starts, PcStates
<1> QED BY <1>2, <1>3 DEF EnsureBrowserFor

\* Remembering a create result keeps the results typed.
LEMMA RememberTypes ==
  ASSUME RegistryTypes, NEW q, NEW t \in Targets \cup {None}, Remember(q, t)
  PROVE  idempotency' \in [Locks \X Keys -> Targets \cup {None}]
BY DEF RegistryTypes, Remember

\* TabTurn is sound: queues and owners are as the invariant needs.
LEMMA TabTurnSound ==
  ASSUME Inv, NEW q \in Requests, TabTurn(q)
  PROVE  Sound(q)
<1> DEFINE s == Registered(q)
           t == session[s].target
<1>1. MyTurn(q) /\ s # None /\ UNCHANGED <<runSessions, targetOwners, external>>
  BY DEF TabTurn, Bound
<1>2. /\ Holds(q) /\ TypeOK /\ OwnerInv /\ CoreTypes /\ RegistryTypes /\ WorldTypes
      /\ s \in Sessions /\ Owned(s, req[q].run)
  BY <1>1, Facts, TurnFacts
<1>3. t \in Targets \cup {None} /\ SameOwners(Touched(s))
  BY <1>2, TouchedSame DEF CoreTypes, SessionRecords
<1>4. idempotency' \in [Locks \X Keys -> Targets \cup {None}]
  BY <1>2, <1>3, RememberTypes DEF TabTurn, RegistryTypes
<1>5. Registry /\ leased' \subseteq Runs
  BY <1>1, <1>2, <1>4 DEF Registry, RegistryTypes, OwnerInv, external, WorldTypes
<1> SUFFICES Ending(q)
  BY <1>1, <1>2, WorldKept DEF Sound, Ending, external, pages
<1>6. CASE Answer(q, "error", Touched(s)) \/ Answer(q, "ok", Touched(s))
  BY <1>2, <1>3, <1>5, <1>6, AnswerEnds
<1>7. CASE req[q].op = "target" /\ EnsureBrowserFor(q, s, req[q].arg)
  <2>1. req[q].arg \in Targets
    BY <1>2, <1>7 DEF OwnerInv, Fits
  <2> QED BY <1>2, <1>5, <1>7, <2>1, EnsureBrowserForEnds
<1>8. CASE EnsureBrowserFor(q, s, t)
  BY <1>2, <1>3, <1>5, <1>8, EnsureBrowserForEnds
<1>9. CASE EnsureBrowserFor(q, s, None)
  BY <1>2, <1>5, <1>9, EnsureBrowserForEnds
<1> QED BY <1>6, <1>7, <1>8, <1>9 DEF TabTurn

\* setActiveTarget is an ending: it registers the session of the run.
LEMMA SetActiveTargetEnds ==
  ASSUME Inv, NEW q \in Requests, Working(q), SetActiveTarget(q),
         idempotency' \in [Locks \X Keys -> Targets \cup {None}]
  PROVE  Ending(q)
<1> DEFINE s == req[q].s
           t == req[q].target
           objects == [Touched(s) EXCEPT ![s].target = t]
<1>1. /\ Holds(q) /\ TypeOK /\ OwnerInv /\ CoreTypes /\ RegistryTypes /\ WorldTypes
      /\ req[q].run \in Runs /\ s \in Sessions /\ Owned(s, req[q].run)
  BY Facts, OwnSession
<1>2. t \in Targets \cup {None}
  BY <1>1 DEF CoreTypes, RequestRecords
<1>3. SameOwners(objects)
  BY <1>1, <1>2, TouchedSame, TargetSame
<1>4. targetOwners' \in [Targets -> Runs \cup {None}]
  BY <1>1 DEF SetActiveTarget, RegistryTypes
<1>5. Register(req[q].run, s) /\ Answer(q, "ok", objects) /\ leased' = leased
  BY DEF SetActiveTarget
<1> HIDE DEF objects
<1>6. Registry /\ leased' \subseteq Runs
  BY <1>1, <1>4, <1>5, RegisterTypes, RegisterOwners DEF Registry, RegistryTypes, WorldTypes
<1> QED BY <1>1, <1>3, <1>5, <1>6, AnswerEnds

\* clearOwnedTarget is an ending: it registers the session of the run.
LEMMA ClearOwnedTargetEnds ==
  ASSUME Inv, NEW q \in Requests, Working(q), ClearOwnedTarget(q)
  PROVE  Ending(q)
<1> DEFINE s == req[q].s
           objects == [Touched(s) EXCEPT ![s].target = None]
<1>1. /\ Holds(q) /\ TypeOK /\ OwnerInv /\ CoreTypes /\ RegistryTypes /\ WorldTypes
      /\ req[q].run \in Runs /\ s \in Sessions /\ Owned(s, req[q].run)
  BY Facts, OwnSession
<1>2. SameOwners(objects)
  BY <1>1, TouchedSame, TargetSame
<1>3. /\ Register(req[q].run, s) /\ Answer(q, "error", objects) /\ leased' = leased
      /\ Disown(session[s].target) /\ UNCHANGED idempotency
  BY DEF ClearOwnedTarget
<1> HIDE DEF objects
<1>4. Registry /\ leased' \subseteq Runs
  BY <1>1, <1>3, DisownTypes, RegisterTypes, RegisterOwners DEF Registry, RegistryTypes, WorldTypes
<1> QED BY <1>1, <1>2, <1>3, <1>4, AnswerEnds

\* CreatePageReturns is sound: queues and owners are as the invariant needs.
LEMMA CreatePageReturnsSound ==
  ASSUME Inv, NEW q \in Requests, CreatePageReturns(q)
  PROVE  Sound(q)
<1>1. Working(q)
  BY DEF CreatePageReturns, Working, Idle
<1>2. /\ Holds(q) /\ TypeOK /\ OwnerInv /\ CoreTypes /\ RegistryTypes /\ WorldTypes
      /\ SameOwners(session)
      /\ req[q].run \in Runs /\ req[q].s \in Sessions /\ Owned(req[q].s, req[q].run)
  BY <1>1, Facts, OwnSession
<1>3. home' \in [Targets -> Sessions \cup {None}]
  BY <1>2 DEF CreatePageReturns, WorldTypes
<1> SUFFICES Ending(q)
  BY <1>2, <1>3 DEF Sound, Ending, CreatePageReturns, WorldTypes
<1>4. CASE PageError(q)
  BY <1>1, <1>2, <1>4, PageErrorEnds
<1>5. CASE ~PageError(q)
  <2>1. PICK t \in Targets : req' = [req EXCEPT ![q].pc = "listing", ![q].target = t]
    BY <1>5 DEF CreatePageReturns
  <2>2. UNCHANGED <<runLocks, session, registry, leased>>
    BY <1>5 DEF CreatePageReturns
  <2>3. Registry /\ leased' \subseteq Runs /\ SameOwners(session')
    BY <1>2, <2>2, RegistryKept DEF WorldTypes
  <2>4. Starts(q, "listing", req[q].s, t)
    <3>1. req[q] \in RequestRecords
      BY <1>2 DEF CoreTypes
    <3> QED BY <1>2, <2>1, <3>1 DEF Starts, CoreTypes, RequestRecords
  <2> QED BY <1>2, <2>2, <2>3, <2>4, StartEnds DEF PcStates
<1> QED BY <1>4, <1>5

\* ListReturns is sound: queues and owners are as the invariant needs.
LEMMA ListReturnsSound ==
  ASSUME Inv, NEW q \in Requests, ListReturns(q)
  PROVE  Sound(q)
<1> SUFFICES Ending(q)
  BY Facts, WorldKept DEF Sound, Ending, ListReturns
<1>1. Working(q)
  BY DEF ListReturns, Working, Idle
<1>2. /\ Holds(q) /\ TypeOK /\ OwnerInv /\ CoreTypes /\ RegistryTypes /\ WorldTypes
      /\ SameOwners(session)
  BY <1>1, Facts, OwnSession
<1>3. CASE PageError(q)
  BY <1>1, <1>2, <1>3, PageErrorEnds
<1>4. CASE Fail(q, session)
  BY <1>1, <1>2, <1>4, FailEnds
<1>5. CASE (Await(q, "closing") \/ Await(q, "focusing")) /\ UNCHANGED <<session, registry, leased>>
  <2>1. Registry /\ leased' \subseteq Runs /\ SameOwners(session')
    BY <1>2, <1>5, RegistryKept DEF WorldTypes
  <2> QED BY <1>1, <1>2, <1>5, <2>1, AwaitEnds DEF PcStates
<1>6. CASE ClearOwnedTarget(q)
  BY <1>1, <1>6, ClearOwnedTargetEnds
<1>7. CASE SetActiveTarget(q) /\ Remember(q, req[q].target)
  <2>1. req[q].target \in Targets \cup {None}
    BY <1>2 DEF CoreTypes, RequestRecords
  <2> QED BY <1>1, <1>2, <1>7, <2>1, RememberTypes, SetActiveTargetEnds
<1> QED BY <1>3, <1>4, <1>5, <1>6, <1>7 DEF ListReturns

\* FocusReturns is sound: queues and owners are as the invariant needs.
LEMMA FocusReturnsSound ==
  ASSUME Inv, NEW q \in Requests, FocusReturns(q)
  PROVE  Sound(q)
<1> SUFFICES Ending(q)
  BY Facts, WorldKept DEF Sound, Ending, FocusReturns
<1>1. Working(q)
  BY DEF FocusReturns, Working, Idle
<1>2. CASE PageError(q)
  BY <1>1, <1>2, Facts, OwnSession, PageErrorEnds
<1>3. CASE SetActiveTarget(q) /\ UNCHANGED idempotency
  BY <1>1, <1>3, Facts, SetActiveTargetEnds DEF RegistryTypes
<1> QED BY <1>2, <1>3 DEF FocusReturns

\* CloseTurn is sound: queues and owners are as the invariant needs.
LEMMA CloseTurnSound ==
  ASSUME Inv, NEW q \in Requests, CloseTurn(q)
  PROVE  Sound(q)
<1> DEFINE s == Registered(q)
<1>1. MyTurn(q) /\ UNCHANGED <<registry, external>>
  BY DEF CloseTurn
<1>2. /\ Holds(q) /\ TypeOK /\ OwnerInv /\ CoreTypes /\ RegistryTypes /\ WorldTypes
      /\ SameOwners(session)
  BY <1>1, Facts, TurnFacts
<1>3. Registry /\ leased' \subseteq Runs
  BY <1>1, <1>2, RegistryKept DEF external, WorldTypes
<1> SUFFICES Ending(q)
  BY <1>1, <1>2, WorldKept DEF Sound, Ending, external, pages
<1>4. CASE Answer(q, "ok", session) \/ Answer(q, "error", session)
  BY <1>2, <1>3, <1>4, AnswerEnds
<1>5. CASE /\ Bound(q)
           /\ StartClosing(q, s, IF req[q].arg # None THEN req[q].arg ELSE session[s].target)
  <2>1. s \in Sessions /\ Owned(s, req[q].run)
    BY <1>1, <1>5, TurnFacts DEF Bound
  <2> DEFINE t == IF req[q].arg # None THEN req[q].arg ELSE session[s].target
  <2>2. t \in Targets \cup {None}
    BY <1>2, <2>1 DEF CoreTypes, SessionRecords, OwnerInv, Fits, CloseTurn
  <2>3. Starts(q, "closing", s, t) /\ UNCHANGED runLocks /\ SameOwners(session')
    BY <1>2, <1>5 DEF StartClosing, Starts
  <2> HIDE DEF s, t
  <2> QED BY <1>2, <1>3, <2>1, <2>2, <2>3, StartEnds DEF PcStates
<1> QED BY <1>4, <1>5 DEF CloseTurn

\* SweepTurn is sound: queues and owners are as the invariant needs.
LEMMA SweepTurnSound ==
  ASSUME Inv, NEW q \in Requests, SweepTurn(q)
  PROVE  Sound(q)
<1>1. MyTurn(q) /\ req[q].op = "sweep" /\ UNCHANGED <<registry, external>>
  BY DEF SweepTurn
<1>2. /\ Holds(q) /\ TypeOK /\ OwnerInv /\ CoreTypes /\ RegistryTypes /\ WorldTypes
      /\ SameOwners(session)
  BY <1>1, Facts, TurnFacts
<1>3. Registry /\ leased' \subseteq Runs
  BY <1>1, <1>2, RegistryKept DEF external, WorldTypes
<1> SUFFICES Ending(q)
  BY <1>1, <1>2, WorldKept DEF Sound, Ending, external, pages
<1>4. CASE Answer(q, "ok", session)
  BY <1>2, <1>3, <1>4, AnswerEnds
<1>5. CASE StartClosing(q, req[q].s, session[req[q].s].target)
  <2>1. req[q].s \in Sessions /\ Owned(req[q].s, req[q].run)
    BY <1>1, <1>2 DEF OwnerInv, Refers, Idle, MyTurn
  <2>2. session[req[q].s].target \in Targets \cup {None}
    BY <1>2, <2>1 DEF CoreTypes, SessionRecords
  <2>3. Starts(q, "closing", req[q].s, session[req[q].s].target)
    BY <1>5 DEF StartClosing, Starts
  <2>4. UNCHANGED runLocks /\ SameOwners(session')
    BY <1>2, <1>5 DEF StartClosing
  <2> QED BY <1>2, <1>3, <2>1, <2>2, <2>3, <2>4, StartEnds DEF PcStates
<1> QED BY <1>4, <1>5 DEF SweepTurn

\* CloseReturns is sound: queues and owners are as the invariant needs.
LEMMA CloseReturnsSound ==
  ASSUME Inv, NEW q \in Requests, CloseReturns(q)
  PROVE  Sound(q)
<1> DEFINE s == req[q].s
           objects == [session EXCEPT ![s].closed = TRUE]
<1>1. Working(q)
  BY DEF CloseReturns, Working, Idle
<1>2. /\ Holds(q) /\ TypeOK /\ OwnerInv /\ CoreTypes /\ RegistryTypes /\ WorldTypes
      /\ SameOwners(session)
  BY <1>1, Facts, OwnSession
<1>3. SameOwners(objects)
  BY <1>2, ClosedSame
<1>4. \/ Await(q, "releasing") /\ session' = objects
      \/ Answer(q, CloseOutcome(q), objects)
  BY DEF CloseReturns
<1>5. Registry
  BY <1>2, DisownTypes, RegisterTypes, RegisterOwners, ClearTypes
     DEF CloseReturns, Registry, RegistryTypes
<1>6. leased' \subseteq Runs
  BY <1>2 DEF CloseReturns, WorldTypes
<1> SUFFICES Ending(q)
  BY <1>2, BrowserClosesTypes DEF Sound, Ending, CloseReturns
<1>7. CloseOutcome(q) \in {"ok", "error"}
  BY DEF CloseOutcome
<1> HIDE DEF objects
<1>8. CASE Await(q, "releasing") /\ session' = objects
  BY <1>1, <1>2, <1>3, <1>5, <1>6, <1>8, AwaitEnds DEF PcStates
<1>9. CASE Answer(q, CloseOutcome(q), objects)
  BY <1>2, <1>3, <1>5, <1>6, <1>7, <1>9, AnswerEnds
<1> QED BY <1>4, <1>8, <1>9

\* SweepLocks is sound: queues and owners are as the invariant needs.
LEMMA SweepLocksSound ==
  ASSUME Inv, NEW q \in Requests, SweepLocks(q)
  PROVE  Sound(q)
<1> DEFINE s == Registered(q)
<1>1. req[q].pc = "scanned" /\ UNCHANGED <<registry, external>>
  BY DEF SweepLocks
<1>2. /\ TypeOK /\ OwnerInv /\ CoreTypes /\ RegistryTypes /\ WorldTypes /\ SameOwners(session)
  BY Facts
<1>3. Registry /\ leased' \subseteq Runs /\ ~InQueue(q)
  BY <1>1, <1>2, RegistryKept DEF external, WorldTypes, InQueue
<1> SUFFICES Ending(q)
  BY <1>1, <1>2, WorldKept DEF Sound, Ending, external, pages
<1>4. CASE /\ req' = [req EXCEPT ![q] = NoRequest]
           /\ Collect(q, session) /\ UNCHANGED runLocks
  <2>1. req' \in [Requests -> RequestRecords] /\ Others(q) /\ req'[q] = NoRequest
    BY <1>2, <1>4, BlankRecords DEF CoreTypes, Others
  <2>2. ~Refers(q)' /\ ~InQueue(q)' /\ Fits(q)' /\ req'[q].s = None
    BY <2>1 DEF Refers, Working, Idle, InQueue, Fits, NoRequest
  <2>3. QueueStep(q)
    BY <1>3, <1>4, <2>1, <2>2 DEF QueueStep, Outside
  <2> QED BY <1>2, <1>3, <1>4, <2>1, <2>2, <2>3, CollectOwners
          DEF Ending, OwnerStep, CoreTypes, Registry
<1>5. CASE /\ s # None
           /\ req' = [req EXCEPT ![q].pc = "queued", ![q].profile = session[s].profile]
           /\ runLocks' = [runLocks EXCEPT ![<<session[s].profile, req[q].run>>] = Append(@, q)]
           /\ UNCHANGED session
  <2> DEFINE p == session[s].profile
             x == [req[q] EXCEPT !.pc = "queued", !.profile = p]
  <2>1. Refers(q) /\ req[q].op = "sweep"
    BY <1>1, <1>2 DEF OwnerInv, Fits, Refers, Idle
  <2>2. req[q].run \in Runs /\ req[q].s \in Sessions /\ Owned(req[q].s, req[q].run)
    BY <1>2, <2>1 DEF OwnerInv
  <2>3. p \in Profiles
    BY <1>2, <1>5, <2>2 DEF OwnerInv, Registered
  <2> HIDE DEF p
  <2>4. req' = [req EXCEPT ![q] = x] /\ req[q] \in RequestRecords
    BY <1>2, <1>5 DEF CoreTypes, RequestRecords, p
  <2>5. /\ x \in RequestRecords /\ x.pc = "queued" /\ x.profile = p
        /\ x.run = req[q].run /\ x.op = req[q].op /\ x.arg = req[q].arg /\ x.s = req[q].s
    BY <2>3, <2>4 DEF RequestRecords, PcStates
  <2> HIDE DEF x
  <2>6. req' \in [Requests -> RequestRecords] /\ Others(q) /\ req'[q] = x
    BY <1>2, <2>4, <2>5 DEF CoreTypes, Others
  <2>7. LockOf(q)' = <<p, req[q].run>> /\ LockOf(q)' \in Locks
    BY <2>2, <2>3, <2>5, <2>6 DEF LockOf, Locks
  <2>8. runLocks' = [runLocks EXCEPT ![LockOf(q)'] = Append(@, q)]
    BY <1>5, <2>7 DEF p
  <2>9. runLocks' \in [Locks -> Seq(Requests)]
    BY <1>2, <2>7, <2>8 DEF CoreTypes
  <2>10. QueueStep(q)
    BY <1>3, <2>5, <2>6, <2>7, <2>8 DEF QueueStep, Joins
  <2>11. Refers(q)' /\ Fits(q)'
    BY <1>2, <2>1, <2>5, <2>6 DEF Refers, Idle, Fits, OwnerInv
  <2>12. OwnerStep(q)
    <3>1. \A r \in Runs : runSessions'[r] # None => Owned(runSessions[r], r)'
      BY <1>3, <1>5 DEF Registry
    <3> QED BY <1>5, <2>2, <2>5, <2>6, <2>11, <3>1 DEF OwnerStep
  <2> QED BY <1>2, <1>3, <1>5, <2>6, <2>9, <2>10, <2>12 DEF Ending, CoreTypes, Registry
<1> QED BY <1>4, <1>5 DEF SweepLocks

\* Every step of an accepted request is sound.
LEMMA ProgressSound ==
  ASSUME Inv, NEW q \in Requests, Progress(q)
  PROVE  Sound(q)
BY CreateTurnSound, AnswerFromCacheSound, TabTurnSound, CloseTurnSound, SweepLocksSound,
   SweepTurnSound, AssignReturnsSound, CheckReturnsSound, RecycleReturnsSound,
   LaunchReturnsSound, ReadinessReturnsSound, ConnectReturnsSound, CreatePageReturnsSound,
   ListReturnsSound, FocusReturnsSound, QuarantinedSound, CloseReturnsSound,
   ReleaseReturnsSound
   DEF Progress

-----------------------------------------------------------------------------
(* Requests arrive, a sweep scans *)

\* A request that arrives joins the queue of its lock.
LEMMA ArriveSound ==
  ASSUME Inv, NEW q \in Requests, NEW p \in Profiles, NEW r \in Runs,
         NEW op \in TabOps \cup {"create", "close"},
         NEW arg \in Targets \cup Keys \cup {None},
         op = "target" => arg \in Targets, op = "close" => arg \in Targets \cup {None},
         Arrive(q, op, p, r, arg)
  PROVE  Sound(q)
<1> DEFINE x == [NoRequest EXCEPT !.pc = "queued", !.op = op, !.profile = p, !.run = r, !.arg = arg]
<1>1. /\ TypeOK /\ OwnerInv /\ CoreTypes /\ RegistryTypes /\ WorldTypes
  BY Facts
<1>2. /\ x \in RequestRecords /\ x.pc = "queued" /\ x.op = op /\ x.arg = arg
      /\ x.s = None /\ x.run = r /\ x.profile = p
  BY DEF NoRequest, RequestRecords, PcStates
<1>3. req' = [req EXCEPT ![q] = x] /\ UNCHANGED <<registry, session, external>>
      /\ Idle(q) /\ runLocks' = [runLocks EXCEPT ![<<p, r>>] = Append(@, q)]
  BY DEF Arrive
<1> HIDE DEF x
<1>4. req' \in [Requests -> RequestRecords] /\ Others(q) /\ req'[q] = x
  BY <1>1, <1>2, <1>3 DEF CoreTypes, Others
<1>5. LockOf(q)' = <<p, r>> /\ <<p, r>> \in Locks
  BY <1>2, <1>4 DEF LockOf, Locks
<1>6. runLocks' \in [Locks -> Seq(Requests)]
  <2>1. Append(runLocks[<<p, r>>], q) \in Seq(Requests)
    BY <1>1, <1>5 DEF CoreTypes
  <2> QED BY <1>1, <1>3, <2>1 DEF CoreTypes
<1>7. QueueStep(q)
  BY <1>2, <1>3, <1>4, <1>5 DEF QueueStep, Joins, InQueue, Idle
<1>8. ~Refers(q)' /\ Fits(q)' /\ req'[q].s = None
  BY <1>2, <1>4 DEF Refers, Working, Fits, TabOps
<1>9. Registry /\ WorldTypes'
  BY <1>1, <1>3, RegistryKept DEF external, WorldTypes
<1>10. \A y \in Runs : runSessions'[y] # None => Owned(runSessions[y], y)'
  BY <1>3, <1>9 DEF Registry
<1>11. OwnerStep(q)
  BY <1>3, <1>8, <1>10 DEF OwnerStep
<1> QED BY <1>1, <1>3, <1>4, <1>6, <1>7, <1>9, <1>11 DEF Sound, Ending, CoreTypes, WorldTypes, Registry

\* So it does for each operation.
LEMMA ArrivesSound ==
  ASSUME Inv, NEW q \in Requests, Arrives(q)
  PROVE  Sound(q)
<1>1. PICK p \in Profiles, r \in Runs :
        EnsureRunSession(q, p, r) \/ EnsureTabAvailable(q, p, r) \/ CloseRunSession(q, p, r)
  BY DEF Arrives
<1>2. CASE EnsureRunSession(q, p, r)
  BY <1>2, ArriveSound DEF EnsureRunSession, TabOps
<1>3. CASE EnsureTabAvailable(q, p, r)
  <2>1. CASE \E t \in KnownTargets : Arrive(q, "target", p, r, t)
    BY <2>1, ArriveSound DEF KnownTargets, TabOps
  <2>2. CASE Arrive(q, "current", p, r, None)
    BY <2>2, ArriveSound DEF TabOps
  <2>3. CASE \E k \in Keys \cup {None} : Arrive(q, "new", p, r, k)
    BY <2>3, ArriveSound DEF TabOps
  <2> QED BY <1>3, <2>1, <2>2, <2>3 DEF EnsureTabAvailable
<1>4. CASE CloseRunSession(q, p, r)
  BY <1>4, ArriveSound DEF CloseRunSession, KnownTargets, TabOps
<1> QED BY <1>1, <1>2, <1>3, <1>4

\* A sweep that picks a candidate is outside every queue.
LEMMA SweepScansSound ==
  ASSUME Inv, NEW q \in Requests, NEW r \in Runs, SweepScans(q, r)
  PROVE  Sound(q)
<1> DEFINE s == runSessions[r]
           x == [NoRequest EXCEPT !.pc = "scanned", !.op = "sweep", !.run = r, !.s = s,
                                  !.arg = Reason(s)]
<1>1. /\ TypeOK /\ OwnerInv /\ CoreTypes /\ RegistryTypes /\ WorldTypes
  BY Facts
<1>2. s \in Sessions /\ Owned(s, r)
  BY <1>1 DEF SweepScans, RegistryTypes, OwnerInv
<1>3. Reason(s) \in Timeouts
  <2>1. session[s].expired \subseteq Timeouts
    BY <1>1, <1>2 DEF CoreTypes, SessionRecords
  <2>2. session[s].expired # {}
    BY DEF SweepScans
  <2> HIDE DEF s
  <2> QED BY <2>1, <2>2, SessionsAssumption DEF Reason
<1>4. req' = [req EXCEPT ![q] = x] /\ UNCHANGED <<registry, session, runLocks, external>> /\ Idle(q)
  BY DEF SweepScans
<1> HIDE DEF s
<1>5. x \in RequestRecords /\ x.pc = "scanned" /\ x.op = "sweep" /\ x.s = s /\ x.run = r
  BY <1>2, <1>3 DEF NoRequest, RequestRecords, PcStates
<1> HIDE DEF x
<1>6. req' \in [Requests -> RequestRecords] /\ Others(q) /\ req'[q] = x
  BY <1>1, <1>4, <1>5 DEF CoreTypes, Others
<1>7. QueueStep(q)
  BY <1>4, <1>5, <1>6 DEF QueueStep, Outside, InQueue, Idle
<1>8. Refers(q)' /\ Fits(q)' /\ Owned(req[q].s, req[q].run)'
  BY <1>2, <1>4, <1>5, <1>6 DEF Refers, Idle, Fits
<1>9. Registry /\ WorldTypes'
  BY <1>1, <1>4, RegistryKept DEF external, WorldTypes
<1>10. \A y \in Runs : runSessions'[y] # None => Owned(runSessions[y], y)'
  BY <1>4, <1>9 DEF Registry
<1>11. OwnerStep(q)
  BY <1>2, <1>4, <1>5, <1>6, <1>8, <1>10 DEF OwnerStep
<1> QED BY <1>1, <1>4, <1>6, <1>7, <1>9, <1>11 DEF Sound, Ending, CoreTypes, WorldTypes, Registry

-----------------------------------------------------------------------------
(* The queues stay right *)

\* The request is on its queue, and first if it is past "queued".
Placed(q) ==
  InQueue(q) =>
    /\ LockOf(q) \in Locks
    /\ \E i \in 1..Len(runLocks[LockOf(q)]) : runLocks[LockOf(q)][i] = q
    /\ req[q].pc # "queued" => AtHead(q)

\* The queue holds requests that belong on it, each once.
Ordered(l) ==
  \A i \in 1..Len(runLocks[l]) :
    /\ InQueue(runLocks[l][i]) /\ LockOf(runLocks[l][i]) = l
    /\ \A j \in 1..Len(runLocks[l]) : runLocks[l][i] = runLocks[l][j] => i = j

\* The queue invariant, request by request and lock by lock.
LEMMA QueueParts ==
  QueueInv <=> (\A q \in Requests : Placed(q)) /\ (\A l \in Locks : Ordered(l))
BY DEF QueueInv, Placed, Ordered

\* What does not step keeps its place.
LEMMA OthersSame ==
  ASSUME NEW q, Others(q), NEW p \in Requests \ {q}
  PROVE  /\ req'[p] = req[p] /\ (InQueue(p)' <=> InQueue(p)) /\ LockOf(p)' = LockOf(p)
BY DEF Others, InQueue, LockOf

\* A queue that is not touched, and does not hold q, stays as it was.
LEMMA UntouchedQueue ==
  ASSUME CoreTypes, NEW q \in Requests, Others(q), NEW l \in Locks, runLocks'[l] = runLocks[l],
         Ordered(l), InQueue(q) => LockOf(q) # l
  PROVE  /\ Ordered(l)'
         /\ \A p \in Requests \ {q} : LockOf(p) = l /\ Placed(p) => Placed(p)'
<1>1. \A i \in 1..Len(runLocks[l]) : runLocks[l][i] \in Requests \ {q}
  BY DEF CoreTypes, Ordered
<1>2. Ordered(l)'
  BY <1>1, OthersSame DEF Ordered
<1>3. ASSUME NEW p \in Requests \ {q}, LockOf(p) = l, Placed(p)
      PROVE  Placed(p)'
  BY <1>3, OthersSame DEF Placed, AtHead
<1> QED BY <1>2, <1>3

Members(queue) == {queue[i] : i \in 1..Len(queue)}
Distinct(queue) == \A i, j \in 1..Len(queue) : queue[i] = queue[j] => i = j

\* The queue m is replaced: it loses or gains q, or q moves in it.
LEMMA ChangedQueue ==
  ASSUME CoreTypes, QueueInv, NEW q \in Requests, Others(q), NEW m \in Locks,
         InQueue(q) => LockOf(q) = m,
         NEW new \in Seq(Requests), runLocks' = [runLocks EXCEPT ![m] = new],
         Members(new) \ {q} = Members(runLocks[m]) \ {q}, Distinct(new),
         InQueue(q)' <=> q \in Members(new),
         InQueue(q)' => LockOf(q)' = m,
         InQueue(q)' /\ req'[q].pc # "queued" => Head(new) = q,
         \A p \in Requests \ {q} :
           runLocks[m] # <<>> /\ Head(runLocks[m]) = p /\ req[p].pc # "queued" => Head(new) = p
  PROVE  QueueInv'
<1> DEFINE old == runLocks[m]
<1>1. /\ runLocks'[m] = new /\ \A l \in Locks \ {m} : runLocks'[l] = runLocks[l]
      /\ old \in Seq(Requests)
  BY DEF CoreTypes
<1>2. Ordered(m) /\ \A i \in 1..Len(old) : old[i] \in Requests
  BY <1>1, QueueParts
<1>3. Ordered(m)'
  <2>1. ASSUME NEW i \in 1..Len(new), NEW e, e = new[i]
        PROVE  InQueue(e)' /\ LockOf(e)' = m
    <3> e \in Members(new)
      BY <2>1 DEF Members
    <3>1. CASE e = q
      BY <3>1
    <3>2. CASE e # q
      <4> e \in Members(old)
        BY <3>2
      <4>1. e \in Requests \ {q} /\ InQueue(e) /\ LockOf(e) = m
        BY <1>2, <3>2 DEF Ordered, Members
      <4> QED BY <4>1, OthersSame
    <3> QED BY <3>1, <3>2
  <2> QED BY <1>1, <2>1 DEF Ordered, Distinct
<1>4. ASSUME NEW l \in Locks \ {m} PROVE Ordered(l)'
  BY <1>1, UntouchedQueue, QueueParts
<1>5. ASSUME NEW p \in Requests PROVE Placed(p)'
  <2>1. Placed(p)
    BY QueueParts
  <2>2. CASE p = q
    <3>1. ASSUME InQueue(q)' PROVE new # <<>> /\ \E i \in 1..Len(new) : new[i] = q
      BY <3>1 DEF Members
    <3> QED BY <1>1, <2>2, <3>1 DEF Placed, AtHead
  <2>3. CASE p # q /\ InQueue(p) /\ LockOf(p) = m
    <3>1. \E i \in 1..Len(new) : new[i] = p
      BY <2>1, <2>3 DEF Placed, Members
    <3>2. new # <<>>
      BY <3>1
    <3>3. req[p].pc # "queued" => Head(new) = p
      BY <2>1, <2>3 DEF Placed, AtHead
    <3> QED BY <1>1, <2>3, <3>1, <3>2, <3>3, OthersSame DEF Placed, AtHead
  <2>4. CASE p # q /\ ~(InQueue(p) /\ LockOf(p) = m)
    BY <1>1, <2>1, <2>4, OthersSame DEF Placed, AtHead
  <2> QED BY <2>2, <2>3, <2>4
<1> QED BY <1>3, <1>4, <1>5 DEF Placed, Ordered, QueueInv

\* A request that awaits on leaves the queues right.
LEMMA StaysQueues ==
  ASSUME CoreTypes, QueueInv, NEW q \in Requests, Others(q), Holds(q), Stays(q)
  PROVE  QueueInv'
<1> SUFFICES ASSUME NEW m \in Locks, m = LockOf(q), NEW old, old = runLocks[m]
             PROVE  QueueInv'
  BY DEF Holds
<1>1. old \in Seq(Requests) /\ old # <<>> /\ Head(old) = q /\ InQueue(q) /\ Ordered(m)
  BY QueueParts DEF CoreTypes, Holds, AtHead
<1>2. runLocks' = [runLocks EXCEPT ![m] = old]
  BY DEF Stays, CoreTypes
<1>3. InQueue(q)' /\ LockOf(q)' = m
  BY DEF Stays, InQueue
<1>4. q \in Members(old) /\ Distinct(old)
  BY <1>1 DEF Members, Distinct, Ordered
<1> QED BY <1>1, <1>2, <1>3, <1>4, ChangedQueue

\* A request that ends lets the next one be first.
LEMMA LeavesQueues ==
  ASSUME CoreTypes, QueueInv, NEW q \in Requests, Others(q), Holds(q), Leaves(q)
  PROVE  QueueInv'
<1> SUFFICES ASSUME NEW m \in Locks, m = LockOf(q), NEW old, old = runLocks[m],
                    NEW new, new = Tail(old)
             PROVE  QueueInv'
  BY DEF Holds
<1>1. old \in Seq(Requests) /\ old # <<>> /\ Head(old) = q /\ InQueue(q) /\ Ordered(m)
  BY QueueParts DEF CoreTypes, Holds, AtHead
<1>2. runLocks' = [runLocks EXCEPT ![m] = new] /\ ~InQueue(q)'
  BY DEF Leaves, Unlock, InQueue
<1>3. /\ new \in Seq(Requests) /\ Len(old) \in Nat \ {0} /\ old[1] = q /\ Len(new) = Len(old) - 1
      /\ \A i \in 1..Len(new) : new[i] = old[i + 1]
  BY <1>1
<1>4. Distinct(old)
  BY <1>1 DEF Ordered, Distinct
<1>5. Distinct(new) /\ q \notin Members(new)
  BY <1>3, <1>4 DEF Distinct, Members
<1>6. Members(new) \subseteq Members(old)
  BY <1>3 DEF Members
<1>7. ASSUME NEW k \in 1..Len(old), old[k] # q PROVE old[k] \in Members(new)
  <2>1. k - 1 \in 1..Len(new) /\ new[k - 1] = old[k]
    BY <1>3, <1>7
  <2> QED BY <2>1 DEF Members
<1>8. Members(new) \ {q} = Members(old) \ {q}
  BY <1>6, <1>7 DEF Members
<1> QED BY <1>1, <1>2, <1>3, <1>5, <1>8, ChangedQueue

\* A request that retries is last, and the next one first.
LEMMA RequeuesQueues ==
  ASSUME CoreTypes, QueueInv, NEW q \in Requests, Others(q), Holds(q), Requeues(q)
  PROVE  QueueInv'
<1> SUFFICES ASSUME NEW m \in Locks, m = LockOf(q), NEW old, old = runLocks[m],
                    NEW new, new = Append(Tail(old), q)
             PROVE  QueueInv'
  BY DEF Holds
<1>1. old \in Seq(Requests) /\ old # <<>> /\ Head(old) = q /\ InQueue(q) /\ Ordered(m)
  BY QueueParts DEF CoreTypes, Holds, AtHead
<1>2. runLocks' = [runLocks EXCEPT ![m] = new] /\ InQueue(q)' /\ LockOf(q)' = m /\ req'[q].pc = "queued"
  BY DEF Requeues, InQueue
<1>3. /\ new \in Seq(Requests) /\ Len(old) \in Nat \ {0} /\ old[1] = q /\ Len(new) = Len(old)
      /\ new[Len(old)] = q /\ \A i \in 1..(Len(old) - 1) : new[i] = old[i + 1]
  BY <1>1
<1>4. Distinct(old)
  BY <1>1 DEF Ordered, Distinct
<1>5. \A i \in 1..(Len(old) - 1) : new[i] # q
  BY <1>3, <1>4 DEF Distinct
<1>6. Distinct(new)
  BY <1>3, <1>4, <1>5 DEF Distinct
<1>7. Members(new) \subseteq Members(old) /\ q \in Members(new)
  <2>1. ASSUME NEW e \in Members(new) PROVE e \in Members(old)
    <3>1. PICK i \in 1..Len(new) : e = new[i]
      BY DEF Members
    <3>2. \E k \in 1..Len(old) : old[k] = e
      BY <1>3, <3>1
    <3> QED BY <3>2 DEF Members
  <2>2. \E i \in 1..Len(new) : new[i] = q
    BY <1>3
  <2> QED BY <2>1, <2>2 DEF Members
<1>8. ASSUME NEW k \in 1..Len(old), old[k] # q PROVE old[k] \in Members(new)
  <2>1. k - 1 \in 1..Len(new) /\ new[k - 1] = old[k]
    BY <1>3, <1>8
  <2> QED BY <2>1 DEF Members
<1>9. Members(new) \ {q} = Members(old) \ {q}
  <2>1. ASSUME NEW e \in Members(old), e # q PROVE e \in Members(new)
    <3>1. PICK k \in 1..Len(old) : e = old[k]
      BY DEF Members
    <3> QED BY <1>8, <2>1, <3>1
  <2> QED BY <1>7, <2>1
<1> QED BY <1>1, <1>2, <1>3, <1>6, <1>7, <1>9, ChangedQueue

\* A request that arrives is last, or first and not yet running.
LEMMA JoinsQueues ==
  ASSUME CoreTypes, QueueInv, NEW q \in Requests, Others(q), Joins(q)
  PROVE  QueueInv'
<1> SUFFICES ASSUME NEW m \in Locks, m = LockOf(q)', NEW old, old = runLocks[m],
                    NEW new, new = Append(old, q)
             PROVE  QueueInv'
  BY DEF Joins
<1>1. old \in Seq(Requests) /\ ~InQueue(q) /\ Ordered(m)
  BY QueueParts DEF CoreTypes, Joins
<1>2. runLocks' = [runLocks EXCEPT ![m] = new] /\ InQueue(q)' /\ LockOf(q)' = m /\ req'[q].pc = "queued"
  BY DEF Joins, InQueue
<1>3. /\ new \in Seq(Requests) /\ Len(old) \in Nat /\ Len(new) = Len(old) + 1
      /\ new[Len(old) + 1] = q /\ \A i \in 1..Len(old) : new[i] = old[i]
  BY <1>1
<1>4. \A i \in 1..Len(old) : old[i] # q
  BY <1>1 DEF Ordered
<1>5. Distinct(old)
  BY <1>1 DEF Ordered, Distinct
<1>6. Distinct(new)
  BY <1>3, <1>4, <1>5 DEF Distinct
<1>7. Members(new) = Members(old) \cup {q}
  <2>1. ASSUME NEW i \in 1..Len(new) PROVE new[i] \in Members(old) \cup {q}
    BY <1>3 DEF Members
  <2>2. ASSUME NEW k \in 1..Len(old) PROVE old[k] \in Members(new)
    BY <1>3 DEF Members
  <2>3. q \in Members(new)
    BY <1>3 DEF Members
  <2> QED BY <2>1, <2>2, <2>3 DEF Members
<1>8. old # <<>> => Head(new) = Head(old)
  BY <1>1, <1>3
<1>9. Members(new) \ {q} = Members(old) \ {q} /\ q \in Members(new)
  BY <1>7
<1>10. \A p \in Requests \ {q} :
         runLocks[m] # <<>> /\ Head(runLocks[m]) = p /\ req[p].pc # "queued" => Head(new) = p
  BY <1>8
<1> QED BY <1>1, <1>2, <1>3, <1>6, <1>9, <1>10, ChangedQueue

\* A sweep candidate without a lock disturbs no queue.
LEMMA OutsideQueues ==
  ASSUME CoreTypes, QueueInv, NEW q \in Requests, Others(q), Outside(q)
  PROVE  QueueInv'
<1>1. runLocks' = runLocks /\ ~InQueue(q) /\ ~InQueue(q)'
  BY DEF Outside
<1>2. ASSUME NEW l \in Locks PROVE Ordered(l)'
  BY <1>1, UntouchedQueue, QueueParts
<1>3. ASSUME NEW p \in Requests PROVE Placed(p)'
  <2>1. Placed(p)
    BY QueueParts
  <2>2. CASE p = q
    BY <1>1, <2>2 DEF Placed
  <2>3. CASE p # q
    BY <1>1, <2>1, <2>3, OthersSame DEF Placed, AtHead
  <2> QED BY <2>2, <2>3
<1> QED BY <1>2, <1>3 DEF Placed, Ordered, QueueInv

\* All five ways keep the queue invariant.
LEMMA QueueStepKeepsQueues ==
  ASSUME CoreTypes, QueueInv, NEW q \in Requests, QueueStep(q)
  PROVE  QueueInv'
BY StaysQueues, LeavesQueues, RequeuesQueues, JoinsQueues, OutsideQueues DEF QueueStep

\* A step that keeps the owners in use keeps the owner invariant.
LEMMA OwnerStepKeepsOwners ==
  ASSUME OwnerInv, NEW q \in Requests, Others(q), OwnerStep(q)
  PROVE  OwnerInv'
<1>1. ASSUME NEW p \in Requests \ {q}
      PROVE  /\ Refers(p)' => req'[p].run \in Runs /\ req'[p].s \in Sessions
                              /\ Owned(req[p].s, req[p].run)'
             /\ ~Refers(p)' => req'[p].s = None
             /\ Fits(p)'
  BY OthersSame DEF OwnerInv, OwnerStep, Refers, Working, Idle, Fits
<1> QED BY <1>1 DEF OwnerInv, OwnerStep

\* A sound step keeps the invariant.
LEMMA SoundKeepsInv ==
  ASSUME Inv, NEW q \in Requests, Sound(q)
  PROVE  Inv'
<1>1. CoreTypes' /\ RegistryTypes' /\ WorldTypes' /\ QueueStep(q) /\ OwnerStep(q) /\ Others(q)
  BY DEF Sound, Ending, QueueStep
<1>2. TypeOK'
  BY <1>1 DEF TypeOK, CoreTypes, RegistryTypes, WorldTypes, SessionRecords, RequestRecords
<1>3. QueueInv'
  BY <1>1, Facts, QueueStepKeepsQueues
<1>4. OwnerInv'
  BY <1>1, Facts, OwnerStepKeepsOwners
<1> QED BY <1>2, <1>3, <1>4 DEF Inv

-----------------------------------------------------------------------------
(* The outside world and the theorems *)

\* Expiry, pages and browsers keep the invariant.
LEMMA WorldKeepsInv ==
  ASSUME Inv, World
  PROVE  Inv'
<1>1. /\ TypeOK /\ OwnerInv /\ QueueInv /\ CoreTypes /\ RegistryTypes /\ WorldTypes
      /\ SameOwners(session)
  BY Facts
<1>2. SUFFICES /\ UNCHANGED <<runSessions, targetOwners, runLocks, req>>
               /\ idempotency' \in [Locks \X Keys -> Targets \cup {None}]
               /\ SameOwners(session') /\ WorldTypes'
  <2> ASSUME /\ UNCHANGED <<runSessions, targetOwners, runLocks, req>>
             /\ idempotency' \in [Locks \X Keys -> Targets \cup {None}]
             /\ SameOwners(session') /\ WorldTypes'
      PROVE  Inv'
    <3>1. CoreTypes' /\ RegistryTypes' /\ WorldTypes'
      BY <1>1 DEF CoreTypes, RegistryTypes, SameOwners
    <3>2. TypeOK'
      BY <3>1 DEF TypeOK, CoreTypes, RegistryTypes, WorldTypes, SessionRecords, RequestRecords
    <3>3. QueueInv'
      BY <1>1 DEF QueueInv, InQueue, LockOf, AtHead
    <3>4. \A r \in Runs : runSessions[r] # None => runSessions[r] \in Sessions
      BY <1>1 DEF RegistryTypes
    <3>5. OwnerInv'
      BY <1>1, <3>4 DEF OwnerInv, SameOwners, Refers, Working, Idle, Fits
    <3> QED BY <3>2, <3>3, <3>5 DEF Inv
  <2> QED OBVIOUS
<1>3. ASSUME NEW s \in Sessions, PageOpens(s) \/ BrowserExits(s)
      PROVE  /\ UNCHANGED <<runSessions, targetOwners, runLocks, req>>
             /\ idempotency' \in [Locks \X Keys -> Targets \cup {None}]
             /\ SameOwners(session') /\ WorldTypes'
  BY <1>1, <1>3 DEF PageOpens, BrowserExits, BrowserCloses, registry, RegistryTypes, WorldTypes
<1>4. ASSUME NEW s \in Sessions, NEW x \in Timeouts, Expire(s, x)
      PROVE  /\ UNCHANGED <<runSessions, targetOwners, runLocks, req>>
             /\ idempotency' \in [Locks \X Keys -> Targets \cup {None}]
             /\ SameOwners(session') /\ WorldTypes'
  <2>1. SameOwners(session')
    BY <1>1, <1>4 DEF Expire, SameOwners, SessionRecords, CoreTypes
  <2> QED BY <1>1, <1>4, <2>1 DEF Expire, registry, external, RegistryTypes, WorldTypes
<1>5. ASSUME NEW t \in Targets, PageCloses(t)
      PROVE  /\ UNCHANGED <<runSessions, targetOwners, runLocks, req>>
             /\ idempotency' \in [Locks \X Keys -> Targets \cup {None}]
             /\ SameOwners(session') /\ WorldTypes'
  BY <1>1, <1>5 DEF PageCloses, registry, RegistryTypes, WorldTypes
<1>6. ASSUME NEW k \in Locks \X Keys, KeyExpires(k)
      PROVE  /\ UNCHANGED <<runSessions, targetOwners, runLocks, req>>
             /\ idempotency' \in [Locks \X Keys -> Targets \cup {None}]
             /\ SameOwners(session') /\ WorldTypes'
  BY <1>1, <1>6 DEF KeyExpires, external, RegistryTypes, WorldTypes
<1> QED BY <1>3, <1>4, <1>5, <1>6 DEF World

\* The invariant holds at first.
LEMMA InitInv ==
  ASSUME Init
  PROVE  Inv
<1>1. TypeOK
  BY DEF Init, TypeOK, NoSession, NoRequest, PcStates, TabOps
<1>2. \A q \in Requests : req[q] = NoRequest /\ req[q].pc = "ok" /\ req[q].op = "none" /\ req[q].s = None
  BY DEF Init, NoRequest
<1>3. QueueInv
  BY <1>2 DEF Init, QueueInv, InQueue
<1>4. OwnerInv
  BY <1>2 DEF Init, OwnerInv, Refers, Working, Idle, Fits
<1> QED BY <1>1, <1>3, <1>4 DEF Inv

\* Every step keeps the invariant.
LEMMA NextKeepsInv ==
  ASSUME Inv, [Next]_vars
  PROVE  Inv'
<1>1. CASE \E q \in Callers : Arrives(q)
  BY <1>1, ArrivesSound, SoundKeepsInv DEF Requests
<1>2. CASE \E q \in Sweepers, r \in Runs : SweepScans(q, r)
  BY <1>2, SweepScansSound, SoundKeepsInv DEF Requests
<1>3. CASE \E q \in Requests : Progress(q)
  BY <1>3, ProgressSound, SoundKeepsInv
<1>4. CASE World
  BY <1>4, WorldKeepsInv
<1>5. CASE UNCHANGED vars
  BY <1>5 DEF vars, Inv, TypeOK, QueueInv, OwnerInv, InQueue, LockOf, AtHead, Refers, Working,
              Idle, Fits
<1> QED BY <1>1, <1>2, <1>3, <1>4, <1>5 DEF Next

\* The locks' queues and the sessions' owners are right in every state.
THEOREM InvCorrect == Spec => []Inv
<1>1. Init => Inv
  BY InitInv
<1>2. Inv /\ [Next]_vars => Inv'
  BY NextKeepsInv
<1> QED BY <1>1, <1>2, PTL DEF Spec

\* Every handler keeps every map, object and request within its type.
THEOREM TypeCorrect == Spec => []TypeOK
<1>1. Inv => TypeOK
  BY DEF Inv
<1> QED BY <1>1, InvCorrect, PTL

\* With one profile, no two requests ever work on the same session: the run
\* lock excludes them although the key of a sweep is read from the registry and
\* a retry gives the lock up and queues again.
THEOREM SessionExclusive ==
  ASSUME NEW profile, Profiles = {profile}
  PROVE  Spec => []OneRequestPerSession
<1>1. Inv => OneRequestPerSession
  <2> SUFFICES ASSUME Inv, NEW p \in Requests, NEW q \in Requests,
                      Working(p), Working(q), req[p].s = req[q].s
               PROVE  p = q
    BY DEF OneRequestPerSession
  <2>1. Holds(p) /\ Holds(q) /\ req[p].run = req[q].run
    BY OwnSession
  <2>2. LockOf(p) = LockOf(q)
    BY <2>1 DEF Holds, LockOf, Locks
  <2> QED BY <2>1, <2>2 DEF Holds, AtHead
<1> QED BY <1>1, InvCorrect, PTL
=============================================================================
