----------------------------- MODULE ControlProofs -----------------------------
(***************************************************************************)
(* Proofs about the parts of Services that a person or an extension        *)
(* drives a browser through: the live control socket, its tokens, and the  *)
(* relay of the Chrome extension.                                          *)
(***************************************************************************)
EXTENDS Services, FiniteSetTheorems, TLAPS

-----------------------------------------------------------------------------
(* Live: the control socket *)

\* The open socket of a run is its registered controller.
OpenIsActive == \A s \in Sockets : conn[s] = "open" /\ claim[s] # None => active[claim[s]] = s

\* A job that was granted its tab is one of a run, and has got the page of that
\* tab when it acts.
GrantedTabs ==
  \A j \in Jobs : jobs[j] # Live!Idle =>
    /\ jobs[j].at \in {"page", "acting"} => claim[jobs[j].socket] # None
    /\ jobs[j].at = "acting" => jobs[j].page = jobs[j].tab

FrameOf(j, s) == jobs[j] # Live!Idle /\ jobs[j].kind = "frame" /\ jobs[j].socket = s

\* A frame in flight is the only one of its socket, and keeps it busy.
FramesBusy ==
  \A s \in Sockets, j \in Jobs : FrameOf(j, s) =>
    frameBusy[s] /\ \A k \in Jobs : FrameOf(k, s) => k = j

LiveInv == Live!TypeOK /\ OpenIsActive /\ GrantedTabs /\ FramesBusy

\* A step of the composition is a step of the sockets, or not this part.
LEMMA LivePart ==
  [Next]_vars => part' = part /\ (part = "live" => [Live!Next]_(Live!vars))
  BY DEF Next, Rest, vars, OfLive, Live!vars

LEMMA LiveInit ==
  ASSUME LiveConstants, Live!Init
  PROVE  LiveInv
  BY DEF LiveConstants, Live!Init, LiveInv, Live!TypeOK, OpenIsActive, GrantedTabs, FramesBusy,
     FrameOf, Live!Idle, Live!Job

\* A frame that starts is the socket's only one.
LEMMA LivePush ==
  ASSUME LiveConstants, LiveInv, NEW j \in Jobs, NEW s \in Sockets, NEW r \in LiveRuns \cup {None},
         NEW t \in LiveTargets \cup {None},
         jobs[j] = Live!Idle, \A k \in Jobs : ~FrameOf(k, s),
         Live!PushFrame(j, s, r, t)
  PROVE  /\ jobs' \in [Jobs -> Live!Job \cup {Live!Idle}] /\ frameBusy' \in [Sockets -> BOOLEAN]
         /\ \A k \in Jobs \ {j} : jobs'[k] = jobs[k]
         /\ jobs'[j] # Live!Idle => jobs'[j].at = "tab" /\ jobs'[j].socket = s
         /\ FramesBusy'
<1> USE DEF LiveConstants, LiveInv, Live!TypeOK, FramesBusy, FrameOf, Live!Idle, Live!Job, Live!Asks
<1>1. CASE UNCHANGED <<jobs, frameBusy>>
  BY <1>1
<1>2. ASSUME NEW x \in Live!Wanted(r, t),
             jobs' = [jobs EXCEPT ![j] = Live!Asks("frame", s, x)],
             frameBusy' = [frameBusy EXCEPT ![s] = TRUE]
      PROVE  /\ jobs' \in [Jobs -> Live!Job \cup {Live!Idle}] /\ frameBusy' \in [Sockets -> BOOLEAN]
             /\ \A k \in Jobs \ {j} : jobs'[k] = jobs[k]
             /\ jobs'[j] # Live!Idle => jobs'[j].at = "tab" /\ jobs'[j].socket = s
             /\ FramesBusy'
  <2>1. x \in LiveTargets
    BY DEF Live!Wanted
  <2>2. jobs' \in [Jobs -> Live!Job \cup {Live!Idle}] /\ frameBusy' \in [Sockets -> BOOLEAN]
    BY <1>2, <2>1
  <2>3. FramesBusy'
    BY <1>2
  <2> QED
    BY <1>2, <2>2, <2>3
<1> QED
  BY <1>1, <1>2 DEF Live!PushFrame

LEMMA LiveStep ==
  ASSUME LiveConstants, LiveInv, [Live!Next]_(Live!vars)
  PROVE  LiveInv'
<1> USE DEF LiveConstants, LiveInv, Live!TypeOK, OpenIsActive, GrantedTabs, FramesBusy,
          FrameOf, Live!Idle, Live!Job, Live!Asks
<1>1. ASSUME NEW s \in Sockets, NEW j \in Jobs, NEW t \in LiveTargets \cup {None},
             Live!Message(s, j, t)
      PROVE  LiveInv'
  BY <1>1 DEF Live!Message, Live!Wanted
<1>2. ASSUME NEW s \in Sockets, NEW j \in Jobs, NEW t \in LiveTargets \cup {None},
             NEW r \in LiveRuns \cup {None}, Live!Upgrade(s, r, t, j)
      PROVE  LiveInv'
  <2>1. /\ conn[s] = "closed" /\ jobs[j] = Live!Idle /\ \A k \in Jobs : jobs[k] # Live!Idle => jobs[k].socket # s
        /\ conn' = [x \in Sockets |-> IF x = s THEN "open"
                                      ELSE IF x \in Live!Replaced(r) THEN "closing" ELSE conn[x]]
        /\ claim' = [claim EXCEPT ![s] = r] /\ target' = [target EXCEPT ![s] = t]
        /\ active' = IF r = None THEN active ELSE [active EXCEPT ![r] = s]
        /\ Live!PushFrame(j, s, r, t)
    BY <1>2 DEF Live!Upgrade, Live!JobsOf
  <2>2. /\ jobs' \in [Jobs -> Live!Job \cup {Live!Idle}] /\ frameBusy' \in [Sockets -> BOOLEAN]
        /\ \A k \in Jobs \ {j} : jobs'[k] = jobs[k]
        /\ jobs'[j] # Live!Idle => jobs'[j].at = "tab" /\ jobs'[j].socket = s
        /\ FramesBusy'
    BY <2>1, LivePush
  <2>3. GrantedTabs'
    BY <2>1, <2>2
  <2>4. /\ conn' \in [Sockets -> {"closed", "open", "closing"}] /\ claim' \in [Sockets -> LiveRuns \cup {None}]
        /\ target' \in [Sockets -> LiveTargets \cup {None}] /\ active' \in [LiveRuns -> {"none"} \cup Sockets]
    BY <2>1
  <2>5. \A q \in LiveRuns : active'[q] \in Sockets => conn'[active'[q]] # "closed" /\ claim'[active'[q]] = q
    BY <2>1, <2>4
  <2>6. OpenIsActive'
    BY <2>1, <2>4 DEF Live!Replaced
  <2> QED
    BY <2>2, <2>3, <2>4, <2>5, <2>6
<1>3. ASSUME NEW s \in Sockets, Live!ClientLeaves(s)
      PROVE  LiveInv'
  BY <1>3 DEF Live!ClientLeaves
<1>4. ASSUME NEW s \in Sockets, Live!Closed(s)
      PROVE  LiveInv'
  BY <1>4 DEF Live!Closed, Live!Deregistered
<1>5. ASSUME NEW s \in Sockets, NEW j \in Jobs, Live!FrameTick(s, j)
      PROVE  LiveInv'
  <2>1. jobs[j] = Live!Idle /\ ~frameBusy[s] /\ Live!PushFrame(j, s, claim[s], target[s])
        /\ UNCHANGED <<conn, claim, active, target>>
    BY <1>5 DEF Live!FrameTick, Live!MayPush
  <2>2. \A k \in Jobs : ~FrameOf(k, s)
    BY <2>1
  <2>3. /\ jobs' \in [Jobs -> Live!Job \cup {Live!Idle}] /\ frameBusy' \in [Sockets -> BOOLEAN]
        /\ \A k \in Jobs \ {j} : jobs'[k] = jobs[k]
        /\ jobs'[j] # Live!Idle => jobs'[j].at = "tab" /\ jobs'[j].socket = s
        /\ FramesBusy'
    BY <2>1, <2>2, LivePush
  <2>4. GrantedTabs'
    BY <2>1, <2>3
  <2> QED
    BY <2>1, <2>3, <2>4
<1>6. ASSUME NEW j \in Jobs, Live!TabGranted(j)
      PROVE  LiveInv'
  BY <1>6 DEF Live!TabGranted
<1>7. ASSUME NEW j \in Jobs, Live!PageFound(j)
      PROVE  LiveInv'
  <2>1. jobs[j] \in Live!Job /\ jobs[j].at = "page"
        /\ UNCHANGED <<conn, claim, active, target, frameBusy>>
    BY <1>7 DEF Live!PageFound
  <2>2. jobs' = [jobs EXCEPT ![j] = [jobs[j] EXCEPT !.at = "acting", !.page = jobs[j].tab]]
    BY <1>7, <2>1 DEF Live!PageFound, Live!PageOf
  <2>3. jobs'[j] \in Live!Job /\ jobs'[j].at = "acting" /\ jobs'[j].kind = jobs[j].kind
        /\ jobs'[j].socket = jobs[j].socket /\ jobs'[j].page = jobs'[j].tab
    BY <2>1, <2>2
  <2>4. jobs' \in [Jobs -> Live!Job \cup {Live!Idle}] /\ \A k \in Jobs \ {j} : jobs'[k] = jobs[k]
    BY <2>2, <2>3
  <2>5. GrantedTabs'
    BY <2>1, <2>3, <2>4
  <2>6. FramesBusy'
    BY <2>1, <2>3, <2>4
  <2> QED
    BY <2>1, <2>4, <2>5, <2>6
<1>8. ASSUME NEW j \in Jobs, Live!JobEnds(j)
      PROVE  LiveInv'
  BY <1>8 DEF Live!JobEnds, Live!Freed
<1>9. CASE UNCHANGED Live!vars
  BY <1>9 DEF Live!vars
<1> QED
  BY <1>1, <1>2, <1>3, <1>4, <1>5, <1>6, <1>7, <1>8, <1>9 DEF Live!Next

LEMMA FramesApart ==
  ASSUME FramesBusy
  PROVE  Live!FramesOneAtATime
<1>1. \A S : Live!Cardinality(S) = Cardinality(S)
  BY DEF Live!Cardinality, Live!IsFiniteSet, Cardinality, IsFiniteSet
<1>2. ASSUME NEW s \in Sockets
      PROVE  Cardinality({j \in Live!JobsOf(s) : jobs[j].kind = "frame"}) <= 1
  <2> DEFINE Frames == {j \in Live!JobsOf(s) : jobs[j].kind = "frame"}
  <2>1. CASE Frames = {}
    <3>1. Cardinality({}) = 0
      BY FS_EmptySet
    <3>2. Cardinality(Frames) = 0
      BY <2>1, <3>1, Zenon
    <3> QED
      BY <3>2
  <2>2. ASSUME NEW j \in Frames
        PROVE  Cardinality(Frames) = 1
    <3>1. Frames = {j}
      BY <2>2 DEF FramesBusy, FrameOf, Live!JobsOf
    <3>2. Cardinality({j}) = 1
      BY FS_Singleton
    <3> QED
      BY <3>1, <3>2, Zenon
  <2> QED
    BY <2>1, <2>2
<1> QED
  BY <1>1, <1>2 DEF Live!FramesOneAtATime

\* Whatever clients, replaced controllers and late close events do, a run has at
\* most one open controller, its frames and inputs act on the page that was
\* granted to them, and the frames of a socket never overlap.
THEOREM ControllersKeep == Spec => []ControllersKeepToRuns
<1> USE ServicesAssumption
<1> DEFINE Held == part = "live" => LiveInv
<1>1. Init => Held
  BY LiveInit DEF Init
<1>2. Held /\ [Next]_vars => Held'
  BY LivePart, LiveStep
<1>3. Held => ControllersKeepToRuns
  <2> SUFFICES ASSUME LiveInv
               PROVE  Live!OneController /\ Live!ActsOnGrantedPage /\ Live!FramesOneAtATime
    BY DEF ControllersKeepToRuns
  <2>1. Live!OneController
    BY DEF LiveInv, OpenIsActive, Live!OneController
  <2>2. Live!ActsOnGrantedPage
    BY DEF LiveInv, GrantedTabs, Live!ActsOnGrantedPage
  <2> QED
    BY <2>1, <2>2, FramesApart DEF LiveInv
<1> HIDE DEF Held
<1> QED
  BY <1>1, <1>2, <1>3, PTL DEF Spec

-----------------------------------------------------------------------------
(* Tokens: control tokens *)

\* A token of this service has every claim right, and the lifetime told.
IssuedAsTold ==
  issuedAt # None =>
    /\ told \in Nat \ {0}
    /\ token = [signed |-> TRUE, hs256 |-> TRUE, exp |-> issuedAt + told, nbf |-> issuedAt,
                iss |-> "ours", aud |-> "ours", scoped |-> TRUE, ourType |-> TRUE, run |-> TRUE]

\* The times that a token carries are numbers, and an accepted one expires.
TokenTimes ==
  /\ phase # "none" => token.exp \in {None} \cup Int /\ token.nbf \in {None} \cup Int
  /\ phase = "checked" => token.exp \in Int

TokensInv == Tokens!TypeOK /\ IssuedAsTold /\ TokenTimes /\ Tokens!CheckedStaysGood

\* A step of the composition is a step of the token's life, or not this part.
LEMMA TokensPart ==
  [Next]_vars => part' = part /\ (part = "tokens" => [Tokens!Next]_(Tokens!vars))
  BY DEF Next, Rest, vars, OfTokens, Tokens!vars

LEMMA TokensInit ==
  ASSUME TokensConstants, Tokens!Init
  PROVE  TokensInv
  BY DEF TokensConstants, Tokens!Init, TokensInv, Tokens!TypeOK, IssuedAsTold, TokenTimes,
     Tokens!CheckedStaysGood

LEMMA TokensStep ==
  ASSUME TokensConstants, TokensInv, [Tokens!Next]_(Tokens!vars)
  PROVE  TokensInv'
<1> USE DEF TokensConstants, TokensInv, Tokens!TypeOK, IssuedAsTold, TokenTimes,
          Tokens!CheckedStaysGood
<1>1. ASSUME NEW a \in Asked \cup {None}, Tokens!Create(a)
      PROVE  TokensInv'
  <2> DEFINE life == Tokens!Floored(a)
  <2>1. life \in Nat \ {0} /\ life \in Asked \cup {MinLife, DefaultLife}
    BY DEF Tokens!Floored
  <2>2. token' = [signed |-> TRUE, hs256 |-> TRUE, exp |-> now + life, nbf |-> now, iss |-> "ours",
                  aud |-> "ours", scoped |-> TRUE, ourType |-> TRUE, run |-> TRUE]
        /\ issuedAt' = now /\ told' = life /\ phase' = "minted" /\ UNCHANGED now
    BY <1>1 DEF Tokens!Create, Tokens!LifeClaimed
  <2> HIDE DEF life
  <2>3. Tokens!TypeOK'
    BY <2>1, <2>2
  <2>4. IssuedAsTold'
    BY <2>1, <2>2
  <2>5. TokenTimes' /\ Tokens!CheckedStaysGood'
    BY <2>1, <2>2
  <2> QED
    BY <2>3, <2>4, <2>5
<1>2. CASE Tokens!Bring
  <2>1. PICK e, n \in {None} \cup 0..Horizon, i, a \in Tokens!Tri, b \in BOOLEAN,
             f \in {"none", "signed", "hs256", "scoped", "ourType", "run"} :
          token' = [signed |-> f # "signed", hs256 |-> f # "hs256", exp |-> e, nbf |-> n, iss |-> i,
                    aud |-> a, scoped |-> b /\ f # "scoped", ourType |-> f # "ourType", run |-> f # "run"]
    BY <1>2 DEF Tokens!Bring
  <2>2. phase' = "minted" /\ token = None /\ UNCHANGED <<now, issuedAt, told>>
    BY <1>2 DEF Tokens!Bring
  <2>3. DOMAIN token' = {"signed", "hs256", "exp", "nbf", "iss", "aud", "scoped", "ourType", "run"}
        /\ token'.exp = e /\ token'.nbf = n
    BY <2>1
  <2>4. issuedAt = None
    <3>1. ASSUME issuedAt # None
          PROVE  token \in Claims
      <4>1. issuedAt \in Int /\ issuedAt + told \in Int
        BY <3>1
      <4>2. token = [signed |-> TRUE, hs256 |-> TRUE, exp |-> issuedAt + told, nbf |-> issuedAt,
                     iss |-> "ours", aud |-> "ours", scoped |-> TRUE, ourType |-> TRUE, run |-> TRUE]
        BY <3>1
      <4> HIDE DEF TokensInv, IssuedAsTold
      <4> QED
        BY <4>1, <4>2 DEF Claims, Tokens!Tri
    <3> QED
      BY <2>2, <3>1
  <2> QED
    BY <2>2, <2>3, <2>4
<1>3. CASE Tokens!Control
  BY <1>3 DEF Tokens!Control, Tokens!Verified, Tokens!Expired, Tokens!NotActive
<1>4. CASE Tokens!Live
  BY <1>4 DEF Tokens!Live
<1>5. CASE Tokens!Tick
  <2>1. now' = now + 1 /\ now + 1 \in 0..Horizon /\ UNCHANGED <<token, issuedAt, told, phase>>
    BY <1>5 DEF Tokens!Tick
  <2>2. Tokens!TypeOK' /\ IssuedAsTold' /\ TokenTimes'
    BY <2>1
  <2>3. phase = "checked" /\ Tokens!Verified(token) => Tokens!Verified(token)' \/ token.exp <= now + 1
    BY <2>1 DEF Tokens!Verified, Tokens!Expired, Tokens!NotActive
  <2>4. phase = "checked" /\ token.exp <= now => token.exp <= now + 1
    BY <2>1
  <2> QED
    BY <2>1, <2>2, <2>3, <2>4
<1>6. CASE UNCHANGED Tokens!vars
  BY <1>6 DEF Tokens!vars, Tokens!Verified, Tokens!Expired, Tokens!NotActive
<1> QED
  BY <1>1, <1>2, <1>3, <1>4, <1>5, <1>6 DEF Tokens!Next

\* A token of this service is accepted for exactly the lifetime it was given.
LEMMA TokensLastAsTold ==
  ASSUME TokensConstants, TokensInv
  PROVE  Tokens!IssuedTokensLast
  BY DEF TokensConstants, TokensInv, Tokens!TypeOK, IssuedAsTold, Tokens!IssuedTokensLast,
     Tokens!Verified, Tokens!Expired, Tokens!NotActive

\* A control token is good for exactly the lifetime its issuer was told, and one
\* that /control accepted is refused by the upgrade only when it has expired.
THEOREM TokensLastTheirLifetime == Spec => []TokensLast
<1> USE ServicesAssumption
<1> DEFINE Held == part = "tokens" => TokensInv
<1>1. Init => Held
  BY TokensInit DEF Init
<1>2. Held /\ [Next]_vars => Held'
  BY TokensPart, TokensStep
<1>3. Held => TokensLast
  BY TokensLastAsTold DEF TokensInv, TokensLast
<1> HIDE DEF Held
<1> QED
  BY <1>1, <1>2, <1>3, PTL DEF Spec

-----------------------------------------------------------------------------
(* Relay: the Chrome extension relay *)

\* An open client is served; what a client was told ends with its socket.
OpenServed ==
  \A k \in Clients :
    /\ socket[k] = "open" => k \in cdpClients
    /\ socket[k] # "open" => view[k] = Relay!NoTargets /\ k \notin attaching

\* An id waits for one pending command, the one the extension was asked; every
\* pending command waits under one id; the next ids were never given.
IdsTellApart ==
  /\ \A i \in Relay!Ids : pending[i] # None =>
       /\ status[pending[i]] = "pending" /\ asked[i] \subseteq {pending[i]}
       /\ \A j \in Relay!Ids : pending[j] = pending[i] => j = i
  /\ \A c \in Commands : status[c] = "pending" => \E i \in Relay!Ids : pending[i] = c
  /\ \A i \in Relay!Ids : i >= nextId => pending[i] = None /\ asked[i] = {}

RelayInv ==
  /\ Relay!TypeOK /\ Relay!NothingSurvivesExtension /\ Relay!ViewsAgree
  /\ OpenServed /\ IdsTellApart

\* A step of the composition is a step of the relay, or not this part.
LEMMA RelayPart ==
  [Next]_vars => part' = part /\ (part = "relay" => [Relay!Next]_(Relay!vars))
  BY DEF Next, Rest, vars, OfRelay, Relay!vars, Relay!commands, Relay!clients

LEMMA RelayInit ==
  ASSUME RelayConstants, Relay!Init
  PROVE  RelayInv
  BY DEF RelayConstants, Relay!Init, RelayInv, Relay!TypeOK, Relay!NothingSurvivesExtension,
     Relay!ViewsAgree, OpenServed, IdsTellApart, Relay!Ids, Relay!NoTargets, Relay!NoIds,
     Relay!Outcomes, Relay!Hearers

\* A reply settles one command that was not settled, with its own result.
LEMMA RelayReply ==
  ASSUME RelayInv, NEW c \in Commands, NEW k, NEW outcome \in {"answered", "failed"},
         status[c] \in {"unsent", "pending"},
         Relay!Reply(c, k, outcome, c) \/ (outcome = "failed" /\ Relay!Reply(c, k, outcome, None))
  PROVE  /\ Relay!Replies!Settle(c)
         /\ status' \in [Commands -> Relay!Outcomes] /\ result' \in [Commands -> Commands \cup {None}]
         /\ status'[c] \notin {"unsent", "pending"}
         /\ \A d \in Commands \ {c} : status'[d] = status[d]
<1> USE DEF RelayInv, Relay!TypeOK, Relay!Outcomes
<1> DEFINE o == IF k = None \/ socket[k] # "open" THEN "dropped" ELSE outcome
<1>1. status' = [status EXCEPT ![c] = o] /\ o \in {"answered", "failed", "dropped"}
  BY DEF Relay!Reply, Relay!Told
<1>2. result' = [result EXCEPT ![c] = IF o = "answered" THEN c ELSE @]
  BY <1>1 DEF Relay!Reply
<1> HIDE DEF o
<1>3. Relay!Replies!Settle(c)
  <2>1. CASE o = "answered"
    BY <1>1, <1>2, <2>1 DEF Relay!Replies!Settle
  <2>2. CASE o \in {"failed", "dropped"}
    BY <1>1, <1>2, <2>2 DEF Relay!Replies!Settle
  <2> QED
    BY <1>1, <2>1, <2>2
<1>4. status' \in [Commands -> Relay!Outcomes] /\ result' \in [Commands -> Commands \cup {None}]
  BY <1>1, <1>2
<1> QED
  BY <1>1, <1>3, <1>4

\* An id is freed when its command is settled.
LEMMA RelayUnpend ==
  ASSUME RelayConstants, RelayInv, NEW i \in Relay!Ids, pending[i] # None, Relay!Unpend(i),
         status'[pending[i]] \notin {"unsent", "pending"},
         \A d \in Commands \ {pending[i]} : status'[d] = status[d],
         UNCHANGED <<nextId, asked>>
  PROVE  IdsTellApart' /\ pending' \in [Relay!Ids -> Commands \cup {None}]
<1> USE DEF RelayConstants, RelayInv, Relay!TypeOK, IdsTellApart, Relay!Ids
<1>1. pending' = [pending EXCEPT ![i] = None]
  BY DEF Relay!Unpend
<1>2. \A j \in Relay!Ids : pending'[j] # None =>
        j # i /\ pending'[j] = pending[j] /\ status'[pending[j]] = status[pending[j]]
  BY <1>1
<1>3. \A c \in Commands : status'[c] = "pending" => c # pending[i] /\ \E j \in Relay!Ids \ {i} : pending[j] = c
  OBVIOUS
<1> QED
  BY <1>1, <1>2, <1>3

\* A forwarded command waits under the next id, or is refused at once.
LEMMA RelayForward ==
  ASSUME RelayConstants, RelayInv, NEW c \in Commands, status[c] = "unsent",
         NEW k \in Clients \cup {None}, Relay!Forward(c, k),
         UNCHANGED <<running, extension, targets, Relay!clients>>
  PROVE  RelayInv' /\ (Relay!Replies!Submit(c) \/ Relay!Replies!Settle(c))
<1> USE DEF RelayConstants, RelayInv, Relay!TypeOK
<1>1. nextId \in Relay!Ids /\ nextId' = nextId + 1 /\ sender' = [sender EXCEPT ![c] = k]
      /\ UNCHANGED <<running, extension, targets, socket, cdpClients, view, attaching>>
  BY DEF Relay!Forward, Relay!TakeId, Relay!clients
<1>2. nextId' \in 1..(MaxId + 1) /\ sender' \in [Commands -> Clients \cup {None}]
  BY <1>1 DEF Relay!Ids
<1>3. Relay!ViewsAgree' /\ OpenServed'
  BY <1>1 DEF Relay!ViewsAgree, OpenServed, Relay!Hearers, Relay!NoTargets
<1>4. CASE extension = "open"
  <2>1. /\ pending' = [pending EXCEPT ![nextId] = c] /\ asked' = [asked EXCEPT ![nextId] = @ \cup {c}]
        /\ status' = [status EXCEPT ![c] = "pending"] /\ result' = result
    BY <1>4 DEF Relay!Forward
  <2>2. Relay!Replies!Submit(c)
    BY <2>1 DEF Relay!Replies!Submit
  <2>3. pending[nextId] = None /\ asked[nextId] = {} /\ \A i \in Relay!Ids : pending[i] # c
    BY <1>1 DEF IdsTellApart, Relay!Ids
  <2>4. /\ pending' \in [Relay!Ids -> Commands \cup {None}] /\ asked' \in [Relay!Ids -> SUBSET Commands]
        /\ status' \in [Commands -> Relay!Outcomes]
    BY <2>1, <1>1 DEF Relay!Outcomes
  <2>5. /\ pending'[nextId] = c /\ asked'[nextId] = {c} /\ status'[c] = "pending"
        /\ \A i \in Relay!Ids \ {nextId} : pending'[i] = pending[i] /\ asked'[i] = asked[i]
        /\ \A d \in Commands \ {c} : status'[d] = status[d]
    BY <2>1, <2>3, <1>1
  <2>6. IdsTellApart'
    <3>1. \A i \in Relay!Ids : pending'[i] # None =>
            /\ status'[pending'[i]] = "pending" /\ asked'[i] \subseteq {pending'[i]}
            /\ \A j \in Relay!Ids : pending'[j] = pending'[i] => j = i
      BY <2>3, <2>5 DEF IdsTellApart
    <3>2. \A d \in Commands : status'[d] = "pending" => \E i \in Relay!Ids : pending'[i] = d
      <4> SUFFICES ASSUME NEW d \in Commands, status'[d] = "pending"
                   PROVE  \E i \in Relay!Ids : pending'[i] = d
        OBVIOUS
      <4>1. CASE d = c
        BY <4>1, <1>1, <2>5
      <4>2. CASE d # c
        <5>1. PICK i \in Relay!Ids : pending[i] = d
          BY <4>2, <2>5 DEF IdsTellApart
        <5>2. i # nextId
          BY <5>1, <2>3
        <5> QED
          BY <5>1, <5>2, <2>5
      <4> QED
        BY <4>1, <4>2
    <3>3. \A i \in Relay!Ids : i >= nextId' => pending'[i] = None /\ asked'[i] = {}
      BY <1>1, <2>5 DEF IdsTellApart, Relay!Ids
    <3> QED
      BY <3>1, <3>2, <3>3 DEF IdsTellApart
  <2> QED
    BY <1>1, <1>2, <1>3, <1>4, <2>1, <2>2, <2>4, <2>6 DEF Relay!NothingSurvivesExtension
<1>5. CASE extension # "open"
  <2>1. Relay!Reply(c, k, "failed", None) /\ UNCHANGED <<pending, asked>>
    BY <1>5 DEF Relay!Forward
  <2>2. /\ Relay!Replies!Settle(c)
        /\ status' \in [Commands -> Relay!Outcomes] /\ result' \in [Commands -> Commands \cup {None}]
        /\ status'[c] \notin {"unsent", "pending"}
        /\ \A d \in Commands \ {c} : status'[d] = status[d]
    BY <2>1, RelayReply
  <2>3. IdsTellApart'
    BY <1>1, <2>1, <2>2 DEF IdsTellApart, Relay!Ids
  <2> QED
    BY <1>1, <1>2, <1>3, <1>5, <2>1, <2>2, <2>3 DEF Relay!NothingSurvivesExtension, Relay!NoIds, Relay!NoTargets
<1> QED
  BY <1>4, <1>5

\* What clients were told stays right when only commands move.
LEMMA RelayTold ==
  ASSUME Relay!ViewsAgree, OpenServed,
         UNCHANGED <<targets, socket, cdpClients, view, attaching>>
  PROVE  Relay!ViewsAgree' /\ OpenServed'
  BY DEF Relay!ViewsAgree, OpenServed, Relay!Hearers, Relay!NoTargets

\* The ids stay apart when no command moves.
LEMMA RelayIdsKept ==
  ASSUME IdsTellApart, UNCHANGED Relay!commands
  PROVE  IdsTellApart'
  BY DEF IdsTellApart, Relay!Ids, Relay!commands

\* An answer or a time-out settles the command that waited under its id.
LEMMA RelayAnswer ==
  ASSUME RelayConstants, RelayInv, NEW i \in Relay!Ids,
         Relay!ExtensionAnswers(i) \/ Relay!RequestTimesOut(i)
  PROVE  RelayInv' /\ \E c \in Commands : Relay!Replies!Settle(c)
<1> USE DEF RelayConstants, RelayInv, Relay!TypeOK
<1> DEFINE c == pending[i]
<1>1. /\ pending[i] # None /\ Relay!Unpend(i)
      /\ UNCHANGED <<running, extension, targets, nextId, sender, asked, socket, cdpClients, view, attaching>>
  BY DEF Relay!ExtensionAnswers, Relay!RequestTimesOut, Relay!clients
<1>2. c \in Commands /\ status[c] = "pending" /\ asked[i] \subseteq {c}
  BY <1>1 DEF IdsTellApart
<1>3. Relay!Reply(c, sender[c], "answered", c) \/ Relay!Reply(c, sender[c], "failed", None)
  BY <1>2 DEF Relay!ExtensionAnswers, Relay!RequestTimesOut
<1> HIDE DEF c
<1>4. /\ Relay!Replies!Settle(c)
      /\ status' \in [Commands -> Relay!Outcomes] /\ result' \in [Commands -> Commands \cup {None}]
      /\ status'[c] \notin {"unsent", "pending"}
      /\ \A d \in Commands \ {c} : status'[d] = status[d]
  BY <1>2, <1>3, RelayReply
<1>5. IdsTellApart' /\ pending' \in [Relay!Ids -> Commands \cup {None}]
  BY <1>1, <1>4, RelayUnpend DEF c
<1>6. Relay!ViewsAgree' /\ OpenServed'
  BY <1>1, RelayTold
<1>7. Relay!NothingSurvivesExtension'
  BY <1>1 DEF Relay!NothingSurvivesExtension, Relay!NoIds, Relay!NoTargets, Relay!Unpend
<1> QED
  BY <1>1, <1>2, <1>4, <1>5, <1>6, <1>7

\* Commands about the relay itself are settled as they arrive.
LEMMA RelayClientCommand ==
  ASSUME RelayConstants, RelayInv, NEW c \in Commands, NEW k \in Clients,
         Relay!ClientCommand(c, k)
  PROVE  RelayInv' /\ Relay!Replies!Settle(c)
<1> USE DEF RelayConstants, RelayInv, Relay!TypeOK
<1>1. /\ status[c] = "unsent" /\ sender' = [sender EXCEPT ![c] = k]
      /\ UNCHANGED <<running, extension, targets, pending, nextId, asked, socket, cdpClients>>
  BY DEF Relay!ClientCommand
<1>2. Relay!Reply(c, k, "answered", c) \/ Relay!Reply(c, k, "failed", None)
  BY DEF Relay!ClientCommand, Relay!AutoAttach, Relay!AttachToTarget
<1>3. /\ Relay!Replies!Settle(c)
      /\ status' \in [Commands -> Relay!Outcomes] /\ result' \in [Commands -> Commands \cup {None}]
      /\ status'[c] \notin {"unsent", "pending"}
      /\ \A d \in Commands \ {c} : status'[d] = status[d]
  BY <1>1, <1>2, RelayReply
<1>4. IdsTellApart'
  BY <1>1, <1>3 DEF IdsTellApart, Relay!Ids
<1>5. /\ view' \in [Clients -> [Tabs -> RelayTargets \cup {None}]] /\ attaching' \subseteq Clients
      /\ Relay!ViewsAgree' /\ OpenServed'
  <2>1. CASE UNCHANGED <<view, attaching>>
    BY <1>1, <2>1, RelayTold
  <2>2. CASE Relay!AutoAttach(c, k) /\ socket[k] = "open"
    <3>1. /\ view' = [view EXCEPT ![k] = [s \in Tabs |-> IF targets[s] # None THEN targets[s] ELSE @[s]]]
          /\ attaching' = attaching \cup {k}
      BY <2>2 DEF Relay!AutoAttach
    <3>2. k \in Relay!Hearers
      BY <2>2 DEF OpenServed, Relay!Hearers
    <3>3. \A s \in Tabs : view[k][s] \in {None, targets[s]}
      BY <3>2 DEF Relay!ViewsAgree
    <3>4. view'[k] = targets /\ \A x \in Clients \ {k} : view'[x] = view[x]
      BY <3>1, <3>3
    <3>5. view' \in [Clients -> [Tabs -> RelayTargets \cup {None}]]
      BY <3>1, <3>4
    <3>6. Relay!ViewsAgree' /\ OpenServed'
      BY <1>1, <2>2, <3>1, <3>4 DEF Relay!ViewsAgree, OpenServed, Relay!Hearers, Relay!NoTargets
    <3> QED
      BY <3>1, <3>5, <3>6
  <2>3. ASSUME NEW s \in Tabs, NEW t \in RelayTargets, targets[s] = t,
               Relay!TellAttached({k} \cap Relay!Hearers, s, t), UNCHANGED attaching
        PROVE  /\ view' \in [Clients -> [Tabs -> RelayTargets \cup {None}]] /\ attaching' \subseteq Clients
               /\ Relay!ViewsAgree' /\ OpenServed'
    <3>1. \A x \in Clients : view'[x] = IF x = k /\ x \in Relay!Hearers THEN [view[x] EXCEPT ![s] = t] ELSE view[x]
      BY <2>3 DEF Relay!TellAttached
    <3>2. view' \in [Clients -> [Tabs -> RelayTargets \cup {None}]]
      BY <2>3 DEF Relay!TellAttached
    <3>3. Relay!ViewsAgree'
      <4> SUFFICES ASSUME NEW x \in Relay!Hearers
                   PROVE  /\ \A u \in Tabs : view'[x][u] \in {None, targets[u]}
                          /\ x \in attaching => view'[x] = targets
        BY <1>1, <2>3 DEF Relay!ViewsAgree, Relay!Hearers
      <4>1. /\ \A u \in Tabs : view[x][u] \in {None, targets[u]}
            /\ x \in attaching => view[x] = targets
        BY DEF Relay!ViewsAgree
      <4>2. CASE view'[x] = view[x]
        BY <4>1, <4>2
      <4>3. CASE view'[x] = [view[x] EXCEPT ![s] = t]
        <5>1. x \in Clients
          BY DEF Relay!Hearers
        <5>2. x \in attaching => view'[x] = targets
          BY <2>3, <4>1, <4>3, <5>1
        <5>3. \A u \in Tabs : view'[x][u] \in {None, targets[u]}
          BY <2>3, <4>1, <4>3, <5>1
        <5> QED
          BY <5>2, <5>3
      <4> QED
        BY <3>1, <4>2, <4>3 DEF Relay!Hearers
    <3>4. OpenServed'
      BY <1>1, <2>3, <3>1 DEF OpenServed, Relay!Hearers, Relay!NoTargets
    <3> QED
      BY <2>3, <3>2, <3>3, <3>4
  <2> QED
    BY <2>1, <2>2, <2>3 DEF Relay!ClientCommand, Relay!AutoAttach, Relay!AttachToTarget
<1>6. Relay!NothingSurvivesExtension'
  BY <1>1 DEF Relay!NothingSurvivesExtension, Relay!NoIds, Relay!NoTargets
<1> QED
  BY <1>1, <1>3, <1>4, <1>5, <1>6

\* A target event: every open client is told, or knew it already.
LEMMA RelayTargetEvent ==
  ASSUME RelayConstants, RelayInv, NEW s \in Tabs, NEW t \in RelayTargets \cup {None},
         Relay!Heard, targets' = [targets EXCEPT ![s] = t],
         Relay!TellAttached(Relay!Hearers, s, t) \/ (targets[s] = t /\ UNCHANGED view),
         UNCHANGED <<running, extension, Relay!commands, socket, cdpClients, attaching>>
  PROVE  RelayInv'
<1> USE DEF RelayConstants, RelayInv, Relay!TypeOK
<1>1. targets' \in [Tabs -> RelayTargets \cup {None}]
  OBVIOUS
<1>2. view' \in [Clients -> [Tabs -> RelayTargets \cup {None}]]
  BY DEF Relay!TellAttached
<1>3. \A x \in Relay!Hearers : view'[x] = [view[x] EXCEPT ![s] = t] \/ (targets' = targets /\ view'[x] = view[x])
  BY DEF Relay!TellAttached, Relay!Hearers
<1>4. Relay!ViewsAgree'
  <2> SUFFICES ASSUME NEW x \in Relay!Hearers
               PROVE  /\ \A u \in Tabs : view'[x][u] \in {None, targets'[u]}
                      /\ x \in attaching => view'[x] = targets'
    BY DEF Relay!ViewsAgree, Relay!Hearers
  <2>1. /\ \A u \in Tabs : view[x][u] \in {None, targets[u]}
        /\ x \in attaching => view[x] = targets
    BY DEF Relay!ViewsAgree
  <2>2. CASE targets' = targets /\ view'[x] = view[x]
    BY <2>1, <2>2
  <2>3. CASE view'[x] = [view[x] EXCEPT ![s] = t]
    <3>1. x \in Clients
      BY DEF Relay!Hearers
    <3>2. x \in attaching => view'[x] = targets'
      BY <2>1, <2>3
    <3>3. \A u \in Tabs : view'[x][u] \in {None, targets'[u]}
      BY <2>1, <2>3, <3>1
    <3> QED
      BY <3>2, <3>3
  <2> QED
    BY <1>3, <2>2, <2>3
<1>5. OpenServed'
  BY DEF OpenServed, Relay!TellAttached, Relay!Hearers, Relay!NoTargets
<1>6. IdsTellApart'
  BY RelayIdsKept
<1>7. Relay!NothingSurvivesExtension'
  BY DEF Relay!NothingSurvivesExtension, Relay!Heard
<1> QED
  BY <1>1, <1>2, <1>4, <1>5, <1>6, <1>7 DEF Relay!commands

\* Closing the clients' sockets ends all they were told.
LEMMA RelayHangUp ==
  ASSUME RelayConstants, RelayInv, Relay!CloseClients, cdpClients' \subseteq cdpClients
  PROVE  /\ socket' \in [Clients -> {"none", "open", "closing"}]
         /\ view' \in [Clients -> [Tabs -> RelayTargets \cup {None}]] /\ attaching' \subseteq Clients
         /\ Relay!ViewsAgree' /\ \A k \in Clients : socket'[k] # "open"
         /\ OpenServed'
<1> USE DEF RelayConstants, RelayInv, Relay!TypeOK, Relay!CloseClients, Relay!HangUp
<1>1. \A k \in Clients : socket'[k] # "open" /\ view'[k] = Relay!NoTargets /\ k \notin attaching'
  BY DEF OpenServed
<1>2. view' \in [Clients -> [Tabs -> RelayTargets \cup {None}]]
  BY DEF Relay!NoTargets
<1>3. socket' \in [Clients -> {"none", "open", "closing"}] /\ attaching' \subseteq Clients
  OBVIOUS
<1>4. cdpClients' \subseteq Clients
  OBVIOUS
<1> HIDE DEF RelayInv, Relay!TypeOK, Relay!CloseClients, Relay!HangUp
<1> QED
  BY <1>1, <1>2, <1>3, <1>4 DEF OpenServed, Relay!ViewsAgree, Relay!Hearers, Relay!NoTargets

LEMMA RelayStep ==
  ASSUME RelayConstants, RelayInv, [Relay!Next]_(Relay!vars)
  PROVE  RelayInv' /\ Relay!ReplyStep
<1> USE DEF RelayConstants, RelayInv, Relay!TypeOK
<1> DEFINE Kept == RelayInv' /\ Relay!ReplyStep
<1> SUFFICES Kept
  OBVIOUS
<1>1. ASSUME UNCHANGED <<running, targets, Relay!commands, Relay!clients>>,
             extension' \in {"open", "closing"}
      PROVE  Kept
  <2>1. Relay!ViewsAgree' /\ OpenServed' /\ IdsTellApart'
    BY <1>1, RelayTold, RelayIdsKept DEF Relay!clients
  <2> QED
    BY <1>1, <2>1 DEF Relay!NothingSurvivesExtension, Relay!ReplyStep, Relay!commands, Relay!clients
<1>2. CASE Relay!ExtensionConnects \/ Relay!ExtensionLeaves
  BY <1>1, <1>2 DEF Relay!ExtensionConnects, Relay!ExtensionLeaves
<1>3. CASE Relay!ExtensionCloses
  <2>1. /\ extension' = "none" /\ pending' = Relay!NoIds /\ asked' = [i \in Relay!Ids |-> {}]
        /\ targets' = Relay!NoTargets /\ Relay!CloseClients /\ cdpClients' = {}
        /\ UNCHANGED <<running, nextId, sender, result>>
    BY <1>3 DEF Relay!ExtensionCloses, Relay!ForgetTargets
  <2>2. status' = [c \in Commands |-> IF status[c] = "pending" THEN "dropped" ELSE status[c]]
    BY <1>3 DEF Relay!ExtensionCloses, Relay!DropPending, IdsTellApart
  <2>3. IdsTellApart'
    BY <2>1, <2>2 DEF IdsTellApart, Relay!NoIds
  <2>4. status' \in [Commands -> Relay!Outcomes]
    BY <2>2 DEF Relay!Outcomes
  <2>5. pending' \in [Relay!Ids -> Commands \cup {None}] /\ asked' \in [Relay!Ids -> SUBSET Commands]
        /\ targets' \in [Tabs -> RelayTargets \cup {None}]
    BY <2>1 DEF Relay!NoIds, Relay!NoTargets
  <2>6. /\ socket' \in [Clients -> {"none", "open", "closing"}]
        /\ view' \in [Clients -> [Tabs -> RelayTargets \cup {None}]] /\ attaching' \subseteq Clients
        /\ Relay!ViewsAgree' /\ OpenServed'
    BY <2>1, RelayHangUp
  <2>7. Relay!NothingSurvivesExtension'
    BY <2>1 DEF Relay!NothingSurvivesExtension, Relay!NoIds, Relay!NoTargets
  <2>8. Relay!ReplyStep
    BY <2>1, <2>2 DEF Relay!ReplyStep, Relay!Replies!Next, Relay!Replies!Disconnect
  <2> QED
    BY <2>1, <2>3, <2>4, <2>5, <2>6, <2>7, <2>8
<1>4. CASE Relay!Stop
  <2>1. /\ running' = FALSE /\ extension' \in {extension, "closing"} /\ (extension = "none" => extension' = extension)
        /\ Relay!CloseClients /\ UNCHANGED <<targets, Relay!commands, cdpClients>>
    BY <1>4 DEF Relay!Stop
  <2>2. /\ socket' \in [Clients -> {"none", "open", "closing"}]
        /\ view' \in [Clients -> [Tabs -> RelayTargets \cup {None}]] /\ attaching' \subseteq Clients
        /\ Relay!ViewsAgree' /\ OpenServed'
    BY <2>1, RelayHangUp
  <2>3. IdsTellApart'
    BY <2>1, RelayIdsKept
  <2>4. Relay!NothingSurvivesExtension'
    BY <2>1 DEF Relay!NothingSurvivesExtension, Relay!NoIds, Relay!NoTargets, Relay!commands
  <2> QED
    BY <2>1, <2>2, <2>3, <2>4 DEF Relay!ReplyStep, Relay!commands
<1>5. ASSUME NEW k \in Clients, Relay!ClientConnects(k)
      PROVE  Kept
  <2>1. /\ socket[k] = "none" /\ extension # "none"
        /\ socket' = [socket EXCEPT ![k] = "open"] /\ cdpClients' = cdpClients \cup {k}
        /\ UNCHANGED <<running, extension, targets, Relay!commands, view, attaching>>
    BY <1>5 DEF Relay!ClientConnects, Relay!MayConnect
  <2>2. view[k] = Relay!NoTargets /\ k \notin attaching
    BY <2>1 DEF OpenServed
  <2>3. OpenServed'
    BY <2>1 DEF OpenServed, Relay!NoTargets
  <2>4. Relay!ViewsAgree'
    BY <2>1, <2>2 DEF Relay!ViewsAgree, Relay!Hearers, Relay!NoTargets
  <2>5. IdsTellApart'
    BY <2>1, RelayIdsKept
  <2>6. Relay!NothingSurvivesExtension'
    BY <2>1 DEF Relay!NothingSurvivesExtension
  <2> QED
    BY <2>1, <2>3, <2>4, <2>5, <2>6 DEF Relay!ReplyStep, Relay!commands
<1>6. ASSUME NEW k \in Clients, Relay!ClientCloses(k)
      PROVE  Kept
  <2>1. /\ socket' = [socket EXCEPT ![k] = "none"] /\ cdpClients' = cdpClients \ {k}
        /\ Relay!HangUp({k})
        /\ UNCHANGED <<running, extension, targets, Relay!commands>>
    BY <1>6 DEF Relay!ClientCloses
  <2>2. /\ view' \in [Clients -> [Tabs -> RelayTargets \cup {None}]] /\ attaching' \subseteq Clients
    BY <2>1 DEF Relay!HangUp, Relay!NoTargets
  <2>3. OpenServed'
    BY <2>1 DEF OpenServed, Relay!NoTargets, Relay!HangUp
  <2>4. Relay!ViewsAgree'
    BY <2>1 DEF Relay!ViewsAgree, Relay!Hearers, Relay!HangUp
  <2>5. IdsTellApart'
    BY <2>1, RelayIdsKept
  <2>6. Relay!NothingSurvivesExtension'
    BY <2>1 DEF Relay!NothingSurvivesExtension, Relay!NoIds, Relay!NoTargets, Relay!commands
  <2> QED
    BY <2>1, <2>2, <2>3, <2>4, <2>5, <2>6 DEF Relay!ReplyStep, Relay!commands
<1>7. ASSUME NEW c \in Commands, Relay!HttpCommand(c)
      PROVE  Kept
  BY <1>7, RelayForward DEF Relay!HttpCommand, Relay!ReplyStep, Relay!Replies!Next
<1>8. ASSUME NEW c \in Commands, NEW k \in Clients, Relay!ForwardedCommand(c, k)
      PROVE  Kept
  BY <1>8, RelayForward DEF Relay!ForwardedCommand, Relay!ReplyStep, Relay!Replies!Next
<1>9. ASSUME NEW c \in Commands, NEW k \in Clients, Relay!ClientCommand(c, k)
      PROVE  Kept
  BY <1>9, RelayClientCommand DEF Relay!ReplyStep, Relay!Replies!Next
<1>10. ASSUME NEW i \in Relay!Ids, Relay!ExtensionAnswers(i) \/ Relay!RequestTimesOut(i)
       PROVE  Kept
  BY <1>10, RelayAnswer DEF Relay!ReplyStep, Relay!Replies!Next
<1>11. ASSUME NEW s \in Tabs, NEW t \in RelayTargets, Relay!AttachedToTarget(s, t)
       PROVE  Kept
  BY <1>11, RelayTargetEvent DEF Relay!AttachedToTarget, Relay!Attached, Relay!ReplyStep, Relay!commands
<1>12. ASSUME NEW s \in Tabs, Relay!DetachedFromTarget(s)
       PROVE  Kept
  BY <1>12, RelayTargetEvent DEF Relay!DetachedFromTarget, Relay!ReplyStep, Relay!commands
<1>13. CASE UNCHANGED Relay!vars
  <2>1. Relay!ViewsAgree' /\ OpenServed' /\ IdsTellApart'
    BY <1>13, RelayTold, RelayIdsKept DEF Relay!vars, Relay!clients
  <2> QED
    BY <1>13, <2>1 DEF Relay!vars, Relay!clients, Relay!commands, Relay!ReplyStep,
       Relay!NothingSurvivesExtension, Relay!NoIds, Relay!NoTargets
<1> HIDE DEF Kept, RelayConstants, RelayInv, Relay!TypeOK
<1>14. ASSUME Relay!Next
       PROVE  Kept
  <2>1. CASE \E k \in Clients : Relay!ClientConnects(k) \/ Relay!ClientCloses(k)
    BY <2>1, <1>5, <1>6
  <2>2. CASE \E c \in Commands : Relay!HttpCommand(c)
    BY <2>2, <1>7
  <2>3. CASE \E c \in Commands, k \in Clients : Relay!ClientCommand(c, k) \/ Relay!ForwardedCommand(c, k)
    BY <2>3, <1>8, <1>9
  <2>4. CASE \E i \in Relay!Ids : Relay!ExtensionAnswers(i) \/ Relay!RequestTimesOut(i)
    BY <2>4, <1>10
  <2>5. CASE \E s \in Tabs : Relay!DetachedFromTarget(s) \/ \E t \in RelayTargets : Relay!AttachedToTarget(s, t)
    BY <2>5, <1>11, <1>12
  <2>6. CASE Relay!ExtensionConnects \/ Relay!ExtensionLeaves \/ Relay!ExtensionCloses \/ Relay!Stop
    BY <2>6, <1>2, <1>3, <1>4
  <2> QED
    BY <1>14, <2>1, <2>2, <2>3, <2>4, <2>5, <2>6 DEF Relay!Next
<1> QED
  BY <1>13, <1>14

\* However the extension and the clients connect, leave and reconnect, nothing of
\* an extension that left survives it, and an auto-attached client has been told
\* exactly what the relay has connected.
THEOREM RelayAgrees == Spec => []RelayStateAgrees
<1> USE ServicesAssumption
<1> DEFINE Held == part = "relay" => RelayInv
<1>1. Init => Held
  BY RelayInit DEF Init
<1>2. Held /\ [Next]_vars => Held'
  BY RelayPart, RelayStep
<1>3. Held => RelayStateAgrees
  BY DEF RelayInv, RelayStateAgrees
<1> HIDE DEF Held
<1> QED
  BY <1>1, <1>2, <1>3, PTL DEF Spec

\* The relay implements CommandReplies: every command is settled at most once and
\* answered with its own result, through late, repeated and reordered answers,
\* time-outs and disconnections of both ends.
THEOREM RelayImplementsReplies == Spec => ImplementsReplies
<1> USE ServicesAssumption
<1> DEFINE Held == part = "relay" => RelayInv
           Starts == part = "relay" => Relay!Replies!Init
           Steps == part = "relay" => Relay!ReplyStep
<1>1. Init => Held /\ Starts
  BY RelayInit DEF Init, Relay!Init, Relay!Replies!Init
<1>2. Held /\ [Next]_vars => Held'
  BY RelayPart, RelayStep
<1>3. Held /\ [Next]_vars => [Steps]_vars
  BY RelayPart, RelayStep
<1> HIDE DEF Held, Starts, Steps
<1>4. Spec => Starts /\ [][Steps]_vars
  BY <1>1, <1>2, <1>3, PTL DEF Spec
<1> QED
  BY <1>4 DEF ImplementsReplies, Starts, Steps
=============================================================================
