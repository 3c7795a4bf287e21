---------------------------- MODULE ControlLive ----------------------------
(***************************************************************************)
(* The WebSocket /control/live: one controller per run, frames pushed on   *)
(* a timer, and inputs that act on the run's page                          *)
(* (adapters/http/control-live.server.ts).                                 *)
(*                                                                         *)
(* A frame and an input are jobs of their socket.  Each asks the browser   *)
(* context for a tab, awaits its page, and acts; jobs of one socket        *)
(* interleave at those awaits, and an init message changes the socket's    *)
(* target under them.  A socket name is used again once its jobs ended.    *)
(*                                                                         *)
(* Whether the browser context grants a tab is not decided here: it        *)
(* refuses one that another run owns, and what the owners are is up to     *)
(* other requests, which take free targets and delete entries when they    *)
(* close (RunSessions).  So a job may be granted any tab, or none.         *)
(***************************************************************************)
EXTENDS Naturals, FiniteSets

CONSTANTS Sockets, Jobs, Runs, Targets, NoRun, NoTarget

VARIABLES
  conn,        \* readyState of each socket: "closed", "open", "closing"
  claim,       \* the run its token names, or NoRun
  active,      \* activeByRunId
  target,      \* the socket's targetId
  frameBusy,   \* the socket's frameBusy
  jobs         \* the frames and inputs in flight

vars == <<conn, claim, active, target, frameBusy, jobs>>

Idle == [at |-> "idle"]
Job ==   \* the tab it asks for and is granted, and the page it has got
  [at : {"tab", "page", "acting"}, kind : {"frame", "input"}, socket : Sockets, tab : Targets,
   page : Targets \union {NoTarget}]
Asks(k, s, x) == [at |-> "tab", kind |-> k, socket |-> s, tab |-> x, page |-> NoTarget]

TypeOK ==
  /\ conn \in [Sockets -> {"closed", "open", "closing"}]
  /\ claim \in [Sockets -> Runs \union {NoRun}]
  /\ active \in [Runs -> {"none"} \union Sockets]
  /\ \A r \in Runs : active[r] \in Sockets => conn[active[r]] # "closed" /\ claim[active[r]] = r
  /\ target \in [Sockets -> Targets \union {NoTarget}]
  /\ frameBusy \in [Sockets -> BOOLEAN]
  /\ jobs \in [Jobs -> Job \union {Idle}]

Init ==
  /\ conn = [s \in Sockets |-> "closed"]
  /\ claim = [s \in Sockets |-> NoRun]
  /\ active = [r \in Runs |-> "none"]
  /\ target = [s \in Sockets |-> NoTarget]
  /\ frameBusy = [s \in Sockets |-> FALSE]
  /\ jobs = [j \in Jobs |-> Idle]

JobsOf(s) == {j \in Jobs : jobs[j] # Idle /\ jobs[j].socket = s}

\* resolvePage starts from the socket's target, or the active one of the run's
\* session, which may be any; a token that names no run has no session.
Wanted(r, t) == IF t # NoTarget THEN {t} ELSE IF r = NoRun THEN {} ELSE Targets

\* pushFrame of socket s for run r and target t, in job j. When there is no
\* active target either, it answers with an error and the frame is over.
PushFrame(j, s, r, t) ==
  \/ /\ t = NoTarget
     /\ UNCHANGED <<jobs, frameBusy>>
  \/ \E x \in Wanted(r, t) :
       /\ jobs' = [jobs EXCEPT ![j] = Asks("frame", s, x)]
       /\ frameBusy' = [frameBusy EXCEPT ![s] = TRUE]

\* The controllers an upgrade for run r replaces.
Replaced(r) == {s \in Sockets : r # NoRun /\ active[r] = s /\ conn[s] = "open"}

\* A verified upgrade: the first frame starts, the run's earlier controller is
\* closed, and the socket becomes the run's controller.
Upgrade(s, r, t, j) ==
  /\ conn[s] = "closed" /\ JobsOf(s) = {} /\ jobs[j] = Idle
  /\ conn' = [x \in Sockets |-> IF x = s THEN "open"
                                ELSE IF x \in Replaced(r) THEN "closing" ELSE conn[x]]
  /\ claim' = [claim EXCEPT ![s] = r]
  /\ target' = [target EXCEPT ![s] = t]
  /\ active' = IF r = NoRun THEN active ELSE [active EXCEPT ![r] = s]
  /\ PushFrame(j, s, r, t)

\* The interval: a frame is skipped while the last one is in flight.
MayPush(s) == ~frameBusy[s] /\ conn[s] = "open"
FrameTick(s, j) ==
  /\ MayPush(s) /\ jobs[j] = Idle
  /\ PushFrame(j, s, claim[s], target[s])
  /\ UNCHANGED <<conn, claim, active, target>>

\* A message: init may change the target, the others act on the page. A
\* socket that is closing still delivers what its client had sent.
Message(s, j, t) ==
  /\ conn[s] # "closed" /\ jobs[j] = Idle
  /\ target' = [target EXCEPT ![s] = IF t # NoTarget THEN t ELSE target[s]]
  /\ \E x \in Wanted(claim[s], target'[s]) :
       jobs' = [jobs EXCEPT ![j] = Asks("input", s, x)]
  /\ UNCHANGED <<conn, claim, active, frameBusy>>

\* ensureTabAvailable grants the tab, which no other run owned when it looked, to
\* a socket with a run; that tab is now the socket's target, whatever an init has
\* made of it meanwhile. A refusal is a JobEnds.
TabGranted(j) ==
  /\ jobs[j] # Idle /\ jobs[j].at = "tab" /\ claim[jobs[j].socket] # NoRun
  /\ target' = [target EXCEPT ![jobs[j].socket] = jobs[j].tab]
  /\ jobs' = [jobs EXCEPT ![j].at = "page"]
  /\ UNCHANGED <<conn, claim, active, frameBusy>>

\* Mutant: the socket's target read again after the await.
PageOfNow(j) == IF target[jobs[j].socket] = NoTarget THEN jobs[j].tab ELSE target[jobs[j].socket]

\* The page of the tab that was granted, whatever the socket's target is now.
PageOf(j) == jobs[j].tab
PageFound(j) ==
  /\ jobs[j] # Idle /\ jobs[j].at = "page"
  /\ jobs' = [jobs EXCEPT ![j].at = "acting", ![j].page = PageOf(j)]
  /\ UNCHANGED <<conn, claim, active, target, frameBusy>>

\* The frames a job that ends gives way to: only a frame's own end does.
Freed(j) == IF jobs[j].kind = "frame" THEN {jobs[j].socket} ELSE {}

\* The screenshot or the input is done, or any step of the job failed: the tab is
\* refused, since another run owned it when it was looked up, or its page is gone.
JobEnds(j) ==
  /\ jobs[j] # Idle
  /\ jobs' = [jobs EXCEPT ![j] = Idle]
  /\ frameBusy' = [s \in Sockets |-> frameBusy[s] /\ s \notin Freed(j)]
  /\ UNCHANGED <<conn, claim, active, target>>

\* The client goes away: the closing handshake starts.
ClientLeaves(s) ==
  /\ conn[s] = "open"
  /\ conn' = [conn EXCEPT ![s] = "closing"]
  /\ UNCHANGED <<claim, active, target, frameBusy, jobs>>

\* The runs whose controller entry a closed socket removes: only its own.
Deregistered(s) == {r \in Runs : claim[s] = r /\ active[r] = s}

\* The close event: the interval ends; jobs in flight go on.
Closed(s) ==
  /\ conn[s] = "closing"
  /\ conn' = [conn EXCEPT ![s] = "closed"]
  /\ active' = [r \in Runs |-> IF r \in Deregistered(s) THEN "none" ELSE active[r]]
  /\ UNCHANGED <<claim, target, frameBusy, jobs>>

Next ==
  \/ \E s \in Sockets, j \in Jobs, t \in Targets \union {NoTarget} :
       Message(s, j, t) \/ \E r \in Runs \union {NoRun} : Upgrade(s, r, t, j)
  \/ \E s \in Sockets : ClientLeaves(s) \/ Closed(s) \/ \E j \in Jobs : FrameTick(s, j)
  \/ \E j \in Jobs : TabGranted(j) \/ PageFound(j) \/ JobEnds(j)

Spec == Init /\ [][Next]_vars

-----------------------------------------------------------------------------
\* A run has at most one open controller, also when a replaced controller's
\* close event arrives after its successor was registered.
OneController ==
  \A s1, s2 \in Sockets :
    conn[s1] = "open" /\ conn[s2] = "open" /\ claim[s1] = claim[s2] /\ claim[s1] # NoRun => s1 = s2

\* Whatever targets the client names while jobs are in flight, a frame or an
\* input acts only for a run, on the page of the tab that the browser context
\* has granted to it, and not on the one the socket has turned to since.
ActsOnGrantedPage ==
  \A j \in Jobs : jobs[j] # Idle /\ jobs[j].at = "acting" =>
    claim[jobs[j].socket] # NoRun /\ jobs[j].page = jobs[j].tab

\* The frames of a socket do not overlap, whatever its inputs do meanwhile.
FramesOneAtATime ==
  \A s \in Sockets : Cardinality({j \in JobsOf(s) : jobs[j].kind = "frame"}) <= 1

============================================================================
