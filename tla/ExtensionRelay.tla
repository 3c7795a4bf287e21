---------------------------- MODULE ExtensionRelay ----------------------------
(***************************************************************************)
(* The Chrome extension relay (adapters/chrome/extension-relay.server.ts). *)
(*                                                                         *)
(* One extension and any number of CDP clients are connected by WebSocket. *)
(* Commands of the clients are multiplexed over the extension's socket and *)
(* matched to its answers by id; its target events are broadcast.  A step  *)
(* is the handler of one socket event or timer; the continuations of the   *)
(* promises it settles run before the next event.                          *)
(***************************************************************************)
EXTENDS Naturals

CONSTANTS
  Clients,   \* CDP clients
  Commands,  \* commands sent in a behaviour, each once
  Tabs,      \* CDP session ids the extension attaches
  Targets,   \* target ids
  MaxId,     \* bound: ids given to forwarded commands
  None

Ids == 1..MaxId

VARIABLES
  running,    \* the server accepts connections
  extension,  \* extensionWs: "none", "open", or "closing" until its close event
  socket,     \* client sockets: "none", "open", "closing" once the relay closed it
  cdpClients, \* clients that broadcasts go to
  targets,    \* connectedTargets: session -> target
  pending,    \* pendingExtension: id -> command
  nextId,     \* nextExtensionId
  sender,     \* the client each command came from
  status,     \* what its sender knows of each command
  result,     \* the command whose result was returned for it
  asked,      \* the commands the extension received under each id (external)
  view,       \* the attached sessions each open client was told of (external)
  attaching   \* open clients that asked for auto-attach

commands == <<pending, nextId, sender, status, result, asked>>
clients == <<socket, cdpClients, view, attaching>>
vars == <<running, extension, targets, commands, clients>>

\* "twice", a second answer, is not among them.
Outcomes == {"unsent", "pending", "answered", "failed", "dropped"}

TypeOK ==
  /\ running \in BOOLEAN
  /\ extension \in {"none", "open", "closing"}
  /\ socket \in [Clients -> {"none", "open", "closing"}]
  /\ cdpClients \subseteq Clients /\ attaching \subseteq Clients
  /\ targets \in [Tabs -> Targets \cup {None}]
  /\ pending \in [Ids -> Commands \cup {None}] /\ asked \in [Ids -> SUBSET Commands]
  /\ nextId \in 1..(MaxId + 1)
  /\ sender \in [Commands -> Clients \cup {None}]
  /\ status \in [Commands -> Outcomes] /\ result \in [Commands -> Commands \cup {None}]
  /\ view \in [Clients -> [Tabs -> Targets \cup {None}]]

NoTargets == [s \in Tabs |-> None]
NoIds == [i \in Ids |-> None]

Init ==
  /\ running = TRUE /\ extension = "none"
  /\ socket = [k \in Clients |-> "none"]
  /\ cdpClients = {} /\ attaching = {}
  /\ targets = NoTargets
  /\ pending = NoIds /\ asked = [i \in Ids |-> {}] /\ nextId = 1
  /\ sender = [c \in Commands |-> None]
  /\ status = [c \in Commands |-> "unsent"]
  /\ result = [c \in Commands |-> None]
  /\ view = [k \in Clients |-> NoTargets]

-----------------------------------------------------------------------------
(* Connections *)

\* The upgrade of /extension: a second extension is refused.
ExtensionConnects ==
  /\ running /\ extension = "none"
  /\ extension' = "open"
  /\ UNCHANGED <<running, targets, commands, clients>>

\* The upgrade of /cdp: without an extension it is refused.
MayConnect(k) == running /\ socket[k] = "none" /\ extension # "none"

ClientConnects(k) ==
  /\ MayConnect(k)
  /\ socket' = [socket EXCEPT ![k] = "open"]
  /\ cdpClients' = cdpClients \cup {k}
  /\ UNCHANGED <<running, extension, targets, commands, view, attaching>>

\* What the clients of ks were told no longer matters: their sockets close.
HangUp(ks) ==
  /\ view' = [k \in Clients |-> IF k \in ks THEN NoTargets ELSE view[k]]
  /\ attaching' = attaching \ ks

\* The client's close event.
ClientCloses(k) ==
  /\ socket[k] # "none"
  /\ socket' = [socket EXCEPT ![k] = "none"]
  /\ cdpClients' = cdpClients \ {k}
  /\ HangUp({k})
  /\ UNCHANGED <<running, extension, targets, commands>>

CloseClients ==
  /\ socket' = [k \in Clients |->
       IF k \in cdpClients /\ socket[k] = "open" THEN "closing" ELSE socket[k]]
  /\ HangUp(cdpClients)

\* The extension starts to close its socket; the close event comes later.
ExtensionLeaves ==
  /\ extension = "open"
  /\ extension' = "closing"
  /\ UNCHANGED <<running, targets, commands, clients>>

\* Mutant: the commands that were waiting are forgotten instead of rejected.
DropPendingSilently == UNCHANGED status

\* Every pending command is rejected.  Its client is closed in the same handler,
\* before the rejection can be sent to it.
DropPending ==
  status' = [c \in Commands |-> IF \E i \in Ids : pending[i] = c THEN "dropped" ELSE status[c]]

ForgetTargets == targets' = NoTargets

\* The extension's close event ends everything that depended on it.
ExtensionCloses ==
  /\ extension # "none"
  /\ extension' = "none"
  /\ DropPending /\ pending' = NoIds /\ asked' = [i \in Ids |-> {}]
  /\ ForgetTargets
  /\ CloseClients /\ cdpClients' = {}
  /\ UNCHANGED <<running, nextId, sender, result>>

\* stop(): all sockets are closed; their close events follow.
Stop ==
  /\ running
  /\ running' = FALSE
  /\ extension' = IF extension = "open" THEN "closing" ELSE extension
  /\ CloseClients
  /\ UNCHANGED <<targets, commands, cdpClients>>

-----------------------------------------------------------------------------
(* Commands *)

\* What command c's sender gets to know: a response is sent only on a socket that
\* is still open.
Told(c, k, outcome) ==
  IF status[c] \notin {"unsent", "pending"} THEN "twice"
  ELSE IF k = None \/ socket[k] # "open" THEN "dropped" ELSE outcome

Reply(c, k, outcome, of) ==
  /\ status' = [status EXCEPT ![c] = Told(c, k, outcome)]
  /\ result' = [result EXCEPT ![c] = IF status'[c] = "answered" THEN of ELSE @]

\* Mutant: the lowest id that is not waiting is used again.
NextIdReused ==
  LET free == {i \in Ids : pending[i] = None} IN
  nextId' = IF free = {} THEN nextId ELSE CHOOSE i \in free : \A j \in free : i <= j

\* Every command gets an id of its own, also over reconnections.
TakeId == nextId' = nextId + 1

\* sendToExtension on behalf of k, or of an HTTP caller (None), who is answered
\* without waiting.
Forward(c, k) ==
  /\ nextId \in Ids
  /\ TakeId
  /\ sender' = [sender EXCEPT ![c] = k]
  /\ IF extension = "open"
     THEN /\ pending' = [pending EXCEPT ![nextId] = c]
          /\ asked' = [asked EXCEPT ![nextId] = @ \cup {c}]
          /\ status' = [status EXCEPT ![c] = "pending"]
          /\ UNCHANGED result
     ELSE Reply(c, k, "failed", None) /\ UNCHANGED <<pending, asked>>

\* Clients whose socket is open.
Hearers == {k \in cdpClients : socket[k] = "open"}

\* Events about session s of target t are told to the clients in ks.
TellAttached(ks, s, t) ==
  view' = [k \in Clients |-> IF k \in ks THEN [view[k] EXCEPT ![s] = t] ELSE view[k]]

\* Target.setAutoAttach: the client is told of all targets, then answered; what is
\* sent on a closing socket is lost.
AutoAttach(c, k) ==
  /\ IF socket[k] = "open"
     THEN /\ view' = [view EXCEPT ![k] = [s \in Tabs |-> IF targets[s] # None THEN targets[s] ELSE @[s]]]
          /\ attaching' = attaching \cup {k}
     ELSE UNCHANGED <<view, attaching>>
  /\ Reply(c, k, "answered", c)

\* Target.attachToTarget: the client is told of one session of the target.
AttachToTarget(c, k, t) ==
  \/ /\ \A s \in Tabs : targets[s] # t
     /\ Reply(c, k, "failed", None)
     /\ UNCHANGED view
  \/ \E s \in Tabs :
       /\ targets[s] = t
       /\ TellAttached({k} \cap Hearers, s, t)
       /\ Reply(c, k, "answered", c)

\* A command of a client; a socket that the relay has closed may still deliver
\* some.  Commands about the relay itself are answered at once.
ClientCommand(c, k) ==
  /\ status[c] = "unsent" /\ socket[k] # "none"
  /\ \/ extension = "none" /\ Reply(c, k, "failed", None) /\ UNCHANGED <<view, attaching>>
     \/ extension # "none" /\ AutoAttach(c, k)
     \/ /\ extension # "none" /\ \E t \in Targets : AttachToTarget(c, k, t)
        /\ UNCHANGED attaching
  /\ sender' = [sender EXCEPT ![c] = k]
  /\ UNCHANGED <<running, extension, targets, pending, nextId, asked, socket, cdpClients>>

ForwardedCommand(c, k) ==
  /\ status[c] = "unsent" /\ socket[k] # "none" /\ extension # "none"
  /\ Forward(c, k)
  /\ UNCHANGED <<running, extension, targets, clients>>

\* GET /json/activate and /json/close.
HttpCommand(c) ==
  /\ status[c] = "unsent" /\ running
  /\ Forward(c, None)
  /\ UNCHANGED <<running, extension, targets, clients>>

\* The extension's messages are heard while its socket is open, and until its
\* close event when it is the relay that closes it.
Heard == extension = "open" \/ (extension = "closing" /\ ~running)

Unpend(i) == pending' = [pending EXCEPT ![i] = None]

\* An answer to id i, the first or another; an id that is not pending is ignored.
ExtensionAnswers(i) ==
  /\ Heard /\ pending[i] # None
  /\ Unpend(i)
  /\ LET c == pending[i] IN
       \/ \E of \in asked[i] : Reply(c, sender[c], "answered", of)
       \/ asked[i] # {} /\ Reply(c, sender[c], "failed", None)
  /\ UNCHANGED <<running, extension, targets, nextId, sender, asked, clients>>

\* The extension has not answered for 30 seconds.
RequestTimesOut(i) ==
  /\ pending[i] # None
  /\ Unpend(i)
  /\ Reply(pending[i], sender[pending[i]], "failed", None)
  /\ UNCHANGED <<running, extension, targets, nextId, sender, asked, clients>>

-----------------------------------------------------------------------------
(* Target events *)

\* Mutant: only a new session is broadcast.
AttachedNewOnly(s, t) ==
  IF targets[s] = None THEN TellAttached(Hearers, s, t) ELSE UNCHANGED view

\* A new session, or one that now shows another target, is broadcast.
Attached(s, t) == IF targets[s] # t THEN TellAttached(Hearers, s, t) ELSE UNCHANGED view

AttachedToTarget(s, t) ==
  /\ Heard
  /\ targets' = [targets EXCEPT ![s] = t]
  /\ Attached(s, t)
  /\ UNCHANGED <<running, extension, commands, socket, cdpClients, attaching>>

DetachedFromTarget(s) ==
  /\ Heard /\ targets[s] # None
  /\ targets' = [targets EXCEPT ![s] = None]
  /\ TellAttached(Hearers, s, None)
  /\ UNCHANGED <<running, extension, commands, socket, cdpClients, attaching>>

-----------------------------------------------------------------------------
Next ==
  \/ ExtensionConnects \/ ExtensionLeaves \/ ExtensionCloses \/ Stop
  \/ \E k \in Clients : ClientConnects(k) \/ ClientCloses(k)
  \/ \E c \in Commands : HttpCommand(c)
  \/ \E c \in Commands, k \in Clients : ClientCommand(c, k) \/ ForwardedCommand(c, k)
  \/ \E i \in Ids : ExtensionAnswers(i) \/ RequestTimesOut(i)
  \/ \E s \in Tabs : DetachedFromTarget(s) \/ \E t \in Targets : AttachedToTarget(s, t)

\* Timers fire.
Fairness == \A i \in Ids : WF_vars(RequestTimesOut(i))

Spec == Init /\ [][Next]_vars /\ Fairness

-----------------------------------------------------------------------------
(* Properties *)

\* Without an extension nothing of it is left: no command waits for it, none of
\* its targets is listed, and no client is served.
NothingSurvivesExtension ==
  extension = "none" => pending = NoIds /\ targets = NoTargets /\ cdpClients = {}

\* What an auto-attached client was told, event by event, is what the relay has
\* connected: replayed targets, broadcasts and reattachments fit together.
ViewsAgree ==
  \A k \in Hearers :
    /\ \A s \in Tabs : view[k][s] \in {None, targets[s]}
    /\ k \in attaching => view[k] = targets

\* Each command is settled once, and answered with its own result, although
\* answers come late, twice and out of order and both ends disconnect.
Replies == INSTANCE CommandReplies
ReplyStep == [Replies!Next]_<<status, result>>

\* A command that waits for the extension.
Waiting(c) == status[c] = "pending"
===============================================================================
