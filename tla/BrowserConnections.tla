--------------------------- MODULE BrowserConnections ---------------------------
(***************************************************************************)
(* CDP connections to one browser endpoint: the driver                     *)
(* (adapters/playwright/playwright.browser-driver.adapter.ts) and the map  *)
(* the session service keeps over it (getBrowser).  Callers share one      *)
(* connection attempt; a worker's endpoint is disconnected when its run is *)
(* released.  Connections are numbered in the order they are made.  What   *)
(* follows a settled promise runs before any other event, so it is one     *)
(* step here; a socket that closes and its 'disconnected' event are two.   *)
(***************************************************************************)
EXTENDS Naturals, FiniteSets

CONSTANTS
  Callers, Releasers,
  MaxMade,   \* bound: connections made in a behaviour
  None

VARIABLES
  up,          \* connections that are open: isConnected()
  unheard,     \* closed connections whose 'disconnected' event is still due
  made,        \* connections made so far
  cached,      \* cachedByCdpUrl: the driver's connection, 0 for none
  known,       \* browsersByCdpUrl: the session service's connection
  attempt,     \* connectWithRetry of the promise a caller made: 1..3, 0 when settled
  stored,      \* connectingByCdpUrl: the caller whose promise is stored
  awaits,      \* the caller whose promise a caller awaits
  pc, got,     \* callers of getBrowser and the connection they got
  rc, closing, \* callers of disconnectByCdpUrl and the connection they close
  leaked       \* connections whose close failed

vars == <<up, unheard, made, cached, known, attempt, stored, awaits, pc, got, rc, closing, leaked>>

Connections == 1..MaxMade

TypeOK ==
  /\ up \subseteq Connections /\ unheard \subseteq Connections /\ up \cap unheard = {}
  /\ made \in 0..MaxMade /\ cached \in 0..MaxMade /\ known \in 0..MaxMade
  /\ attempt \in [Callers -> 0..3]
  /\ stored \in Callers \cup {None} /\ awaits \in [Callers -> Callers \cup {None}]
  /\ pc \in [Callers -> {"idle", "awaiting", "ok", "failed"}]
  /\ got \in [Callers -> 0..MaxMade]
  /\ rc \in [Releasers -> {"idle", "closing", "done"}]
  /\ closing \in [Releasers -> 0..MaxMade]
  /\ leaked \subseteq Connections

Init ==
  /\ up = {} /\ unheard = {} /\ made = 0 /\ cached = 0 /\ known = 0
  /\ attempt = [c \in Callers |-> 0] /\ stored = None /\ awaits = [c \in Callers |-> None]
  /\ pc = [c \in Callers |-> "idle"] /\ got = [c \in Callers |-> 0]
  /\ rc = [r \in Releasers |-> "idle"] /\ closing = [r \in Releasers |-> 0]
  /\ leaked = {}

\* The promise caller c awaits: the stored one, or its own.
Joined(c) == IF stored # None THEN stored ELSE c

\* getBrowser finds an open connection.
Reuse(c) ==
  /\ pc[c] = "idle" /\ {known, cached} \cap up # {}
  /\ known' = IF known \in up THEN known ELSE cached
  /\ pc' = [pc EXCEPT ![c] = "ok"] /\ got' = [got EXCEPT ![c] = known']
  /\ UNCHANGED <<up, unheard, made, cached, attempt, stored, awaits, rc, closing, leaked>>

\* getBrowser calls connect, which makes a promise or awaits the stored one.
Connect(c) ==
  /\ pc[c] = "idle" /\ {known, cached} \cap up = {}
  /\ known' = 0 /\ cached' = 0
  /\ pc' = [pc EXCEPT ![c] = "awaiting"] /\ awaits' = [awaits EXCEPT ![c] = Joined(c)]
  /\ IF Joined(c) = c THEN attempt' = [attempt EXCEPT ![c] = 1] /\ stored' = c
     ELSE UNCHANGED <<attempt, stored>>
  /\ UNCHANGED <<up, unheard, made, got, rc, closing, leaked>>

Awaiting(p) == {c \in Callers : pc[c] = "awaiting" /\ awaits[c] = p}

\* The promise of caller p settles: it is no longer stored.
Settle(p, result) ==
  /\ attempt' = [attempt EXCEPT ![p] = 0] /\ stored' = None
  /\ pc' = [c \in Callers |-> IF c \in Awaiting(p) THEN result ELSE pc[c]]

\* connectOverCDP succeeds: the connection is cached and whoever awaits it gets it.
Connected(p) ==
  /\ attempt[p] # 0 /\ made < MaxMade
  /\ made' = made + 1 /\ up' = up \cup {made + 1}
  /\ cached' = made + 1 /\ known' = made + 1
  /\ Settle(p, "ok")
  /\ got' = [c \in Callers |-> IF c \in Awaiting(p) THEN made + 1 ELSE got[c]]
  /\ UNCHANGED <<unheard, awaits, rc, closing, leaked>>

\* connectOverCDP fails: after the third attempt, who awaits the promise fails.
AttemptFails(p) ==
  /\ attempt[p] # 0
  /\ IF attempt[p] = 3 THEN Settle(p, "failed")
     ELSE attempt' = [attempt EXCEPT ![p] = @ + 1] /\ UNCHANGED <<stored, pc>>
  /\ UNCHANGED <<up, unheard, made, cached, known, awaits, got, rc, closing, leaked>>

\* The other side closes the connection.
Drops(n) ==
  /\ n \in up
  /\ up' = up \ {n} /\ unheard' = unheard \cup {n}
  /\ UNCHANGED <<made, cached, known, attempt, stored, awaits, pc, got, rc, closing, leaked>>

\* Mutant: the event of an older connection drops a newer one from the cache.
CachedAfterAny(n) == 0

\* The cache after the 'disconnected' event of connection n.
CachedAfter(n) == IF cached = n THEN 0 ELSE cached

Disconnected(n) ==
  /\ n \in unheard
  /\ unheard' = unheard \ {n} /\ cached' = CachedAfter(n)
  /\ UNCHANGED <<up, made, known, attempt, stored, awaits, pc, got, rc, closing, leaked>>

\* disconnectByCdpUrl.
Release(r) ==
  /\ rc[r] = "idle"
  /\ rc' = [rc EXCEPT ![r] = IF cached = 0 THEN "done" ELSE "closing"]
  /\ closing' = [closing EXCEPT ![r] = cached]
  /\ UNCHANGED <<up, unheard, made, cached, known, attempt, stored, awaits, pc, got, leaked>>

\* browser.close() returns: closed, or failed with the connection still open.
Closed(r) ==
  /\ rc[r] = "closing"
  /\ rc' = [rc EXCEPT ![r] = "done"]
  /\ cached' = IF cached = closing[r] THEN 0 ELSE cached
  /\ \/ /\ up' = up \ {closing[r]}
        /\ unheard' = unheard \cup ({closing[r]} \cap up) /\ UNCHANGED leaked
     \/ /\ leaked' = leaked \cup ({closing[r]} \cap up) /\ UNCHANGED <<up, unheard>>
  /\ UNCHANGED <<made, known, attempt, stored, awaits, pc, got, closing>>

Next ==
  \/ \E c \in Callers : Reuse(c) \/ Connect(c) \/ Connected(c) \/ AttemptFails(c)
  \/ \E n \in Connections : Drops(n) \/ Disconnected(n)
  \/ \E r \in Releasers : Release(r) \/ Closed(r)

Spec == Init /\ [][Next]_vars 

-----------------------------------------------------------------------------
\* Concurrent callers, drops, late 'disconnected' events and releases leave no
\* open connection that the driver has lost track of, but one whose close failed.
OpenConnectionsAreCached == up \subseteq {cached} \cup leaked

\* The stored promise is one whose attempts are under way: no caller joins a
\* promise that has failed, and every caller that waits is waited for.
StoredPromisesRun ==
  /\ stored # None => attempt[stored] # 0
  /\ \A c \in Callers : pc[c] = "awaiting" => attempt[awaits[c]] # 0
===============================================================================
