------------------------------ MODULE PageSessions ------------------------------
(***************************************************************************)
(* The session service (core/services/session.service.ts) behind one       *)
(* browser endpoint: page sessions by target, the element refs of the last *)
(* snapshot kept in four places (session entity, bounded cache, store and  *)
(* page state), and the requests that use them: snapshots and actions      *)
(* (core/use-cases), queries, hooks and closes (api/controllers).          *)
(* A page object belongs to the connection it was found on.  Refs are the  *)
(* number of their snapshot, 0 for none; they are always stored in mode    *)
(* 'aria', so a page state has a mode exactly when it has refs.            *)
(***************************************************************************)
EXTENDS Naturals, SequencesExt

CONSTANTS
  Targets, Requests,
  MaxConnections,   \* bound: CDP connections made in a behaviour
  MaxSnapshots,     \* bound: snapshots taken
  MaxCache          \* MAX_ROLE_REFS_CACHE

Ops == {"snapshot", "action", "click", "query", "hook", "close"}
Connections == 1..MaxConnections

VARIABLES
  live,       \* the connection in use, 0 when it has dropped
  made,       \* connections made so far
  open,       \* targets whose page is open
  sess,       \* sessions: the connection of the page object (0: no session), the entity's refs
  pageRefs,   \* pageStates: roleRefs of each page object
  cache,      \* roleRefsByTarget, oldest key first
  cacheRefs,  \* its values
  store,      \* roleRefs of the session store
  snaps,      \* snapshots taken
  pc, op, tgt,
  held,       \* the connection of the page object a request works on
  refs,       \* the refs an action read from the session
  seen        \* the stored refs when a request had its page

refvars == <<pageRefs, cache, cacheRefs, store, snaps>>
vars == <<live, made, open, sess, refvars, pc, op, tgt, held, refs, seen>>

Refs == 0..MaxSnapshots
NoSession == [conn |-> 0, refs |-> 0]

TypeOK ==
  /\ live \in 0..MaxConnections /\ made \in 0..MaxConnections /\ open \subseteq Targets
  /\ sess \in [Targets -> [conn : 0..MaxConnections, refs : Refs]]
  /\ pageRefs \in [Targets \X Connections -> Refs]
  /\ IsInjective(cache) /\ Len(cache) <= MaxCache /\ ToSet(cache) \subseteq Targets
  /\ cacheRefs \in [Targets -> Refs] /\ store \in [Targets -> Refs] /\ snaps \in Refs
  /\ pc \in [Requests -> {"idle", "paging", "capturing", "acting", "closing", "ok", "error", "unknown"}]
  /\ op \in [Requests -> Ops] /\ tgt \in [Requests -> Targets]
  /\ held \in [Requests -> 0..MaxConnections]
  /\ refs \in [Requests -> Refs] /\ seen \in [Requests -> Refs]

Init ==
  /\ live = 0 /\ made = 0 /\ open = Targets
  /\ sess = [t \in Targets |-> NoSession]
  /\ pageRefs = [p \in Targets \X Connections |-> 0]
  /\ cache = <<>> /\ cacheRefs = [t \in Targets |-> 0]
  /\ store = [t \in Targets |-> 0] /\ snaps = 0
  /\ pc = [r \in Requests |-> "idle"]
  /\ op \in [Requests -> Ops] /\ tgt \in [Requests -> Targets]
  /\ held = [r \in Requests |-> 0]
  /\ refs = [r \in Requests |-> 0] /\ seen = [r \in Requests |-> 0]

Become(r, state) == pc' = [pc EXCEPT ![r] = state]

\* A request for an open target: getSession looks the session up.
Begin(r) ==
  /\ pc[r] = "idle"
  /\ IF op[r] = "close" THEN Become(r, "closing") /\ UNCHANGED held
     ELSE IF tgt[r] \in open
     THEN Become(r, "paging") /\ held' = [held EXCEPT ![r] = sess[tgt[r]].conn]
     ELSE Become(r, "error") /\ UNCHANGED held
  /\ UNCHANGED <<live, made, open, sess, refvars, op, tgt, refs, seen>>

\* resolveRefLocator of an 'e' ref once the session is there.
Resolves(t, state) == sess[t].conn # 0 /\ state[<<t, sess[t].conn>>] # 0

\* Mutant: a target whose refs left the cache is not looked up in the store.
PageRefsFromCache(t, c) ==
  IF t \in ToSet(cache) /\ cacheRefs[t] # 0
  THEN [pageRefs EXCEPT ![<<t, c>>] = IF @ = 0 THEN cacheRefs[t] ELSE @]
  ELSE pageRefs

\* restoreRoleRefs on the page object of connection c: the cache fills a page
\* state that has no refs, the store replaces them.
PageRefsRestored(t, c) ==
  IF t \in ToSet(cache) /\ cacheRefs[t] # 0
  THEN [pageRefs EXCEPT ![<<t, c>>] = IF @ = 0 THEN cacheRefs[t] ELSE @]
  ELSE IF store[t] # 0 THEN [pageRefs EXCEPT ![<<t, c>>] = store[t]]
  ELSE pageRefs

\* The refs the session entity holds after a restore.
EntityRefs(t, found) ==
  IF t \in ToSet(cache) /\ cacheRefs[t] # 0 THEN found.refs
  ELSE IF store[t] # 0 THEN store[t] ELSE found.refs

\* What follows getPage: found is the session, on the page of connection c.
Proceed(r, found, c) ==
  LET t == tgt[r]
      restored == PageRefsRestored(t, c)
  IN
  CASE op[r] = "snapshot" ->
         /\ Become(r, "capturing") /\ sess' = [sess EXCEPT ![t] = found]
         /\ UNCHANGED <<pageRefs, refs>>
    [] op[r] = "hook" ->
         /\ Become(r, IF pageRefs[<<t, c>>] # 0 THEN "ok" ELSE "unknown")
         /\ sess' = [sess EXCEPT ![t] = found] /\ UNCHANGED <<pageRefs, refs>>
    [] op[r] = "query" ->
         /\ Become(r, IF restored[<<t, c>>] # 0 THEN "ok" ELSE "unknown")
         /\ pageRefs' = restored
         /\ sess' = [sess EXCEPT ![t] = [found EXCEPT !.refs = EntityRefs(t, found)]]
         /\ UNCHANGED refs
    [] OTHER ->
         /\ Become(r, "acting") /\ pageRefs' = restored
         /\ sess' = [sess EXCEPT ![t] = [found EXCEPT !.refs = EntityRefs(t, found)]]
         /\ refs' = [refs EXCEPT ![r] = EntityRefs(t, found)]

\* getBrowser and getPage: a request that saw no session makes one, whoever made
\* one meanwhile; it connects again when the connection has dropped.
PageFound(r) ==
  LET t == tgt[r] IN
  /\ pc[r] = "paging"
  /\ IF held[r] # 0
     THEN /\ IF sess[t].conn = 0 THEN Become(r, "error") /\ UNCHANGED <<sess, pageRefs, refs>>
             ELSE Proceed(r, sess[t], sess[t].conn)
          /\ held' = [held EXCEPT ![r] = sess[t].conn]
          /\ UNCHANGED <<live, made>>
     ELSE IF t \notin open
     THEN Become(r, "error") /\ UNCHANGED <<sess, pageRefs, refs, held, live, made>>
     ELSE LET c == IF live # 0 THEN live ELSE made + 1 IN
          /\ c \in Connections
          /\ live' = c /\ made' = IF c > made THEN c ELSE made
          /\ held' = [held EXCEPT ![r] = c]
          /\ Proceed(r, [conn |-> c, refs |-> 0], c)
  /\ seen' = [seen EXCEPT ![r] = store[t]]
  /\ UNCHANGED <<open, cache, cacheRefs, store, snaps, op, tgt>>

\* Mutant: a new key is added to a full cache.
RememberedAll(t) == IF t \in ToSet(cache) THEN cache ELSE Append(cache, t)

\* The cache with t remembered, the oldest key evicted when it is full.
Remembered(t) ==
  LET all == IF t \in ToSet(cache) THEN cache ELSE Append(cache, t) IN
  IF Len(all) > MaxCache THEN Tail(all) ELSE all

\* The store after storeRoleRefs.
Stored(t, n) == [store EXCEPT ![t] = n]

\* storeRoleRefs; without an endpoint it fails when the session is gone.
StoreRoleRefs(r, n) ==
  LET t == tgt[r] IN
  IF sess[t].conn = 0 THEN Become(r, "error") /\ UNCHANGED <<sess, cache, cacheRefs, store>>
  ELSE /\ Become(r, "ok")
       /\ sess' = [sess EXCEPT ![t].refs = n]
       /\ cache' = Remembered(t) /\ cacheRefs' = [cacheRefs EXCEPT ![t] = n]
       /\ store' = Stored(t, n)

\* The page object a request holds still answers.
PageAnswers(r) == held[r] = live /\ tgt[r] \in open

\* captureSnapshot returns.
CaptureReturns(r) ==
  /\ pc[r] = "capturing"
  /\ \/ /\ PageAnswers(r) /\ snaps < MaxSnapshots
        /\ snaps' = snaps + 1 /\ StoreRoleRefs(r, snaps + 1)
     \/ Become(r, "error") /\ UNCHANGED <<sess, cache, cacheRefs, store, snaps>>
  /\ UNCHANGED <<live, made, open, pageRefs, op, tgt, held, refs, seen>>

\* executeAction returns; other actions than clicks store the refs they read again.
ActReturns(r) ==
  /\ pc[r] = "acting"
  /\ \/ /\ PageAnswers(r) /\ Resolves(tgt[r], pageRefs)
        /\ IF op[r] = "action" /\ refs[r] # 0 THEN StoreRoleRefs(r, refs[r])
           ELSE Become(r, "ok") /\ UNCHANGED <<sess, cache, cacheRefs, store>>
     \/ Become(r, "error") /\ UNCHANGED <<sess, cache, cacheRefs, store>>
  /\ UNCHANGED <<live, made, open, pageRefs, snaps, op, tgt, held, refs, seen>>

\* The cache without the key t.
Forgotten(t) ==
  IF t \in ToSet(cache) THEN RemoveAt(cache, CHOOSE i \in DOMAIN cache : cache[i] = t) ELSE cache

\* forgetSession, when the run's page has been closed.
ForgetSession(r) ==
  LET t == tgt[r] IN
  /\ pc[r] = "closing" /\ t \notin open
  /\ Become(r, "ok")
  /\ IF sess[t].conn = 0 THEN UNCHANGED <<sess, pageRefs, cache>>
     ELSE /\ sess' = [sess EXCEPT ![t] = NoSession]
          /\ pageRefs' = [pageRefs EXCEPT ![<<t, sess[t].conn>>] = 0]
          /\ cache' = Forgotten(t)
  /\ UNCHANGED <<live, made, open, cacheRefs, store, snaps, op, tgt, held, refs, seen>>

\* closeRunSession closes the page.
PageCloses(r) ==
  /\ pc[r] = "closing" /\ tgt[r] \in open
  /\ open' = open \ {tgt[r]}
  /\ UNCHANGED <<live, made, sess, refvars, pc, op, tgt, held, refs, seen>>

\* The connection drops; the browser and its pages live on.
ConnectionDrops ==
  /\ live # 0 /\ live' = 0
  /\ UNCHANGED <<made, open, sess, refvars, pc, op, tgt, held, refs, seen>>

Next ==
  \/ \E r \in Requests :
       \/ Begin(r) \/ PageFound(r) \/ CaptureReturns(r) \/ ActReturns(r)
       \/ PageCloses(r) \/ ForgetSession(r)
  \/ ConnectionDrops

Spec == Init /\ [][Next]_vars

-----------------------------------------------------------------------------
\* An action that began after a snapshot of its page finds the refs, although
\* the cache may have evicted the target, other requests may have replaced or
\* forgotten the session and older refs may be stored meanwhile.
ActionsFindRefs ==
  \A r \in Requests :
    pc[r] = "acting" /\ seen[r] # 0 /\ sess[tgt[r]].conn = held[r] => Resolves(tgt[r], pageRefs)

\* The cache never holds other refs than the store, which answers once a target
\* is evicted.
CacheAgreesWithStore == \A t \in ToSet(cache) : cacheRefs[t] = store[t]

===============================================================================
