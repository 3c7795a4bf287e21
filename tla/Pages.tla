--------------------------------- MODULE Pages ---------------------------------
(***************************************************************************)
(* The modules of the page side, composed.  They share no state, so a      *)
(* behaviour belongs to one of them, named by "part"; the variables of the *)
(* others are None.  Variables with the same name in several modules are   *)
(* declared once.                                                          *)
(***************************************************************************)
EXTENDS Naturals, Sequences, FiniteSets

CONSTANTS
  Requests, None,
  MaxUrls,                                                        \* PageHooks
  SessionRequests, Targets, MaxConnections, MaxSnapshots, MaxCache,  \* PageSessions
  Options, MaxBlockers,                                           \* PageActions
  Fields, FieldKinds,                                             \* FormFill
  Usable, MaxElements, MaxReported,                               \* DomObserver
  MaxSent, MaxMessages, MaxRequests, MaxConsole,                  \* PageActivity
  MaxRefs                                                         \* Screenshots

VARIABLES
  part,
  pc, open, seen,
  form, urls, disk, wants, armOf, download, started, pending, armId, session, exited,
  live, made, sess, pageRefs, cache, cacheRefs, store, snaps, op, tgt, held, refs,
  action, blocker, shown, saw, tried, limit, calls, events, closed,
  kind, by, value, focus, at, results,
  observer, added, appeared, text, round, since, alone, options,
  outcome, nextId, records, said, console,
  body, left, boxes, skipped, overlay, shot, crossed, call

Hooks == INSTANCE PageHooks
Sessions == INSTANCE PageSessions WITH Requests <- SessionRequests
Actions == INSTANCE PageActions
Fill == INSTANCE FormFill WITH Kinds <- FieldKinds
Dom == INSTANCE DomObserver
Activity == INSTANCE PageActivity
Shots == INSTANCE Screenshots

\* What the code and its configuration give of the constants: bounds are numbers,
\* the limits of lists are positive, and a form has fields.
HooksConstants == IsFiniteSet(Requests) /\ MaxUrls \in Nat
SessionsConstants == MaxConnections \in Nat /\ MaxSnapshots \in Nat /\ MaxCache \in Nat
ActionsConstants == MaxBlockers \in Nat
FillConstants == Fields \in Seq(Fill!Names) /\ Fields # <<>>
DomConstants == MaxElements \in Nat /\ MaxReported \in Nat /\ Usable \subseteq 1..MaxElements
ActivityConstants ==
  MaxSent \in Nat \ {0} /\ MaxMessages \in Nat /\ MaxRequests \in Nat \ {0} /\ MaxConsole \in Nat \ {0}
ShotsConstants == MaxRefs \in Nat

ASSUME PagesAssumption ==
  /\ HooksConstants /\ SessionsConstants /\ ActionsConstants /\ FillConstants
  /\ DomConstants /\ ActivityConstants /\ ShotsConstants

\* The variables that only one of them has.
OfHooks == <<form, urls, disk, wants, armOf, download, started, pending, armId, session, exited>>
OfSessions == <<live, made, sess, pageRefs, cache, cacheRefs, store, snaps, op, tgt, held, refs>>
OfActions == <<action, blocker, shown, saw, tried, limit, calls, events, closed>>
OfFill == <<kind, by, value, focus, at, results>>
OfDom == <<observer, added, appeared, text, round, since, alone, options>>
OfActivity == <<outcome, nextId, records, said, console>>
OfShots == <<body, left, boxes, skipped, overlay, shot, crossed, call>>

vars == <<part, pc, open, seen, OfHooks, OfSessions, OfActions, OfFill, OfDom, OfActivity, OfShots>>

Unused(x) == x = None

Init ==
  /\ \/ part = "hooks" /\ Hooks!Init
     \/ part = "sessions" /\ Sessions!Init
     \/ part = "actions" /\ Actions!Init
     \/ part = "fill" /\ Fill!Init
     \/ part = "dom" /\ Dom!Init
     \/ part = "activity" /\ Activity!Init
     \/ part = "shots" /\ Shots!Init
  /\ part = "activity" => Unused(pc)
  /\ part \notin {"hooks", "sessions"} => Unused(open)
  /\ part \notin {"sessions", "activity"} => Unused(seen)
  /\ part # "hooks" =>
       /\ Unused(form) /\ Unused(urls) /\ Unused(disk) /\ Unused(wants) /\ Unused(armOf)
       /\ Unused(download) /\ Unused(started) /\ Unused(pending) /\ Unused(armId)
       /\ Unused(session) /\ Unused(exited)
  /\ part # "sessions" =>
       /\ Unused(live) /\ Unused(made) /\ Unused(sess) /\ Unused(pageRefs) /\ Unused(cache)
       /\ Unused(cacheRefs) /\ Unused(store) /\ Unused(snaps) /\ Unused(op) /\ Unused(tgt)
       /\ Unused(held) /\ Unused(refs)
  /\ part # "actions" =>
       /\ Unused(action) /\ Unused(blocker) /\ Unused(shown) /\ Unused(saw) /\ Unused(tried)
       /\ Unused(limit) /\ Unused(calls) /\ Unused(events) /\ Unused(closed)
  /\ part # "fill" =>
       /\ Unused(kind) /\ Unused(by) /\ Unused(value) /\ Unused(focus) /\ Unused(at) /\ Unused(results)
  /\ part # "dom" =>
       /\ Unused(observer) /\ Unused(added) /\ Unused(appeared) /\ Unused(text)
       /\ Unused(round) /\ Unused(since) /\ Unused(alone) /\ Unused(options)
  /\ part # "activity" =>
       /\ Unused(outcome) /\ Unused(nextId) /\ Unused(records) /\ Unused(said) /\ Unused(console)
  /\ part # "shots" =>
       /\ Unused(body) /\ Unused(left) /\ Unused(boxes) /\ Unused(skipped)
       /\ Unused(overlay) /\ Unused(shot) /\ Unused(crossed) /\ Unused(call)

Rest ==
  /\ UNCHANGED part
  /\ part = "activity" => UNCHANGED pc
  /\ part \notin {"hooks", "sessions"} => UNCHANGED open
  /\ part \notin {"sessions", "activity"} => UNCHANGED seen
  /\ part # "hooks" => UNCHANGED OfHooks
  /\ part # "sessions" => UNCHANGED OfSessions
  /\ part # "actions" => UNCHANGED OfActions
  /\ part # "fill" => UNCHANGED OfFill
  /\ part # "dom" => UNCHANGED OfDom
  /\ part # "activity" => UNCHANGED OfActivity
  /\ part # "shots" => UNCHANGED OfShots

Next ==
  \/ part = "hooks" /\ Hooks!Next /\ Rest
  \/ part = "sessions" /\ Sessions!Next /\ Rest
  \/ part = "actions" /\ Actions!Next /\ Rest
  \/ part = "fill" /\ Fill!Next /\ Rest
  \/ part = "dom" /\ Dom!Next /\ Rest
  \/ part = "activity" /\ Activity!Next /\ Rest
  \/ part = "shots" /\ Shots!Next /\ Rest

\* The fairness of PageHooks.
Fairness ==
  \A r \in Requests :
    /\ WF_vars(part = "hooks" /\ Hooks!Arm(r) /\ Rest)
    /\ WF_vars(part = "hooks" /\ Hooks!Limited(r) /\ Rest)
    /\ WF_vars(part = "hooks" /\ Hooks!TimesOut(r) /\ Rest)

Spec == Init /\ [][Next]_vars /\ Fairness

-----------------------------------------------------------------------------
\* Each module's state is well typed: its requests, tables and counters stay in
\* their ranges, caches and lists within their limits.
TypeOK ==
  /\ part = "hooks" => Hooks!TypeOK
  /\ part = "sessions" => Sessions!TypeOK
  /\ part = "actions" => Actions!TypeOK
  /\ part = "fill" => Fill!TypeOK
  /\ part = "dom" => Dom!TypeOK
  /\ part = "activity" => Activity!TypeOK
  /\ part = "shots" => Shots!TypeOK

\* PageHooks: of the handlers that listen for one kind of event at most one acts;
\* a download is taken by the newest waiter of its time, and by no other besides.
NewestHandlerActs ==
  /\ [](part = "hooks" => Hooks!OneHandlerActs /\ Hooks!TakenOnce)
  /\ [][part = "hooks" => Hooks!NewestTakes]_vars

\* PageHooks: every request whose files are staged is answered, unless it comes to
\* wait for what nothing limits: the saving of a download, or a click whose caller
\* took its limit off.
RequestsAnswered ==
  \A r \in Requests :
    (part = "hooks" /\ Hooks!Staged(r))
      ~> (part = "hooks" /\ (Hooks!Settled(r) \/ Hooks!Unlimited(r)))

\* PageSessions: an action that began after a snapshot finds the refs, and the
\* cache of refs never holds other refs than the store.
RefsStayFound ==
  part = "sessions" => Sessions!ActionsFindRefs /\ Sessions!CacheAgreesWithStore

\* PageActions: clicks and typing act only on a target found free, and a blocked
\* target is given up untouched.
BlockersRespected ==
  part = "actions" => Actions!ActsOnFreeTarget /\ Actions!GivesUpUntouched

\* FormFill: a fill that is answered reports on every field, and reports a field
\* as matched only while it holds the value.
FillsReportTruly ==
  /\ [](part = "fill" => Fill!EveryFieldReported)
  /\ [][part = "fill" => Fill!ReportsHeldFields]_vars

\* DomObserver: options appeared after the last observation began, and an
\* undisturbed discovery misses nothing it may report.
DiscoveriesReportNew ==
  /\ [](part = "dom" => Dom!OptionsAreNew)
  /\ [][part = "dom" => Dom!ReportsWhatAppeared]_vars

\* PageActivity: a record tells how its own request ended, and exactly the newest
\* requests and console messages are kept.
EventsRecorded ==
  part = "activity" => Activity!RecordsTellTheirRequest /\ Activity!NewestMessagesKept

\* Screenshots: no labels are left on an idle page, a request alone on the page
\* pictures its own, every ref is accounted for and an accepted quality is used.
PicturesAsAsked ==
  part = "shots" =>
    /\ Shots!PageLeftClean /\ Shots!PictureHoldsOwnLabels
    /\ Shots!RefsAccounted /\ Shots!AskedQualityUsed
===============================================================================
