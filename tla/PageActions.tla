------------------------------- MODULE PageActions -------------------------------
(***************************************************************************)
(* The execution of a page action: ExecuteActionUseCase                    *)
(* (core/use-cases/execute-action.use-case.ts) with the interaction        *)
(* service that turns an action into calls on the page, and the detection  *)
(* and dismissal of blocking elements (core/services/discovery.service.ts) *)
(* that clicks and typing go through first.  The page may show or lose a   *)
(* blocker at any time.  Fills are in FormFill, refs in PageSessions.      *)
(***************************************************************************)
EXTENDS Naturals, SequencesExt

CONSTANTS
  Requests,
  Options,      \* the sets of options that requests use
  MaxBlockers   \* bound: blockers a page shows

\* The actions, with the options that change what is called.
Actions ==
  [kind : {"click"}, opts : Options \cap SUBSET {"doubleClick"}]
  \cup [kind : {"type"}, opts : Options \cap SUBSET {"clear", "slowly", "submit"}]
  \cup [kind : {"wait"}, opts : Options \cap SUBSET {"timeMs", "text", "url"}]
  \cup [kind : {"drag", "close"}, opts : {{}}]

\* What may cover the target: with a close button, a dialog, or neither.
Blockers == {"closable", "dialog", "other"}
Strategies == <<"click_close", "press_escape", "click_outside">>

VARIABLES
  action,   \* the action of each request
  blocker,  \* what covers the page's elements, or "none"
  shown,    \* blockers shown so far
  pc,
  saw,      \* what the last detection of a request found
  tried,    \* the strategies a dismissal has tried
  limit,    \* how many it may try
  calls,    \* the calls a request has made on the page
  events,   \* the events it has published
  closed    \* the page has been closed

vars == <<action, blocker, shown, pc, saw, tried, limit, calls, events, closed>>

TypeOK ==
  /\ action \in [Requests -> Actions]
  /\ blocker \in Blockers \cup {"none"} /\ shown \in 0..MaxBlockers
  /\ pc \in [Requests -> {"idle", "detecting", "dismissing", "checking", "acting", "ok", "error"}]
  /\ saw \in [Requests -> Blockers \cup {"none"}]
  /\ tried \in [Requests -> 0..3] /\ limit \in [Requests -> {1, 3}]
  /\ closed \in BOOLEAN

Init ==
  /\ action \in [Requests -> Actions]
  /\ blocker \in Blockers \cup {"none"} /\ shown = 0 /\ closed = FALSE
  /\ pc = [r \in Requests |-> "idle"] /\ saw = [r \in Requests |-> "none"]
  /\ tried = [r \in Requests |-> 0] /\ limit = [r \in Requests |-> 3]
  /\ calls = [r \in Requests |-> <<>>] /\ events = [r \in Requests |-> <<>>]

ClickCalls(opts) == IF "doubleClick" \in opts THEN <<"dblclick">> ELSE <<"click">>

TypeCalls(opts) ==
  (IF "clear" \in opts THEN <<"clear">> ELSE <<>>)
  \o (IF "slowly" \in opts THEN <<"click", "type">> ELSE <<"fill">>)
  \o (IF "submit" \in opts THEN <<"enter">> ELSE <<>>)

WaitCalls(opts) ==
  SelectSeq(<<"timeMs", "text", "url">>, LAMBDA condition : condition \in opts)

\* The calls of an action, in order; drag stands for the other kinds, of one call each.
CallsOf(a) ==
  CASE a.kind = "click" -> ClickCalls(a.opts)
    [] a.kind = "type" -> TypeCalls(a.opts)
    [] a.kind = "wait" -> WaitCalls(a.opts)
    [] a.kind = "drag" -> <<"dragTo">>
    [] a.kind = "close" -> <<"close">>

Become(r, place) == pc' = [pc EXCEPT ![r] = place]
Publish(r, event) == events' = [events EXCEPT ![r] = Append(@, event)]

RequiresDiscovery(a) == a.kind \in {"click", "type"}

\* execute: STARTED, the page and its refs; a page that is gone ends it.
Execute(r) ==
  /\ pc[r] = "idle"
  /\ IF closed THEN /\ Become(r, "error")
                    /\ events' = [events EXCEPT ![r] = <<"STARTED", "FAILED">>]
     ELSE /\ Publish(r, "STARTED")
          /\ Become(r, IF RequiresDiscovery(action[r]) THEN "detecting" ELSE "acting")
  /\ UNCHANGED <<action, blocker, shown, saw, tried, limit, calls, closed>>

\* An error thrown inside execute.
Throw(r) == Become(r, "error") /\ Publish(r, "FAILED")

\* detectBlockingElement before the action: a closable blocker is left to the
\* strategy click_close alone, any other to all three.
Detect(r) ==
  /\ pc[r] = "detecting"
  /\ IF closed THEN Throw(r) /\ UNCHANGED <<saw, limit>>
     ELSE /\ saw' = [saw EXCEPT ![r] = blocker]
          /\ limit' = [limit EXCEPT ![r] = IF blocker = "closable" THEN 1 ELSE 3]
          /\ Become(r, IF blocker = "none" THEN "acting" ELSE "dismissing")
          /\ UNCHANGED events
  /\ UNCHANGED <<action, blocker, shown, tried, calls, closed>>

\* One strategy of dismissBlocker.  No close button's ref is passed: click_close
\* does nothing.  Escape and a click outside may take the blocker away.
Dismiss(r) ==
  /\ pc[r] = "dismissing"
  /\ tried' = [tried EXCEPT ![r] = @ + 1]
  /\ \/ UNCHANGED blocker
     \/ Strategies[tried[r] + 1] # "click_close" /\ blocker # "none" /\ blocker' = "none"
  /\ Become(r, "checking")
  /\ UNCHANGED <<action, shown, saw, limit, calls, events, closed>>

\* Mutant: a strategy is taken to have worked.
FreeAlways == TRUE

\* Whether the check after the strategy lets the action go on.
Free == blocker = "none"

\* Whether a further strategy is tried.
TriesAnother(r) == tried[r] < limit[r]

\* The check after the strategy: a failing one lets the next strategy try.
Check(r) ==
  /\ pc[r] = "checking"
  /\ saw' = IF closed THEN saw ELSE [saw EXCEPT ![r] = blocker]
  /\ Become(r, IF ~closed /\ Free THEN "acting" ELSE IF TriesAnother(r) THEN "dismissing" ELSE "error")
  /\ UNCHANGED <<action, blocker, shown, tried, limit, calls, events, closed>>

\* The next call on the page: it fails when the page is gone or the target does
\* not answer in time.
Call(r) ==
  LET all == CallsOf(action[r]) n == Len(calls[r]) IN
  /\ pc[r] = "acting" /\ n < Len(all)
  /\ \/ Throw(r) /\ UNCHANGED <<calls, closed>>
     \/ /\ ~closed
        /\ calls' = [calls EXCEPT ![r] = Append(@, all[n + 1])]
        /\ closed' = (all[n + 1] = "close") /\ UNCHANGED <<pc, events>>
  /\ UNCHANGED <<action, blocker, shown, saw, tried, limit>>

\* All calls made: the answer.  Clicks and typing publish no COMPLETED.
Complete(r) ==
  /\ pc[r] = "acting" /\ Len(calls[r]) = Len(CallsOf(action[r]))
  /\ Become(r, "ok")
  /\ IF RequiresDiscovery(action[r]) THEN UNCHANGED events ELSE Publish(r, "COMPLETED")
  /\ UNCHANGED <<action, blocker, shown, saw, tried, limit, calls, closed>>

\* The page shows a blocker, or it goes away by itself.
Shows ==
  /\ shown < MaxBlockers /\ shown' = shown + 1 /\ blocker' \in Blockers
  /\ UNCHANGED <<action, pc, saw, tried, limit, calls, events, closed>>

Vanishes ==
  /\ blocker # "none" /\ blocker' = "none"
  /\ UNCHANGED <<action, shown, pc, saw, tried, limit, calls, events, closed>>

Next ==
  \/ \E r \in Requests : Execute(r) \/ Detect(r) \/ Dismiss(r) \/ Check(r) \/ Call(r) \/ Complete(r)
  \/ Shows \/ Vanishes

Spec == Init /\ [][Next]_vars

-----------------------------------------------------------------------------
\* A click or typing acts only after a detection that found the target free,
\* made since the last strategy of its own dismissal.
ActsOnFreeTarget == \A r \in Requests : pc[r] = "acting" => saw[r] = "none"

\* A blocked target is given up after each strategy was tried at most once, and
\* nothing was called on the page's elements.
GivesUpUntouched ==
  \A r \in Requests : pc[r] = "error" /\ saw[r] # "none" => calls[r] = <<>> /\ tried[r] <= limit[r]
===============================================================================
