------------------------------ MODULE DomObserver ------------------------------
(***************************************************************************)
(* The discovery of dropdown options by watching the page's DOM            *)
(* (core/services/discovery.service.ts).  The observer is one object of    *)
(* the page's window: each discovery injects it anew, starts it, triggers  *)
(* the dropdown and stops it, and two discoveries of one page share it.    *)
(* Elements are numbered in the order they appear and are usable           *)
(* (interactable or with text) or blank; MaxReported stands for the 200    *)
(* elements that stop() returns.                                           *)
(***************************************************************************)
EXTENDS Naturals, SequencesExt

CONSTANTS
  Requests,
  Usable,       \* the elements, of 1..MaxElements, that are usable
  MaxElements,  \* bound: elements that appear
  MaxReported

Triggers == <<"click", "arrowdown", "typeahead">>

VARIABLES
  observer,   \* __skyvernDeltaObserver of the window: lost, injected, on or off
  added,      \* its added elements
  appeared,   \* elements that have appeared
  text,       \* searchText is given
  pc, round,  \* a discovery's place and its trigger, an index of Triggers
  since,      \* appeared when its trigger's observation began
  alone,      \* no other discovery used the observer since then, and no navigation
  options     \* the options it returns, in the order of their numbers

vars == <<observer, added, appeared, text, pc, round, since, alone, options>>

IsStrictlyIncreasing(s) == \A i, j \in DOMAIN s : i < j => s[i] < s[j]

TypeOK ==
  /\ observer \in {"lost", "injected", "on", "off"}
  /\ appeared \in 0..MaxElements /\ IsStrictlyIncreasing(added)
  /\ text \in [Requests -> BOOLEAN]
  /\ pc \in [Requests -> {"idle", "injecting", "starting", "triggering", "waiting", "done", "error"}]
  /\ round \in [Requests -> 1..3] /\ since \in [Requests -> 0..MaxElements]
  /\ alone \in [Requests -> BOOLEAN]
  /\ \A r \in Requests : options[r] \subseteq Usable /\ Cardinality(options[r]) <= MaxReported

Init ==
  /\ observer = "lost" /\ added = <<>> /\ appeared = 0
  /\ text \in [Requests -> BOOLEAN]
  /\ pc = [r \in Requests |-> "idle"] /\ round = [r \in Requests |-> 1]
  /\ since = [r \in Requests |-> 0] /\ alone = [r \in Requests |-> TRUE]
  /\ options = [r \in Requests |-> {}]

Become(r, place) == pc' = [pc EXCEPT ![r] = place]

Disturb(r) == alone' = [q \in Requests |-> q = r /\ alone[q]]

\* scrollIntoViewIfNeeded.
Begin(r) ==
  /\ pc[r] = "idle"
  /\ Become(r, "injecting") \/ Become(r, "error")
  /\ UNCHANGED <<observer, added, appeared, text, round, since, alone, options>>

\* page.evaluate(OBSERVER_JS): a new object takes the place of the one there.
Inject(r) ==
  /\ pc[r] = "injecting"
  /\ observer' = "injected" /\ added' = <<>>
  /\ Become(r, "starting") /\ Disturb(r)
  /\ UNCHANGED <<appeared, text, round, since, options>>

\* Mutant: an observation goes on with the lists it finds.
EmptiedNever == added

\* The lists when an observation starts.
Emptied == <<>>

\* start().
Start(r) ==
  /\ pc[r] = "starting"
  /\ IF observer = "lost"
     THEN Become(r, "error") /\ UNCHANGED <<observer, added, since, alone>>
     ELSE /\ observer' = "on" /\ added' = Emptied
          /\ since' = [since EXCEPT ![r] = appeared]
          /\ alone' = [q \in Requests |-> q = r]
          /\ Become(r, "triggering")
  /\ UNCHANGED <<appeared, text, round, options>>

\* The click, the key or the typing returns; a click or typing may fail.
Trigger(r) ==
  /\ pc[r] = "triggering"
  /\ Become(r, "waiting") \/ Become(r, "error")
  /\ UNCHANGED <<observer, added, appeared, text, round, since, alone, options>>

Reported == SubSeq(added, 1, IF Len(added) < MaxReported THEN Len(added) ELSE MaxReported)

\* Whether the next trigger is tried.
TriesNext(r) == Reported = <<>> /\ (round[r] = 1 \/ (round[r] = 2 /\ text[r]))

\* stop(), once the waiting time is over.
Stop(r) ==
  /\ pc[r] = "waiting"
  /\ IF observer = "lost" THEN Become(r, "error") /\ UNCHANGED <<observer, round, alone, options>>
     ELSE /\ observer' = IF observer = "on" THEN "off" ELSE observer
          /\ IF TriesNext(r)
             THEN /\ round' = [round EXCEPT ![r] = @ + 1] /\ Become(r, "injecting")
                  /\ UNCHANGED options
             ELSE /\ options' = [options EXCEPT ![r] = ToSet(Reported) \cap Usable]
                  /\ Become(r, "done") /\ UNCHANGED round
          /\ Disturb(r)
  /\ UNCHANGED <<added, appeared, text, since>>

\* The page adds an element.
Appear ==
  /\ appeared < MaxElements
  /\ appeared' = appeared + 1
  /\ added' = IF observer = "on" THEN Append(added, appeared + 1) ELSE added
  /\ UNCHANGED <<observer, text, pc, round, since, alone, options>>

\* The page navigates: the window and its observer are gone.
Navigate ==
  /\ observer # "lost"
  /\ observer' = "lost" /\ added' = <<>> /\ alone' = [r \in Requests |-> FALSE]
  /\ UNCHANGED <<appeared, text, pc, round, since, options>>

Next ==
  \/ \E r \in Requests : Begin(r) \/ Inject(r) \/ Start(r) \/ Trigger(r) \/ Stop(r)
  \/ Appear \/ Navigate

Spec == Init /\ [][Next]_vars

-----------------------------------------------------------------------------
\* The options a discovery returns appeared after its last trigger's observation
\* began, whatever other discoveries of the page and navigations did meanwhile.
OptionsAreNew ==
  \A r \in Requests : pc[r] = "done" => \A e \in options[r] : e > since[r]

\* A discovery that nothing disturbed misses none of the usable elements that
\* appeared while its last trigger worked, up to the number it may report.
ReportsWhatAppeared ==
  \A r \in Requests :
    pc[r] = "waiting" /\ pc'[r] = "done" /\ alone[r] =>
      \A e \in Usable : since[r] < e /\ e <= appeared /\ e <= since[r] + MaxReported
                          => e \in options'[r]
===============================================================================
