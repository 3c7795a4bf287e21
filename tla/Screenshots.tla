----------------------------- MODULE Screenshots -----------------------------
(***************************************************************************)
(* Screenshots (api/controllers/media.controller.ts).  A labelled one      *)
(* draws an overlay into the page, takes the picture and removes the       *)
(* overlay; two requests may do so on one page, which may navigate.        *)
(***************************************************************************)
EXTENDS Naturals, Sequences, FiniteSets, SequencesExt

CONSTANTS
  Requests,
  MaxRefs,       \* refs in a request
  None

VARIABLES
  pc,        \* where each request is
  body,      \* what it asks for
  left,      \* refs not looked up yet, each as what the page will say of it
  boxes,     \* boxes found
  skipped,   \* refs skipped
  overlay,   \* whose labels the page shows
  shot,      \* whose labels are in the picture a request took
  crossed,   \* requests whose work overlapped another's or a navigation
  call       \* the options a plain screenshot hands to the browser

vars == <<pc, body, left, boxes, skipped, overlay, shot, crossed, call>>

\* What a ref turns out to be; hidden: no element, no box, out of view, an error.
Outcomes == {"shown", "hidden"}
Busy == {r \in Requests : pc[r] \in {"looking", "labelled", "shot", "failing"}}
Nothing == [kind |-> "none"]

TypeOK ==
  /\ pc \in [Requests -> {"idle", "looking", "labelled", "shot", "failing", "done", "failed"}]
  /\ overlay \in Requests \union {None} /\ shot \in [Requests -> Requests \union {None}]
  /\ \A r \in Requests : body[r].kind = "labels" => boxes[r] <= body[r].max

Init ==
  /\ pc = [r \in Requests |-> "idle"] /\ body = [r \in Requests |-> Nothing]
  /\ left = [r \in Requests |-> <<>>]
  /\ boxes = [r \in Requests |-> 0] /\ skipped = [r \in Requests |-> 0]
  /\ overlay = None /\ shot = [r \in Requests |-> None]
  /\ crossed = {} /\ call = [r \in Requests |-> Nothing]

\* normalizeScreenshotType: jpeg when only a quality is given.
TypeOf(type, hasQuality) == IF type = "none" THEN IF hasQuality THEN "jpeg" ELSE "png" ELSE type

\* handleScreenshot answers 400.
QualityRefused(b) ==
  b.quality # "none" /\ (TypeOf(b.type, TRUE) # "jpeg" \/ b.quality \notin {"0", "50"})
Refused(b) ==
  \/ b.type = "gif"
  \/ b.ref /\ b.element
  \/ (b.ref \/ b.element) /\ b.fullPage
  \/ QualityRefused(b)

\* The options of the call: on a locator, or on the page by takeScreenshot.
OptionsOf(b) ==
  LET type == TypeOf(b.type, b.quality # "none") IN
    [kind |-> IF b.ref \/ b.element THEN "locator" ELSE "page", type |-> type, fullPage |-> b.fullPage,
     quality |-> IF type # "jpeg" THEN "none"
                 ELSE IF b.quality = "none" /\ ~b.ref /\ ~b.element THEN "85" ELSE b.quality]

Plain(r) ==
  /\ pc[r] = "idle"
  /\ \E type \in {"none", "png", "jpeg", "gif"}, quality \in {"none", "0", "50", "50.5", "101"},
        ref, element, fullPage \in BOOLEAN :
       LET b == [kind |-> "plain", type |-> type, quality |-> quality, ref |-> ref, element |-> element, fullPage |-> fullPage] IN
         /\ body' = [body EXCEPT ![r] = b]
         /\ IF Refused(b) THEN pc' = [pc EXCEPT ![r] = "failed"] /\ UNCHANGED <<call, shot>>
            ELSE /\ pc' = [pc EXCEPT ![r] = "done"] /\ call' = [call EXCEPT ![r] = OptionsOf(b)]
                 /\ shot' = [shot EXCEPT ![r] = overlay]
  /\ UNCHANGED <<left, boxes, skipped, overlay, crossed>>

\* handleLabeledScreenshot: at least one ref that parseRefs keeps.
Begin(r) ==
  /\ pc[r] = "idle"
  /\ \E refs \in BoundedSeq(Outcomes, MaxRefs) \ {<<>>}, m \in 1..MaxRefs :
       /\ left' = [left EXCEPT ![r] = refs]
       /\ body' = [body EXCEPT ![r] = [kind |-> "labels", max |-> m, refs |-> Len(refs)]]
  /\ \E to \in {"looking", "failed"} : pc' = [pc EXCEPT ![r] = to]   \* the page cannot be evaluated
  /\ crossed' = crossed \union (IF Busy = {} THEN {} ELSE Busy \union {r})
  /\ UNCHANGED <<boxes, skipped, overlay, shot, call>>

Full(r) == boxes[r] >= body[r].max

\* One ref of the loop: it becomes a box, or is skipped.
Shows(r) == ~Full(r) /\ Head(left[r]) = "shown"

\* What the ref adds to the skipped ones.
Skips(r) == IF Shows(r) THEN 0 ELSE 1
Look(r) ==
  /\ pc[r] = "looking" /\ left[r] # <<>>
  /\ boxes' = [boxes EXCEPT ![r] = @ + (IF Shows(r) THEN 1 ELSE 0)]
  /\ skipped' = [skipped EXCEPT ![r] = @ + Skips(r)]
  /\ left' = [left EXCEPT ![r] = Tail(@)]
  /\ UNCHANGED <<pc, body, overlay, shot, crossed, call>>

\* The labels replace any others; without boxes the page is left alone.
Label(r) ==
  /\ pc[r] = "looking" /\ left[r] = <<>>
  /\ pc' = [pc EXCEPT ![r] = "labelled"]
  /\ overlay' = IF boxes[r] = 0 THEN overlay ELSE r
  /\ UNCHANGED <<body, left, boxes, skipped, shot, crossed, call>>

\* An evaluation or the screenshot itself throws.
Fails(r) ==
  /\ pc[r] = "labelled" \/ (pc[r] = "looking" /\ left[r] = <<>> /\ boxes[r] > 0)
  /\ pc' = [pc EXCEPT ![r] = "failing"]
  /\ UNCHANGED <<body, left, boxes, skipped, overlay, shot, crossed, call>>

Shoot(r) ==
  /\ pc[r] = "labelled"
  /\ pc' = [pc EXCEPT ![r] = "shot"]
  /\ shot' = [shot EXCEPT ![r] = overlay]
  /\ UNCHANGED <<body, left, boxes, skipped, overlay, crossed, call>>

\* Mutant: a failure leaves the labels.
CleanedOnSuccess(r) == IF pc[r] = "shot" THEN None ELSE overlay

\* finally: every label on the page is removed, whoever drew it. Where the page
\* is gone the removal fails quietly, and the labels are gone too.
Cleaned(r) == None
Clean(r) ==
  /\ pc[r] \in {"shot", "failing"}
  /\ pc' = [pc EXCEPT ![r] = IF pc[r] = "shot" THEN "done" ELSE "failed"]
  /\ overlay' = Cleaned(r)
  /\ UNCHANGED <<body, left, boxes, skipped, shot, crossed, call>>

\* The page loads another document.
Navigate ==
  /\ Busy # {} /\ ~Busy \subseteq crossed
  /\ overlay' = None /\ crossed' = crossed \union Busy
  /\ UNCHANGED <<pc, body, left, boxes, skipped, shot, call>>

Next == (\E r \in Requests : Plain(r) \/ Begin(r) \/ Look(r) \/ Label(r) \/ Fails(r) \/ Shoot(r) \/ Clean(r)) \/ Navigate

Spec == Init /\ [][Next]_vars

-----------------------------------------------------------------------------
\* Once no request is at work, the page shows no labels: neither failures nor
\* requests that replace or remove each other's labels leave any behind.
PageLeftClean == Busy = {} => overlay = None

\* The answer accounts for every ref it was given: labelled or skipped.
RefsAccounted ==
  \A r \in Requests : pc[r] \in {"labelled", "shot", "done"} /\ body[r].kind = "labels" =>
    boxes[r] + skipped[r] = body[r].refs

\* A request that had the page to itself shows its own labels, and none when
\* nothing was labelled: labels another request drew earlier are not in it.
PictureHoldsOwnLabels ==
  \A r \in Requests \ crossed : pc[r] \in {"shot", "done"} /\ body[r].kind = "labels" =>
    shot[r] = IF boxes[r] = 0 THEN None ELSE r

\* The browser is only asked for what it supports, and a quality that was asked
\* for and accepted is the one that is used, also when no type was named.
AskedQualityUsed ==
  \A r \in Requests : body[r].kind = "plain" =>
    LET b == body[r] IN
      /\ pc[r] = "done" => /\ call[r].quality # "none" => call[r].type = "jpeg"
                           /\ call[r].fullPage => call[r].kind = "page"
                           /\ b.quality # "none" => call[r].quality = b.quality
      /\ b.quality = "50" /\ b.type \in {"none", "jpeg"} /\ ~(b.ref \/ b.element) => pc[r] = "done"
=============================================================================
