------------------------------- MODULE PageHooks -------------------------------
(***************************************************************************)
(* The hooks on one page (api/controllers/hooks.controller.ts with         *)
(* adapters/playwright/playwright.downloads.adapter.ts): a request arms a  *)
(* handler for the page's next file chooser, dialog or download.  Handlers *)
(* are numbered per kind in the page state of the session service; only    *)
(* the newest of a kind may act: isActive is asked when the event comes,   *)
(* and not again.  Steps are what runs between two awaits of the browser,  *)
(* the network or a timer; saving a download is such an await, and one     *)
(* that nothing limits.                                                    *)
(***************************************************************************)
EXTENDS Naturals, FiniteSets

CONSTANTS Requests, MaxUrls   \* bound: URL inputs of an upload

\* "chooserClick0" is a chooserClick with timeoutMs 0, which the click passes to
\* Playwright: no limit.
Choosers == {"chooser", "chooserClick", "chooserClick0"}
Uploads == Choosers \cup {"direct"}
Downloads == {"wait", "download"}
Forms == Uploads \cup Downloads \cup {"dialog"}

\* The event a request of form f waits for.
Kind(f) == IF f \in Uploads THEN "filechooser" ELSE IF f \in Downloads THEN "download" ELSE "dialog"
Kinds == {Kind(f) : f \in Forms}

VARIABLES
  pc,       \* progress of each request
  form,     \* what it asks for
  urls,     \* URL inputs it has still to stage
  disk,     \* its staged files on disk
  wants,    \* the staged files its handler uploads
  armOf,    \* the number of the handler it armed
  download, \* the number of the download its handler was given, 0 for none
  started,  \* downloads that began while a handler listened
  pending,  \* requests whose handler still listens
  armId,    \* armIdUpload, armIdDialog, armIdDownload of the page state
  session,  \* the session service knows the page
  open,     \* the page is open
  exited    \* the process has exited

vars == <<pc, form, urls, disk, wants, armOf, download, started, pending, armId, session, open, exited>>
got == <<download, started>>

Answered == {"ok", "error"}

TypeOK ==
  /\ pc \in [Requests -> {"idle", "resolving", "clicking", "waiting", "downloaded", "saving"} \cup Answered]
  /\ form \in [Requests -> Forms]
  /\ urls \in [Requests -> 0..MaxUrls] /\ disk \in [Requests -> 0..MaxUrls]
  /\ wants \in [Requests -> 0..MaxUrls]
  /\ armOf \in [Requests -> 0..Cardinality(Requests)]
  /\ started \in Nat /\ download \in [Requests -> 0..started]
  /\ armId \in [Kinds -> 0..Cardinality(Requests)]
  /\ pending \subseteq Requests
  /\ {session, open, exited} \subseteq BOOLEAN

Init ==
  /\ pc = [r \in Requests |-> "idle"]
  /\ form \in [Requests -> Forms]
  /\ urls \in {u \in [Requests -> 0..MaxUrls] : \A r \in Requests : form[r] \notin Uploads => u[r] = 0}
  /\ wants = urls
  /\ disk = [r \in Requests |-> 0] /\ armOf = [r \in Requests |-> 0]
  /\ download = [r \in Requests |-> 0] /\ started = 0
  /\ armId = [k \in Kinds |-> 0] /\ pending = {}
  /\ session = FALSE /\ open = TRUE /\ exited = FALSE

\* The handler of r passes isActive.
Active(r) == session /\ armOf[r] = armId[Kind(form[r])]

Become(r, state) == pc' = [pc EXCEPT ![r] = state]

\* The finally block: the staged files are unlinked.
Unstage(r) == disk' = [disk EXCEPT ![r] = 0]

Finish(r, outcome) == Become(r, outcome) /\ Unstage(r)

\* ensureTabAvailable and getPage: the session of the page is created.
Arrive(r) ==
  /\ pc[r] = "idle" /\ ~exited
  /\ IF open THEN session' = TRUE /\ Become(r, "resolving")
     ELSE Become(r, "error") /\ UNCHANGED session
  /\ UNCHANGED <<form, urls, disk, wants, armOf, got, pending, armId, open, exited>>

\* stageUploadFromUrl: a failure leaves what was staged before it, since the
\* handler learns of the files only when all are resolved.
Stage(r) ==
  /\ pc[r] = "resolving" /\ urls[r] > 0 /\ ~exited
  /\ \/ /\ urls' = [urls EXCEPT ![r] = @ - 1] /\ disk' = [disk EXCEPT ![r] = @ + 1]
        /\ UNCHANGED pc
     \/ Become(r, "error") /\ UNCHANGED <<urls, disk>>
  /\ UNCHANGED <<form, wants, armOf, got, pending, armId, session, open, exited>>

\* Mutant: a number that is not new.
BumpOnce(k) == 1

\* bumpUploadArmId, bumpDialogArmId, bumpDownloadArmId
Bump(k) == armId[k] + 1

\* What a request does once its handler is armed.
AfterArming(r) ==
  IF form[r] \in {"chooserClick", "chooserClick0", "download"} THEN Become(r, "clicking") /\ UNCHANGED disk
  ELSE IF form[r] = "wait" THEN Become(r, "waiting") /\ UNCHANGED disk
  ELSE Finish(r, "ok")

Arm(r) ==
  /\ pc[r] = "resolving" /\ urls[r] = 0 /\ ~exited
  /\ IF ~session THEN Finish(r, "error") /\ UNCHANGED <<armOf, armId, pending>>
     ELSE IF form[r] = "direct"
     THEN Become(r, "clicking") /\ UNCHANGED <<disk, armOf, armId, pending>>
     ELSE LET n == Bump(Kind(form[r])) IN
          /\ armId' = [armId EXCEPT ![Kind(form[r])] = n]
          /\ armOf' = [armOf EXCEPT ![r] = n]
          /\ pending' = pending \cup {r}
          /\ AfterArming(r)
  /\ UNCHANGED <<form, urls, wants, got, session, open, exited>>

\* What r does with the download it was given: it saves it, or was superseded.
Tested(r) == IF Active(r) THEN "saving" ELSE "error"

\* The click on the ref, or setInputFiles of a direct input, returns. A click
\* that caused its download goes on with it.
ClickReturns(r) ==
  /\ pc[r] \in {"clicking", "downloaded"} /\ ~exited
  /\ \/ /\ pc[r] = "clicking"
        /\ IF form[r] = "download" THEN Become(r, "waiting") /\ UNCHANGED disk ELSE Finish(r, "ok")
        /\ UNCHANGED pending
     \/ /\ pc[r] = "downloaded" /\ Become(r, Tested(r))
        /\ UNCHANGED <<disk, pending>>
     \/ /\ Finish(r, "error")
        /\ pending' = IF form[r] = "download" THEN pending \ {r} ELSE pending
  /\ UNCHANGED <<form, urls, wants, armOf, got, armId, session, open, exited>>

\* persistDownload ends: saved, by saveAs or by fetching the URL, or not. Who has
\* been superseded meanwhile is answered all the same.
SaveEnds(r) ==
  /\ pc[r] = "saving" /\ ~exited
  /\ \E outcome \in Answered : Become(r, outcome)
  /\ UNCHANGED <<form, urls, disk, wants, armOf, got, pending, armId, session, open, exited>>

Listening(k) == {r \in pending : Kind(form[r]) = k}

\* A chooser or a dialog opens: every handler of the kind is used up.
Opens(k) ==
  /\ k # "download" /\ open /\ ~exited /\ Listening(k) # {}
  /\ pending' = pending \ Listening(k)
  /\ UNCHANGED <<pc, form, urls, disk, wants, armOf, got, armId, session, open, exited>>

\* A download is given to every waiter; one whose click is pending looks at it
\* later.
DownloadStarts ==
  /\ open /\ ~exited /\ Listening("download") # {}
  /\ pending' = pending \ Listening("download")
  /\ started' = started + 1
  /\ download' = [r \in Requests |-> IF r \in Listening("download") THEN started' ELSE download[r]]
  /\ pc' = [r \in Requests |-> IF r \notin Listening("download") THEN pc[r]
                              ELSE IF pc[r] = "clicking" THEN "downloaded" ELSE Tested(r)]
  /\ UNCHANGED <<form, urls, disk, wants, armOf, armId, session, open, exited>>

\* Mutant: the waiter stops to listen and does not say so.
RejectedSilently(r) == UNCHANGED pc

\* What becomes of a request whose handler gave up while it waits.
Rejected(r) ==
  IF form[r] \in Downloads /\ pc[r] = "waiting" THEN Become(r, "error") ELSE UNCHANGED pc

\* A handler gives up.  The waiter of a download whose click is still pending
\* rejects a promise nobody awaits yet: unhandledRejection exits the process.
TimesOut(r) ==
  /\ r \in pending /\ ~exited
  /\ pending' = pending \ {r}
  /\ Rejected(r)
  /\ exited' = (form[r] = "download" /\ pc[r] = "clicking")
  /\ UNCHANGED <<form, urls, disk, wants, armOf, got, armId, session, open>>

\* The page is closed and forgotten: waitForEvent rejects, a download waiter stays.
ClosePage ==
  /\ open /\ ~exited
  /\ open' = FALSE /\ session' = FALSE
  /\ armId' = [k \in Kinds |-> 0]
  /\ pending' = Listening("download")
  /\ UNCHANGED <<pc, form, urls, disk, wants, armOf, got, exited>>

Next ==
  \/ \E r \in Requests :
       Arrive(r) \/ Stage(r) \/ Arm(r) \/ ClickReturns(r) \/ SaveEnds(r) \/ TimesOut(r)
  \/ \E k \in Kinds : Opens(k)
  \/ DownloadStarts \/ ClosePage

\* Clicks and direct inputs end by Playwright's time limit unless the caller has
\* taken it off, and handlers by their own timer. Nothing limits the download of
\* a URL that is staged, nor saveAs, which waits for the browser's download.
Limited(r) == form[r] # "chooserClick0" /\ ClickReturns(r)
Fairness == \A r \in Requests : WF_vars(Arm(r)) /\ WF_vars(Limited(r)) /\ WF_vars(TimesOut(r))

Spec == Init /\ [][Next]_vars /\ Fairness

-----------------------------------------------------------------------------
\* Of the handlers that listen for one kind of event at most one acts on it,
\* however requests, timeouts and a close interleave (isActive).
OneHandlerActs ==
  \A k \in Kinds : Cardinality({r \in Listening(k) : Active(r)}) <= 1

\* A download is taken only by the newest waiter: whoever begins to save one has
\* not been superseded by then. It may be while it saves, and is answered then too.
NewestTakes ==
  \A r \in Requests :
    pc'[r] = "saving" /\ pc[r] # "saving" =>
      \A q \in Requests : form[q] \in Downloads => armOf[q] <= armOf[r]

\* No download is taken twice: of the requests it was given to, also those that
\* look at it only when their click returns, one at most saves it and is answered
\* with it, whoever arms or is superseded between.
Takes(r) == form[r] \in Downloads /\ pc[r] \in {"saving", "ok"}
TakenOnce ==
  \A r, q \in Requests : Takes(r) /\ Takes(q) /\ download[r] = download[q] => r = q

\* Every request whose files are staged is answered, unless the process exits or
\* it comes to wait for what has no limit: a download that is being saved, or a
\* click that may take for ever.
Staged(r) == pc[r] = "resolving" /\ urls[r] = 0
Settled(r) == pc[r] \in Answered \/ exited
Unlimited(r) == pc[r] = "saving" \/ (pc[r] = "clicking" /\ form[r] = "chooserClick0")
RequestsAnswered == \A r \in Requests : Staged(r) ~> (Settled(r) \/ Unlimited(r))

\* The files of an upload are there when its chooser opens
\* (docs/api-reference/hooks.md:57, "staged files are uploaded").
ArmedFilesExist ==
  \A r \in Listening("filechooser") : Active(r) => disk[r] = wants[r]
===============================================================================
