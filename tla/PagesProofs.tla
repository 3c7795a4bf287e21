----------------------------- MODULE PagesProofs -----------------------------
(***************************************************************************)
(* Proofs about the page side of Pages, for every value of its constants.  *)
(* Each part has an inductive invariant of its own; the composition adds   *)
(* that no other part changes its variables.                               *)
(***************************************************************************)
EXTENDS Pages, FiniteSetTheorems, SequenceTheorems, TLAPS

-----------------------------------------------------------------------------
(* Hooks: armed handlers *)

Places == {"idle", "resolving", "clicking", "waiting", "downloaded", "saving", "ok", "error"}

\* The types of what handlers are about, written out.
HooksTyped ==
  /\ pc \in [Requests -> Places]
  /\ form \in [Requests -> Hooks!Forms]
  /\ urls \in [Requests -> 0..MaxUrls] /\ disk \in [Requests -> 0..MaxUrls]
  /\ wants \in [Requests -> 0..MaxUrls]
  /\ armOf \in [Requests -> 0..Cardinality(Requests)]
  /\ armId \in [Hooks!Kinds -> 0..Cardinality(Requests)]
  /\ pending \subseteq Requests
  /\ session \in BOOLEAN /\ open \in BOOLEAN /\ exited \in BOOLEAN

ArmedFor(k) == {r \in Requests : armOf[r] # 0 /\ Hooks!Kind(form[r]) = k}

\* Handlers are armed once and numbered apart within their kind, and while the
\* page is open no number is beyond the page state's.
HandlersNumbered ==
  /\ \A r \in Requests : armOf[r] # 0 => pc[r] \notin {"idle", "resolving"}
  /\ \A r, q \in Requests :
       armOf[r] # 0 /\ Hooks!Kind(form[r]) = Hooks!Kind(form[q]) /\ armOf[r] = armOf[q] => r = q
  /\ session => \A r \in Requests : armOf[r] <= armId[Hooks!Kind(form[r])]
  /\ \A k \in Hooks!Kinds : armId[k] <= Cardinality(ArmedFor(k))

\* Whoever listens has armed a handler, a bare wait never clicks, and a page that
\* is closed is forgotten; before it is known no handler is armed.
HooksPlaces ==
  /\ \A r \in pending : armOf[r] # 0
  /\ \A r \in Requests : form[r] = "wait" => pc[r] # "clicking"
  /\ ~open => ~session
  /\ open /\ ~session => \A r \in Requests : armOf[r] = 0
  /\ \A r \in Requests : disk[r] + urls[r] <= MaxUrls

HandlersInv == HooksTyped /\ HandlersNumbered /\ HooksPlaces

\* A step of the composition is a step of the hooks, or not this part.
LEMMA HooksPart ==
  [Next]_vars => part' = part /\ (part = "hooks" => [Hooks!Next]_(Hooks!vars))
  BY DEF Next, Rest, vars, OfHooks, Hooks!vars

LEMMA HooksCardinality ==
  \A S : Hooks!Cardinality(S) = Cardinality(S)
  BY DEF Hooks!Cardinality, Hooks!IsFiniteSet, Cardinality, IsFiniteSet

LEMMA ArmedFinite ==
  ASSUME HooksConstants
  PROVE  Cardinality(Requests) \in Nat /\ \A k : IsFiniteSet(ArmedFor(k)) /\ Cardinality(ArmedFor(k)) \in Nat
<1>1. \A k : IsFiniteSet(ArmedFor(k))
  BY FS_Subset DEF ArmedFor, HooksConstants
<1> QED
  BY <1>1, FS_CardinalityType DEF HooksConstants

LEMMA HandlersInit ==
  ASSUME HooksConstants, Hooks!Init
  PROVE  HandlersInv
<1>1. HooksTyped
  <2>1. /\ pc \in [Requests -> Places]
        /\ form \in [Requests -> Hooks!Forms] /\ urls \in [Requests -> 0..MaxUrls]
        /\ wants = urls /\ disk \in [Requests -> 0..MaxUrls] /\ pending = {}
    BY DEF Hooks!Init, HooksConstants, Places
  <2>2. /\ armOf \in [Requests -> 0..Cardinality(Requests)]
        /\ armId \in [Hooks!Kinds -> 0..Cardinality(Requests)]
    BY ArmedFinite DEF Hooks!Init
  <2>3. session \in BOOLEAN /\ open \in BOOLEAN /\ exited \in BOOLEAN
    BY Zenon DEF Hooks!Init
  <2> QED
    BY <2>1, <2>2, <2>3 DEF HooksTyped
<1>2. HandlersNumbered
  BY ArmedFinite DEF Hooks!Init, HandlersNumbered
<1>3. HooksPlaces
  BY DEF Hooks!Init, HooksPlaces
<1> QED
  BY <1>1, <1>2, <1>3 DEF HandlersInv

\* A step that arms nothing leaves the numbers as they are.
LEMMA NumbersKept ==
  ASSUME HandlersNumbered, UNCHANGED <<form, armOf, armId>>,
         session' => session \/ \A r \in Requests : armOf[r] <= armId[Hooks!Kind(form[r])],
         \A r \in Requests : pc'[r] \in {"idle", "resolving"} => pc[r] \in {"idle", "resolving"}
  PROVE  HandlersNumbered'
<1>1. \A k : ArmedFor(k)' = ArmedFor(k)
  BY DEF ArmedFor
<1>2. \A k \in Hooks!Kinds : (armId[k] <= Cardinality(ArmedFor(k)))'
  BY <1>1 DEF HandlersNumbered
<1> QED
  BY <1>2 DEF HandlersNumbered

\* Arming takes the next number of the kind.
LEMMA NumbersGrow ==
  ASSUME HooksConstants, HandlersInv, NEW r \in Requests, pc[r] = "resolving", session,
         armId' = [armId EXCEPT ![Hooks!Kind(form[r])] = armId[Hooks!Kind(form[r])] + 1],
         armOf' = [armOf EXCEPT ![r] = armId[Hooks!Kind(form[r])] + 1],
         UNCHANGED <<form, session>>,
         pc'[r] \notin {"idle", "resolving"}, \A q \in Requests \ {r} : pc'[q] = pc[q]
  PROVE  /\ HandlersNumbered'
         /\ armOf' \in [Requests -> 0..Cardinality(Requests)]
         /\ armId' \in [Hooks!Kinds -> 0..Cardinality(Requests)]
<1> DEFINE kd == Hooks!Kind(form[r])
           n == armId[kd] + 1
<1>1. /\ form \in [Requests -> Hooks!Forms]
      /\ armOf \in [Requests -> 0..Cardinality(Requests)]
      /\ armId \in [Hooks!Kinds -> 0..Cardinality(Requests)]
  BY DEF HandlersInv, HooksTyped
<1>2. \A q \in Requests : Hooks!Kind(form[q]) \in Hooks!Kinds
  BY <1>1 DEF Hooks!Kinds
<1>3. armOf[r] = 0
  BY <1>1 DEF HandlersInv, HandlersNumbered
<1>4. kd \in Hooks!Kinds /\ armId[kd] \in Nat /\ n \in Nat \ {0} /\ armId'[kd] = n /\ armOf'[r] = n
  BY <1>1, <1>2, ArmedFinite
<1>5. /\ \A q \in Requests \ {r} : armOf'[q] = armOf[q]
      /\ \A k \in Hooks!Kinds \ {kd} : armId'[k] = armId[k]
  BY <1>1
<1>6. ArmedFor(kd)' = ArmedFor(kd) \cup {r} /\ r \notin ArmedFor(kd)
  BY <1>1, <1>3, <1>4, <1>5 DEF ArmedFor
<1>7. \A k \in Hooks!Kinds \ {kd} : ArmedFor(k)' = ArmedFor(k)
  BY <1>1, <1>3, <1>4, <1>5 DEF ArmedFor
<1>8. Cardinality(ArmedFor(kd)') = Cardinality(ArmedFor(kd)) + 1
  BY <1>6, ArmedFinite, FS_AddElement
<1>9. \A k \in Hooks!Kinds : armId'[k] <= Cardinality(ArmedFor(k)')
  BY <1>4, <1>5, <1>7, <1>8, ArmedFinite DEF HandlersInv, HandlersNumbered
<1>10. n <= Cardinality(Requests)
  <2>1. ArmedFor(kd)' \subseteq Requests
    BY DEF ArmedFor
  <2>2. Cardinality(ArmedFor(kd)') <= Cardinality(Requests)
    BY <2>1, FS_Subset DEF HooksConstants
  <2> QED
    BY <1>4, <1>8, <1>9, <2>2, ArmedFinite
<1>11. n \in 0..Cardinality(Requests)
  BY <1>4, <1>10, ArmedFinite
<1>12. /\ armOf' \in [Requests -> 0..Cardinality(Requests)]
       /\ armId' \in [Hooks!Kinds -> 0..Cardinality(Requests)]
  BY <1>1, <1>11
<1>13. \A q \in Requests : armOf[q] <= armId[Hooks!Kind(form[q])]
  BY DEF HandlersInv, HandlersNumbered
<1>14. \A q \in Requests \ {r} : Hooks!Kind(form[q]) = kd => armOf[q] < n
  BY <1>1, <1>4, <1>13, ArmedFinite
<1>15. \A q, p \in Requests :
         armOf'[q] # 0 /\ Hooks!Kind(form[q]) = Hooks!Kind(form[p]) /\ armOf'[q] = armOf'[p] => q = p
  <2> SUFFICES ASSUME NEW q \in Requests, NEW p \in Requests, armOf'[q] # 0,
                      Hooks!Kind(form[q]) = Hooks!Kind(form[p]), armOf'[q] = armOf'[p], q # p
               PROVE  FALSE
    OBVIOUS
  <2>1. CASE q = r
    BY <2>1, <1>1, <1>4, <1>5, <1>14, ArmedFinite
  <2>2. CASE p = r
    BY <2>2, <1>1, <1>4, <1>5, <1>14, ArmedFinite
  <2>3. CASE q # r /\ p # r
    BY <2>3, <1>5 DEF HandlersInv, HandlersNumbered
  <2> QED
    BY <2>1, <2>2, <2>3
<1>16. \A q \in Requests : armOf'[q] <= armId'[Hooks!Kind(form[q])]
  <2> SUFFICES ASSUME NEW q \in Requests
               PROVE  armOf'[q] <= armId'[Hooks!Kind(form[q])]
    OBVIOUS
  <2>1. CASE q = r
    BY <2>1, <1>4
  <2>2. CASE q # r /\ Hooks!Kind(form[q]) = kd
    BY <2>2, <1>1, <1>4, <1>5, <1>14, ArmedFinite
  <2>3. CASE q # r /\ Hooks!Kind(form[q]) # kd
    BY <2>3, <1>2, <1>5, <1>13
  <2> QED
    BY <2>1, <2>2, <2>3
<1>17. \A q \in Requests : armOf'[q] # 0 => pc'[q] \notin {"idle", "resolving"}
  BY <1>5 DEF HandlersInv, HandlersNumbered
<1> QED
  BY <1>9, <1>12, <1>15, <1>16, <1>17 DEF HandlersNumbered

\* Unlinking leaves no more files than there were.
LEMMA FilesBounded ==
  ASSUME HooksConstants, HooksTyped, HooksPlaces, NEW r \in Requests, UNCHANGED urls,
         disk' = disk \/ disk' = [disk EXCEPT ![r] = 0]
  PROVE  /\ disk' \in [Requests -> 0..MaxUrls]
         /\ \A q \in Requests : disk'[q] + urls'[q] <= MaxUrls
<1>1. 0 \in 0..MaxUrls /\ \A q \in Requests : urls[q] \in 0..MaxUrls /\ 0 + urls[q] <= MaxUrls
  BY DEF HooksTyped, HooksConstants
<1>2. CASE disk' = disk
  BY <1>2 DEF HooksTyped, HooksPlaces
<1>3. CASE disk' = [disk EXCEPT ![r] = 0]
  BY <1>1, <1>3 DEF HooksTyped, HooksPlaces
<1> QED
  BY <1>2, <1>3

LEMMA HandlersStep ==
  ASSUME HooksConstants, HandlersInv, [Hooks!Next]_(Hooks!vars)
  PROVE  HandlersInv'
<1> HandlersNumbered /\ HooksPlaces /\ HooksTyped
  BY DEF HandlersInv
<1> USE DEF Hooks!Become, Hooks!Finish, Hooks!Unstage, Places
<1>0. /\ pc \in [Requests -> Places]
      /\ form \in [Requests -> Hooks!Forms]
      /\ urls \in [Requests -> 0..MaxUrls] /\ disk \in [Requests -> 0..MaxUrls]
      /\ wants \in [Requests -> 0..MaxUrls]
      /\ armOf \in [Requests -> 0..Cardinality(Requests)]
      /\ armId \in [Hooks!Kinds -> 0..Cardinality(Requests)]
      /\ pending \subseteq Requests
      /\ session \in BOOLEAN /\ open \in BOOLEAN /\ exited \in BOOLEAN
  BY DEF HooksTyped
<1>1. ASSUME NEW r \in Requests, Hooks!Arrive(r)
      PROVE  HandlersInv'
  <2>1. /\ pc[r] = "idle" /\ UNCHANGED <<form, urls, disk, wants, armOf, pending, armId, open, exited>>
        /\ \/ open /\ session' = TRUE /\ pc' = [pc EXCEPT ![r] = "resolving"]
           \/ ~open /\ session' = session /\ pc' = [pc EXCEPT ![r] = "error"]
    BY <1>1 DEF Hooks!Arrive
  <2>2. session' \in BOOLEAN /\ open' \in BOOLEAN /\ exited' \in BOOLEAN
    BY <1>0, <2>1, Zenon
  <2>3. HooksTyped'
    BY <1>0, <2>1, <2>2 DEF HooksTyped
  <2>4. session' => session \/ \A q \in Requests : armOf[q] <= armId[Hooks!Kind(form[q])]
    <3>1. ASSUME \A q \in Requests : armOf[q] = 0, NEW q \in Requests
          PROVE  armOf[q] <= armId[Hooks!Kind(form[q])]
      BY <1>0, <3>1, ArmedFinite DEF Hooks!Kinds
    <3> QED
      BY <2>1, <3>1 DEF HooksPlaces
  <2>5. HandlersNumbered'
    BY <1>0, <2>1, <2>4, NumbersKept
  <2>6. HooksPlaces'
    BY <1>0, <2>1 DEF HooksPlaces
  <2> QED
    BY <2>3, <2>5, <2>6 DEF HandlersInv
<1>2. ASSUME NEW r \in Requests, Hooks!Stage(r)
      PROVE  HandlersInv'
  <2>1. /\ pc[r] = "resolving" /\ UNCHANGED <<form, wants, armOf, pending, armId, session, open, exited>>
        /\ pc' \in {pc, [pc EXCEPT ![r] = "error"]}
    BY <1>2 DEF Hooks!Stage
  <2>2. /\ urls' \in [Requests -> 0..MaxUrls] /\ disk' \in [Requests -> 0..MaxUrls]
        /\ \A q \in Requests : disk'[q] + urls'[q] <= MaxUrls
    <3>1. CASE urls' = urls /\ disk' = disk
      BY <1>0, <3>1 DEF HooksPlaces
    <3>2. CASE urls' = [urls EXCEPT ![r] = urls[r] - 1] /\ disk' = [disk EXCEPT ![r] = disk[r] + 1]
      <4>1. urls[r] > 0 /\ disk[r] + urls[r] <= MaxUrls /\ disk[r] \in Nat /\ urls[r] \in Nat /\ MaxUrls \in Nat
        BY <1>0, <1>2 DEF Hooks!Stage, HooksPlaces, HooksConstants
      <4>2. /\ urls[r] - 1 \in 0..MaxUrls /\ disk[r] + 1 \in 0..MaxUrls
            /\ (disk[r] + 1) + (urls[r] - 1) <= MaxUrls
        BY <4>1
      <4> QED
        BY <1>0, <3>2, <4>2 DEF HooksPlaces
    <3> QED
      BY <1>2, <3>1, <3>2 DEF Hooks!Stage
  <2>3. HooksTyped'
    BY <1>0, <2>1, <2>2 DEF HooksTyped
  <2>4. HandlersNumbered'
    BY <1>0, <2>1, NumbersKept
  <2>5. HooksPlaces'
    BY <1>0, <2>1, <2>2 DEF HooksPlaces
  <2> QED
    BY <2>3, <2>4, <2>5 DEF HandlersInv
<1>3. ASSUME NEW r \in Requests, Hooks!Arm(r)
      PROVE  HandlersInv'
  <2>1. pc[r] = "resolving" /\ UNCHANGED <<form, urls, wants, session, open, exited>>
    BY <1>3 DEF Hooks!Arm
  <2>2. disk' = disk \/ disk' = [disk EXCEPT ![r] = 0]
    BY <1>3 DEF Hooks!Arm, Hooks!AfterArming
  <2>6. /\ disk' \in [Requests -> 0..MaxUrls]
        /\ \A q \in Requests : disk'[q] + urls'[q] <= MaxUrls
    BY <2>1, <2>2, FilesBounded
  <2>3. PICK place \in {"clicking", "waiting", "ok", "error"} :
          pc' = [pc EXCEPT ![r] = place] /\ (form[r] = "wait" => place # "clicking")
    BY <1>3 DEF Hooks!Arm, Hooks!AfterArming
  <2>4. CASE UNCHANGED <<armOf, armId, pending>>
    <3>1. HooksTyped'
      BY <1>0, <2>1, <2>3, <2>6, <2>4 DEF HooksTyped
    <3>2. HandlersNumbered'
      BY <1>0, <2>1, <2>3, <2>4, NumbersKept
    <3>3. HooksPlaces'
      BY <1>0, <2>1, <2>3, <2>4, <2>6 DEF HooksPlaces
    <3> QED
      BY <3>1, <3>2, <3>3 DEF HandlersInv
  <2>5. CASE ~UNCHANGED <<armOf, armId, pending>>
    <3>1. /\ session /\ pending' = pending \cup {r}
          /\ armId' = [armId EXCEPT ![Hooks!Kind(form[r])] = armId[Hooks!Kind(form[r])] + 1]
          /\ armOf' = [armOf EXCEPT ![r] = armId[Hooks!Kind(form[r])] + 1]
      BY <1>3, <2>5 DEF Hooks!Arm, Hooks!Bump
    <3>2. pc'[r] \notin {"idle", "resolving"} /\ \A q \in Requests \ {r} : pc'[q] = pc[q]
      BY <1>0, <2>3
    <3>3. /\ HandlersNumbered'
          /\ armOf' \in [Requests -> 0..Cardinality(Requests)]
          /\ armId' \in [Hooks!Kinds -> 0..Cardinality(Requests)]
      BY <2>1, <3>1, <3>2, NumbersGrow
    <3>4. HooksTyped'
      BY <1>0, <2>1, <2>3, <2>6, <3>1, <3>3 DEF HooksTyped
    <3>5. HooksPlaces'
      <4>1. armOf'[r] # 0
        BY <1>0, <3>1, ArmedFinite DEF Hooks!Kinds
      <4>2. \A q \in pending' : armOf'[q] # 0
        BY <1>0, <3>1, <4>1 DEF HooksPlaces
      <4> QED
        BY <1>0, <2>1, <2>3, <2>6, <3>1, <4>2 DEF HooksPlaces
    <3> QED
      BY <3>3, <3>4, <3>5 DEF HandlersInv
  <2> QED
    BY <2>4, <2>5
<1>4. ASSUME NEW r \in Requests, Hooks!ClickReturns(r)
      PROVE  HandlersInv'
  <2>1. /\ pc[r] \in {"clicking", "downloaded"}
        /\ UNCHANGED <<form, urls, wants, armOf, armId, session, open, exited>>
        /\ pending' \subseteq pending
    BY <1>4 DEF Hooks!ClickReturns
  <2>2. PICK place \in {"waiting", "saving", "ok", "error"} : pc' = [pc EXCEPT ![r] = place]
    BY <1>4 DEF Hooks!ClickReturns, Hooks!Tested
  <2>3. /\ disk' \in [Requests -> 0..MaxUrls]
        /\ \A q \in Requests : disk'[q] + urls'[q] <= MaxUrls
    <3>1. disk' = disk \/ disk' = [disk EXCEPT ![r] = 0]
      BY <1>4 DEF Hooks!ClickReturns
    <3> QED
      BY <2>1, <3>1, FilesBounded
  <2>4. HooksTyped'
    BY <1>0, <2>1, <2>2, <2>3 DEF HooksTyped
  <2>5. HandlersNumbered'
    BY <1>0, <2>1, <2>2, NumbersKept
  <2>6. HooksPlaces'
    BY <1>0, <2>1, <2>2, <2>3 DEF HooksPlaces
  <2> QED
    BY <2>4, <2>5, <2>6 DEF HandlersInv
<1>5. ASSUME NEW r \in Requests, Hooks!TimesOut(r)
      PROVE  HandlersInv'
  <2>1. /\ UNCHANGED <<form, urls, disk, wants, armOf, armId, session, open>>
        /\ pending' \subseteq pending
        /\ pc' \in {pc, [pc EXCEPT ![r] = "error"]}
    BY <1>5 DEF Hooks!TimesOut, Hooks!Rejected
  <2>2. exited' \in BOOLEAN
    BY <1>5, Zenon DEF Hooks!TimesOut
  <2>3. HooksTyped'
    BY <1>0, <2>1, <2>2 DEF HooksTyped
  <2>4. HandlersNumbered'
    BY <1>0, <2>1, NumbersKept
  <2>5. HooksPlaces'
    BY <1>0, <2>1 DEF HooksPlaces
  <2> QED
    BY <2>3, <2>4, <2>5 DEF HandlersInv
<1>6. ASSUME NEW r \in Requests, Hooks!SaveEnds(r)
      PROVE  HandlersInv'
  <2>1. /\ UNCHANGED <<form, urls, disk, wants, armOf, pending, armId, session, open, exited>>
        /\ pc[r] = "saving"
    BY <1>6 DEF Hooks!SaveEnds
  <2>2. PICK end \in {"ok", "error"} : pc' = [pc EXCEPT ![r] = end]
    BY <1>6 DEF Hooks!SaveEnds, Hooks!Answered
  <2>3. HooksTyped'
    BY <1>0, <2>1, <2>2 DEF HooksTyped
  <2>4. HandlersNumbered'
    BY <1>0, <2>1, <2>2, NumbersKept
  <2>5. HooksPlaces'
    BY <1>0, <2>1, <2>2 DEF HooksPlaces
  <2> QED
    BY <2>3, <2>4, <2>5 DEF HandlersInv
<1>7. ASSUME NEW k \in Hooks!Kinds, Hooks!Opens(k)
      PROVE  HandlersInv'
  <2>1. /\ UNCHANGED <<pc, form, urls, disk, wants, armOf, armId, session, open, exited>>
        /\ pending' \subseteq pending
    BY <1>7 DEF Hooks!Opens
  <2>2. HooksTyped'
    BY <1>0, <2>1 DEF HooksTyped
  <2>3. HandlersNumbered'
    BY <1>0, <2>1, NumbersKept
  <2>4. HooksPlaces'
    BY <1>0, <2>1 DEF HooksPlaces
  <2> QED
    BY <2>2, <2>3, <2>4 DEF HandlersInv
<1>8. CASE Hooks!DownloadStarts
  <2>1. /\ UNCHANGED <<form, urls, disk, wants, armOf, armId, session, open, exited>>
        /\ pending' \subseteq pending
    BY <1>8 DEF Hooks!DownloadStarts
  <2>2. \A q \in Requests : pc'[q] = pc[q] \/ pc'[q] \in {"downloaded", "saving", "error"}
    BY <1>8 DEF Hooks!DownloadStarts, Hooks!Tested
  <2>3. pc' \in [Requests -> Places]
    <3>1. pc' = [q \in Requests |-> IF q \notin Hooks!Listening("download") THEN pc[q]
                                   ELSE IF pc[q] = "clicking" THEN "downloaded" ELSE Hooks!Tested(q)]
      BY <1>8 DEF Hooks!DownloadStarts
    <3>2. \A q \in Requests : Hooks!Tested(q) \in Places
      BY DEF Hooks!Tested
    <3> QED
      BY <1>0, <3>1, <3>2
  <2>4. HooksTyped'
    BY <1>0, <2>1, <2>3 DEF HooksTyped
  <2>5. HandlersNumbered'
    BY <1>0, <2>1, <2>2, NumbersKept
  <2>6. HooksPlaces'
    BY <1>0, <2>1, <2>2 DEF HooksPlaces
  <2> QED
    BY <2>4, <2>5, <2>6 DEF HandlersInv
<1>9. CASE Hooks!ClosePage
  <2>1. /\ open' = FALSE /\ session' = FALSE /\ armId' = [k \in Hooks!Kinds |-> 0]
        /\ pending' \subseteq pending
        /\ UNCHANGED <<pc, form, urls, disk, wants, armOf, exited>>
    BY <1>9 DEF Hooks!ClosePage, Hooks!Listening
  <2>2. session' \in BOOLEAN /\ open' \in BOOLEAN /\ exited' \in BOOLEAN
    BY <1>0, <2>1, Zenon
  <2>3. HooksTyped'
    BY <1>0, <2>1, <2>2, ArmedFinite DEF HooksTyped
  <2>4. HandlersNumbered'
    <3>1. \A k : ArmedFor(k)' = ArmedFor(k)
      BY <2>1 DEF ArmedFor
    <3>2. \A k \in Hooks!Kinds : (armId[k] <= Cardinality(ArmedFor(k)))'
      BY <2>1, <3>1, ArmedFinite
    <3> QED
      BY <2>1, <3>2 DEF HandlersNumbered
  <2>5. HooksPlaces'
    BY <1>0, <2>1 DEF HooksPlaces
  <2> QED
    BY <2>3, <2>4, <2>5 DEF HandlersInv
<1>10. CASE UNCHANGED Hooks!vars
  <2>1. UNCHANGED <<pc, form, urls, disk, wants, armOf, pending, armId, session, open, exited>>
    BY <1>10 DEF Hooks!vars
  <2>2. HooksTyped'
    BY <1>0, <2>1 DEF HooksTyped
  <2>3. HandlersNumbered'
    BY <1>0, <2>1, NumbersKept
  <2>4. HooksPlaces'
    BY <1>0, <2>1 DEF HooksPlaces
  <2> QED
    BY <2>2, <2>3, <2>4 DEF HandlersInv
<1> QED
  BY <1>1, <1>2, <1>3, <1>4, <1>5, <1>6, <1>7, <1>8, <1>9, <1>10 DEF Hooks!Next

\* Two handlers of one kind have different numbers, and one number is the page's.
LEMMA OneActs ==
  ASSUME HooksConstants, HandlersInv
  PROVE  Hooks!OneHandlerActs
<1> SUFFICES ASSUME NEW k \in Hooks!Kinds
             PROVE  Cardinality({r \in Hooks!Listening(k) : Hooks!Active(r)}) <= 1
  BY HooksCardinality DEF Hooks!OneHandlerActs
<1> DEFINE S == {r \in Hooks!Listening(k) : Hooks!Active(r)}
<1>1. \A r \in S : r \in Requests /\ armOf[r] # 0 /\ Hooks!Kind(form[r]) = k /\ armOf[r] = armId[k]
  BY DEF HandlersInv, HooksTyped, HooksPlaces, Hooks!Listening, Hooks!Active
<1>2. \A r, q \in S : r = q
  BY <1>1 DEF HandlersInv, HandlersNumbered
<1>3. CASE S = {}
  BY <1>3, FS_EmptySet
<1>4. CASE S # {}
  <2>1. PICK r \in S : S = {r}
    BY <1>2, <1>4
  <2> QED
    BY <2>1, FS_Singleton
<1> QED
  BY <1>3, <1>4

-----------------------------------------------------------------------------
(* Hooks: downloads *)

\* Who waits for a download has been given none, who has one is a waiter that
\* armed a handler, and of those with the same download the one that takes it has
\* the highest number.
DownloadsGiven ==
  /\ started \in Nat /\ download \in [Requests -> 0..started]
  /\ \A r \in pending : form[r] \in Hooks!Downloads => pc[r] \in {"clicking", "waiting"}
  /\ \A r \in Requests : download[r] # 0 => form[r] \in Hooks!Downloads /\ armOf[r] # 0
  /\ \A r \in Requests : pc[r] \in {"downloaded", "saving"} => form[r] \in Hooks!Downloads
  /\ \A r \in Requests : Hooks!Takes(r) \/ pc[r] = "downloaded" => download[r] # 0
  /\ \A r, q \in Requests : Hooks!Takes(r) /\ download[q] = download[r] /\ q # r => armOf[q] < armOf[r]

HooksInv == HandlersInv /\ DownloadsGiven

LEMMA HooksInit ==
  ASSUME HooksConstants, Hooks!Init
  PROVE  HooksInv
<1>1. started = 0 /\ download \in [Requests -> {0}] /\ pending = {}
  BY DEF Hooks!Init
<1>2. \A r \in Requests : pc[r] = "idle" /\ download[r] = 0
  BY DEF Hooks!Init
<1> QED
  BY <1>1, <1>2, HandlersInit DEF HooksInv, DownloadsGiven, Hooks!Takes

LEMMA HooksTypes ==
  ASSUME HooksInv
  PROVE  Hooks!TypeOK
<1>1. {"idle", "resolving", "clicking", "waiting", "downloaded", "saving"} \cup Hooks!Answered = Places
  BY DEF Hooks!Answered, Places
<1>2. {session, open, exited} \subseteq BOOLEAN
  BY Zenon DEF HooksInv, HandlersInv, HooksTyped
<1> QED
  BY <1>1, <1>2, HooksCardinality, Zenon DEF Hooks!TypeOK, HooksInv, HandlersInv, HooksTyped, DownloadsGiven

\* A waiter that passes isActive has the highest number of all.
LEMMA ActiveIsNewest ==
  ASSUME HooksConstants, HandlersInv, NEW r \in Requests, form[r] \in Hooks!Downloads, armOf[r] # 0,
         Hooks!Active(r)
  PROVE  \A q \in Requests : form[q] \in Hooks!Downloads =>
           armOf[q] <= armOf[r] /\ (q # r => armOf[q] < armOf[r])
<1>1. \A q \in Requests : form[q] \in Hooks!Downloads => Hooks!Kind(form[q]) = "download"
  BY DEF Hooks!Kind, Hooks!Downloads, Hooks!Uploads, Hooks!Choosers
<1>2. \A q \in Requests : armOf[q] \in Nat
  BY ArmedFinite DEF HandlersInv, HooksTyped
<1> QED
  BY <1>1, <1>2 DEF Hooks!Active, HandlersInv, HandlersNumbered

\* A step that gives no download and arms no one keeps what is said of those with
\* one, if nobody takes his anew.
LEMMA DownloadsKept ==
  ASSUME DownloadsGiven, UNCHANGED <<form, download, started, armOf>>, pending' \subseteq pending,
         \A r \in Requests : pc'[r] = "downloaded" => pc[r] = "downloaded",
         \A r \in Requests : pc'[r] = "saving" => pc[r] = "saving",
         \A r \in Requests : Hooks!Takes(r)' => Hooks!Takes(r),
         \A r \in pending' : form[r] \in Hooks!Downloads => pc'[r] \in {"clicking", "waiting"}
  PROVE  DownloadsGiven'
<1>1. started' \in Nat /\ download' \in [Requests -> 0..started']
  BY DEF DownloadsGiven
<1>2. \A r \in Requests : download'[r] # 0 => form'[r] \in Hooks!Downloads /\ armOf'[r] # 0
  BY DEF DownloadsGiven
<1>3. \A r \in Requests : pc'[r] \in {"downloaded", "saving"} => form'[r] \in Hooks!Downloads
  BY DEF DownloadsGiven
<1>4. \A r \in Requests : Hooks!Takes(r)' \/ pc'[r] = "downloaded" => download'[r] # 0
  BY DEF DownloadsGiven
<1>5. \A r, q \in Requests :
        Hooks!Takes(r)' /\ download'[q] = download'[r] /\ q # r => armOf'[q] < armOf'[r]
  BY DEF DownloadsGiven
<1> QED
  BY <1>1, <1>2, <1>3, <1>4, <1>5 DEF DownloadsGiven

LEMMA DownloadsStep ==
  ASSUME HooksConstants, HooksInv, [Hooks!Next]_(Hooks!vars)
  PROVE  DownloadsGiven' /\ Hooks!NewestTakes
<1> USE DEF Hooks!Become, Hooks!Finish, Hooks!Takes, Hooks!NewestTakes, Hooks!Downloads, Hooks!got
<1>0. HandlersInv /\ DownloadsGiven /\ HooksTyped /\ HooksPlaces /\ HandlersNumbered
  BY DEF HooksInv, HandlersInv
<1>1. /\ pc \in [Requests -> Places] /\ form \in [Requests -> Hooks!Forms]
      /\ armOf \in [Requests -> Nat] /\ pending \subseteq Requests
      /\ started \in Nat /\ download \in [Requests -> Nat]
  BY <1>0, ArmedFinite DEF HooksTyped, DownloadsGiven
<1>2. ASSUME NEW r \in Requests, Hooks!Arrive(r) \/ Hooks!Stage(r)
      PROVE  DownloadsGiven' /\ Hooks!NewestTakes
  <2>1. /\ UNCHANGED <<form, download, started, armOf, pending>>
        /\ pc[r] \in {"idle", "resolving"}
    BY <1>2 DEF Hooks!Arrive, Hooks!Stage
  <2>2. pc' = pc \/ \E place \in {"resolving", "error"} : pc' = [pc EXCEPT ![r] = place]
    BY <1>2 DEF Hooks!Arrive, Hooks!Stage
  <2>3. \A q \in Requests : pc'[q] # pc[q] => q = r /\ pc'[q] \in {"resolving", "error"}
    BY <1>1, <2>2
  <2>4. \A q \in pending' : pc'[q] = pc[q]
    BY <1>0, <1>1, <2>1, <2>3 DEF HooksPlaces, HandlersNumbered
  <2>5. DownloadsGiven'
    <3>1. \A q \in pending' : form[q] \in Hooks!Downloads => pc'[q] \in {"clicking", "waiting"}
      BY <1>0, <2>1, <2>4 DEF DownloadsGiven
    <3> QED
      BY <1>0, <2>1, <2>3, <3>1, DownloadsKept
  <2> QED
    BY <2>3, <2>5
<1>3. ASSUME NEW r \in Requests, Hooks!Arm(r)
      PROVE  DownloadsGiven' /\ Hooks!NewestTakes
  <2>1. UNCHANGED <<form, download, started>> /\ pc[r] = "resolving"
    BY <1>3 DEF Hooks!Arm
  <2>2. \A q \in Requests \ {r} : pc'[q] = pc[q] /\ armOf'[q] = armOf[q]
    BY <1>1, <1>3 DEF Hooks!Arm, Hooks!AfterArming
  <2>3. /\ pc'[r] \in {"clicking", "waiting", "ok", "error"}
        /\ form[r] \in Hooks!Downloads => pc'[r] \in {"clicking", "waiting", "error"}
        /\ r \in pending' \ pending /\ form[r] \in Hooks!Downloads => pc'[r] \in {"clicking", "waiting"}
    BY <1>1, <1>3 DEF Hooks!Arm, Hooks!AfterArming
  <2>4. pending' \in {pending, pending \cup {r}} /\ r \notin pending /\ download[r] = 0
    BY <1>0, <1>3, <2>1 DEF Hooks!Arm, HooksPlaces, HandlersNumbered, DownloadsGiven
  <2>5. started' \in Nat /\ download' \in [Requests -> 0..started']
    BY <1>0, <2>1 DEF DownloadsGiven
  <2>6. \A q \in pending' : form'[q] \in Hooks!Downloads => pc'[q] \in {"clicking", "waiting"}
    BY <1>0, <1>1, <2>1, <2>2, <2>3, <2>4 DEF DownloadsGiven
  <2>7. \A q \in Requests : download'[q] # 0 => form'[q] \in Hooks!Downloads /\ armOf'[q] # 0
    BY <1>0, <2>1, <2>2, <2>4 DEF DownloadsGiven
  <2>8. \A q \in Requests : pc'[q] \in {"downloaded", "saving"} => form'[q] \in Hooks!Downloads
    BY <1>0, <2>1, <2>2, <2>3 DEF DownloadsGiven
  <2>9. \A q \in Requests : Hooks!Takes(q)' => q # r /\ Hooks!Takes(q)
    BY <2>1, <2>2, <2>3
  <2>10. \A q \in Requests : Hooks!Takes(q)' \/ pc'[q] = "downloaded" => download'[q] # 0
    BY <1>0, <2>1, <2>2, <2>3, <2>9 DEF DownloadsGiven
  <2>11. \A q, p \in Requests :
           Hooks!Takes(q)' /\ download'[p] = download'[q] /\ p # q => armOf'[p] < armOf'[q]
    BY <1>0, <2>1, <2>2, <2>4, <2>9 DEF DownloadsGiven
  <2>12. DownloadsGiven'
    BY <2>5, <2>6, <2>7, <2>8, <2>10, <2>11 DEF DownloadsGiven
  <2> QED
    BY <2>2, <2>3, <2>12
<1>4. ASSUME NEW r \in Requests, Hooks!ClickReturns(r)
      PROVE  DownloadsGiven' /\ Hooks!NewestTakes
  <2>1. /\ UNCHANGED <<form, download, started, armOf>> /\ pc[r] \in {"clicking", "downloaded"}
        /\ pending' \in {pending, pending \ {r}}
    BY <1>4 DEF Hooks!ClickReturns
  <2>2. \A q \in Requests \ {r} : pc'[q] = pc[q]
    BY <1>1, <1>4 DEF Hooks!ClickReturns
  <2>3. CASE pc'[r] = "saving"
    <3>1. pc[r] = "downloaded" /\ Hooks!Active(r) /\ pending' = pending
      BY <1>1, <1>4, <2>3 DEF Hooks!ClickReturns, Hooks!Tested
    <3>2. form[r] \in Hooks!Downloads /\ download[r] # 0 /\ armOf[r] # 0 /\ r \notin pending
      BY <1>0, <3>1 DEF DownloadsGiven
    <3>3. \A q \in Requests : form[q] \in Hooks!Downloads =>
            armOf[q] <= armOf[r] /\ (q # r => armOf[q] < armOf[r])
      BY <1>0, <3>1, <3>2, ActiveIsNewest
    <3>4. \A q \in Requests : Hooks!Takes(q)' => q = r \/ Hooks!Takes(q)
      BY <2>1, <2>2
    <3>5. \A q, p \in Requests :
            Hooks!Takes(q)' /\ download'[p] = download'[q] /\ p # q => armOf'[p] < armOf'[q]
      <4> SUFFICES ASSUME NEW q \in Requests, NEW p \in Requests, Hooks!Takes(q)',
                          download'[p] = download'[q], p # q
                   PROVE  armOf'[p] < armOf'[q]
        OBVIOUS
      <4>1. CASE q = r
        BY <1>0, <2>1, <3>2, <3>3, <4>1 DEF DownloadsGiven
      <4>2. CASE q # r
        BY <1>0, <2>1, <3>4, <4>2 DEF DownloadsGiven
      <4> QED
        BY <4>1, <4>2
    <3>6. DownloadsGiven'
      BY <1>0, <1>1, <2>1, <2>2, <2>3, <3>1, <3>2, <3>4, <3>5 DEF DownloadsGiven
    <3>7. Hooks!NewestTakes
      BY <2>1, <2>2, <3>3
    <3> QED
      BY <3>6, <3>7
  <2>4. CASE pc'[r] # "saving"
    <3>1. pc'[r] \in {"waiting", "ok", "error"}
      BY <1>1, <1>4, <2>4 DEF Hooks!ClickReturns, Hooks!Tested
    <3>2. form[r] \in Hooks!Downloads => pc'[r] # "ok" /\ (r \in pending' => pc'[r] = "waiting")
      BY <1>0, <1>1, <1>4, <2>4
         DEF Hooks!ClickReturns, Hooks!Tested, HooksPlaces, DownloadsGiven
    <3>3. \A q \in pending' : form[q] \in Hooks!Downloads => pc'[q] \in {"clicking", "waiting"}
      BY <1>0, <1>1, <2>1, <2>2, <3>2 DEF DownloadsGiven
    <3>4. \A q \in Requests : Hooks!Takes(q)' => Hooks!Takes(q)
      BY <2>1, <2>2, <2>4, <3>2
    <3>5. DownloadsGiven'
      BY <1>0, <1>1, <2>1, <2>2, <2>4, <3>1, <3>3, <3>4, DownloadsKept
    <3> QED
      BY <2>2, <2>4, <3>5
  <2> QED
    BY <2>3, <2>4
<1>5. ASSUME NEW r \in Requests, Hooks!SaveEnds(r)
      PROVE  DownloadsGiven' /\ Hooks!NewestTakes
  <2>1. UNCHANGED <<form, download, started, armOf, pending>> /\ pc[r] = "saving"
    BY <1>5 DEF Hooks!SaveEnds
  <2>2. PICK end \in {"ok", "error"} : pc' = [pc EXCEPT ![r] = end]
    BY <1>5 DEF Hooks!SaveEnds, Hooks!Answered
  <2>3. pc'[r] = end /\ \A q \in Requests \ {r} : pc'[q] = pc[q]
    BY <1>1, <2>2
  <2>4. r \notin pending
    BY <1>0, <2>1 DEF DownloadsGiven
  <2>5. \A q \in pending' : form[q] \in Hooks!Downloads => pc'[q] \in {"clicking", "waiting"}
    BY <1>0, <1>1, <2>1, <2>3, <2>4 DEF DownloadsGiven
  <2>6. \A q \in Requests : Hooks!Takes(q)' => Hooks!Takes(q)
    BY <2>1, <2>3
  <2>7. DownloadsGiven'
    BY <1>0, <2>1, <2>3, <2>5, <2>6, DownloadsKept
  <2> QED
    BY <2>3, <2>7
<1>6. ASSUME NEW r \in Requests, Hooks!TimesOut(r)
      PROVE  DownloadsGiven' /\ Hooks!NewestTakes
  <2>1. UNCHANGED <<form, download, started, armOf>> /\ pending' = pending \ {r}
    BY <1>6 DEF Hooks!TimesOut
  <2>2. pc' \in {pc, [pc EXCEPT ![r] = "error"]}
    BY <1>6 DEF Hooks!TimesOut, Hooks!Rejected
  <2>3. (\A q \in Requests \ {r} : pc'[q] = pc[q]) /\ (pc'[r] = pc[r] \/ pc'[r] = "error")
    BY <1>1, <2>2
  <2>4. \A q \in pending' : form[q] \in Hooks!Downloads => pc'[q] \in {"clicking", "waiting"}
    BY <1>0, <1>1, <2>1, <2>3 DEF DownloadsGiven
  <2>5. \A q \in Requests : Hooks!Takes(q)' => Hooks!Takes(q)
    BY <2>1, <2>3
  <2>6. DownloadsGiven'
    BY <1>0, <2>1, <2>3, <2>4, <2>5, DownloadsKept
  <2> QED
    BY <2>3, <2>6
<1>7. ASSUME NEW k \in Hooks!Kinds, Hooks!Opens(k)
      PROVE  DownloadsGiven' /\ Hooks!NewestTakes
  <2>1. UNCHANGED <<pc, form, download, started, armOf>> /\ pending' \subseteq pending
    BY <1>7 DEF Hooks!Opens
  <2>2. DownloadsGiven'
    BY <1>0, <2>1, DownloadsKept DEF DownloadsGiven
  <2> QED
    BY <2>1, <2>2
<1>8. CASE Hooks!DownloadStarts
  <2> DEFINE L == Hooks!Listening("download")
  <2>1. /\ UNCHANGED <<form, armOf>> /\ pending' = pending \ L /\ started' = started + 1
        /\ download' = [r \in Requests |-> IF r \in L THEN started + 1 ELSE download[r]]
        /\ pc' = [r \in Requests |-> IF r \notin L THEN pc[r]
                                     ELSE IF pc[r] = "clicking" THEN "downloaded" ELSE Hooks!Tested(r)]
    BY <1>8 DEF Hooks!DownloadStarts
  <2>2. \A r \in L : r \in pending /\ form[r] \in Hooks!Downloads /\ armOf[r] # 0
    BY <1>0, <1>1 DEF Hooks!Listening, Hooks!Kind, Hooks!Uploads, Hooks!Choosers, HooksPlaces
  <2> HIDE DEF L
  <2>3. /\ started' \in Nat /\ download' \in [Requests -> 0..started']
        /\ \A r \in Requests : r \in L => download'[r] = started + 1
        /\ \A r \in Requests : r \notin L => download'[r] = download[r] /\ pc'[r] = pc[r]
        /\ \A r \in Requests : download[r] <= started
    BY <1>0, <1>1, <2>1 DEF DownloadsGiven
  <2>4. \A r \in L : pc'[r] \in {"downloaded", "saving", "error"} /\ (pc'[r] = "saving" => Hooks!Active(r))
    BY <1>1, <2>1, <2>2 DEF Hooks!Tested
  <2>5. \A r \in L, q \in Requests : pc'[r] = "saving" /\ form[q] \in Hooks!Downloads =>
          armOf[q] <= armOf[r] /\ (q # r => armOf[q] < armOf[r])
    BY <1>0, <1>1, <2>2, <2>4, ActiveIsNewest
  <2>6. \A r \in Requests : download'[r] # 0 => form'[r] \in Hooks!Downloads /\ armOf'[r] # 0
    BY <1>0, <2>1, <2>2, <2>3 DEF DownloadsGiven
  <2>7. \A r \in Requests : Hooks!Takes(r)' => IF r \in L THEN pc'[r] = "saving" ELSE Hooks!Takes(r)
    BY <2>1, <2>3, <2>4
  <2>8. \A r, q \in Requests :
          Hooks!Takes(r)' /\ download'[q] = download'[r] /\ q # r => armOf'[q] < armOf'[r]
    <3> SUFFICES ASSUME NEW r \in Requests, NEW q \in Requests, Hooks!Takes(r)',
                        download'[q] = download'[r], q # r
                 PROVE  armOf'[q] < armOf'[r]
      OBVIOUS
    <3>1. CASE r \in L
      <4>1. form[q] \in Hooks!Downloads
        BY <1>1, <2>1, <2>3, <2>6, <3>1
      <4> QED
        BY <2>1, <2>5, <2>7, <3>1, <4>1
    <3>2. CASE r \notin L
      <4>1. Hooks!Takes(r) /\ q \notin L
        BY <1>1, <2>3, <2>7, <3>2
      <4> QED
        BY <1>0, <2>1, <2>3, <3>2, <4>1 DEF DownloadsGiven
    <3> QED
      BY <3>1, <3>2
  <2>9. \A r \in pending' : form'[r] \in Hooks!Downloads => pc'[r] \in {"clicking", "waiting"}
    BY <1>0, <1>1, <2>1, <2>3 DEF DownloadsGiven
  <2>10. /\ \A r \in Requests : pc'[r] \in {"downloaded", "saving"} => form'[r] \in Hooks!Downloads
         /\ \A r \in Requests : Hooks!Takes(r)' \/ pc'[r] = "downloaded" => download'[r] # 0
    BY <1>0, <1>1, <2>1, <2>2, <2>3, <2>7 DEF DownloadsGiven
  <2>11. Hooks!NewestTakes
    BY <2>1, <2>3, <2>5
  <2> QED
    BY <2>3, <2>6, <2>8, <2>9, <2>10, <2>11 DEF DownloadsGiven
<1>9. CASE Hooks!ClosePage
  <2>1. UNCHANGED <<pc, form, download, started, armOf>> /\ pending' \subseteq pending
    BY <1>9 DEF Hooks!ClosePage, Hooks!Listening
  <2>2. DownloadsGiven'
    BY <1>0, <2>1, DownloadsKept DEF DownloadsGiven
  <2> QED
    BY <2>1, <2>2
<1>10. CASE UNCHANGED Hooks!vars
  <2>1. UNCHANGED <<pc, form, download, started, armOf, pending>>
    BY <1>10 DEF Hooks!vars
  <2>2. DownloadsGiven'
    BY <1>0, <2>1, DownloadsKept DEF DownloadsGiven
  <2> QED
    BY <2>1, <2>2
<1> QED
  BY <1>2, <1>3, <1>4, <1>5, <1>6, <1>7, <1>8, <1>9, <1>10 DEF Hooks!Next

LEMMA HooksStep ==
  ASSUME HooksConstants, HooksInv, [Hooks!Next]_(Hooks!vars)
  PROVE  HooksInv' /\ Hooks!NewestTakes
  BY HandlersStep, DownloadsStep DEF HooksInv

\* Of two that took one download each would have the higher number.
LEMMA OneTakes ==
  ASSUME HooksConstants, HooksInv
  PROVE  Hooks!TakenOnce
<1>1. \A r \in Requests : armOf[r] \in Nat
  BY ArmedFinite DEF HooksInv, HandlersInv, HooksTyped
<1> QED
  BY <1>1 DEF HooksInv, DownloadsGiven, Hooks!TakenOnce

\* However requests, time-outs and a close interleave, of the handlers armed for
\* one kind of event at most the newest acts on it (isActive); a download is taken
\* by the newest waiter, and by no other it was given to, also when waiters arm
\* between its start and the end of the click, or while it is saved.
THEOREM NewestHandler == Spec => NewestHandlerActs
<1> USE PagesAssumption
<1> DEFINE Held == part = "hooks" => HooksInv
           Takes == part = "hooks" => Hooks!NewestTakes
           One == part = "hooks" => Hooks!OneHandlerActs /\ Hooks!TakenOnce
<1>1. Init => Held
  BY HooksInit DEF Init
<1>2. Held /\ [Next]_vars => Held' /\ [Takes]_vars
  BY HooksPart, HooksStep
<1>3. Held => One
  BY OneActs, OneTakes DEF HooksInv
<1> HIDE DEF Held, Takes, One
<1>4. Spec => []One /\ [][Takes]_vars
  BY <1>1, <1>2, <1>3, PTL DEF Spec
<1> QED
  BY <1>4 DEF NewestHandlerActs, One, Takes

-----------------------------------------------------------------------------
(* Activity: records of bounded length *)

Record == [id : Nat, end : Activity!Outcomes]

\* Records and messages are the newest ones, in order, without a gap.
Smaller(n, most) == IF n < most THEN n ELSE most

ActivityTyped ==
  /\ outcome \in Seq(Activity!Outcomes) /\ Len(outcome) <= MaxSent
  /\ seen \in [1..MaxSent -> Nat] /\ nextId \in Nat
  /\ records \in Seq(Record)
  /\ said \in Nat /\ console \in Seq(Nat)

\* The ids follow the order of the requests, of which the first may have been
\* sent before the observers were there.
IdsInOrder ==
  /\ Len(outcome) = nextId \/ Len(outcome) = nextId + 1
  /\ \A r \in 1..MaxSent :
       seen[r] = IF r <= Len(outcome) THEN r - (Len(outcome) - nextId) ELSE 0

\* What is kept is the end of the sequence of all that happened.
NewestInOrder ==
  /\ Len(records) = Smaller(nextId, MaxRequests)
  /\ \A i \in 1..Len(records) : records[i].id = nextId - Len(records) + i
  /\ Len(console) = Smaller(said, MaxConsole)
  /\ \A i \in 1..Len(console) : console[i] = said - Len(console) + i

EndsAgree ==
  \A i \in 1..Len(records), r \in 1..Len(outcome) :
    seen[r] = records[i].id => records[i].end = outcome[r]

ActivityInv == ActivityTyped /\ IdsInOrder /\ NewestInOrder /\ EndsAgree

LEMMA ActivityPart ==
  [Next]_vars => part' = part /\ (part = "activity" => [Activity!Next]_(Activity!vars))
  BY DEF Next, Rest, vars, OfActivity, Activity!vars

LEMMA ActivityInit ==
  ASSUME ActivityConstants, Activity!Init
  PROVE  ActivityInv
<1>1. outcome \in Seq(Activity!Outcomes) /\ (Len(outcome) = 0 \/ Len(outcome) = 1)
  <2>1. CASE outcome = <<>>
    BY <2>1, EmptySeq
  <2>2. CASE outcome = <<"pending">>
    BY <2>2 DEF Activity!Outcomes
  <2> QED
    BY <2>1, <2>2 DEF Activity!Init
<1>2. records \in Seq(Record) /\ Len(records) = 0 /\ console \in Seq(Nat) /\ Len(console) = 0
  BY EmptySeq DEF Activity!Init
<1>3. ActivityTyped
  BY <1>1, <1>2 DEF ActivityConstants, Activity!Init, ActivityTyped
<1>4. IdsInOrder
  <2>1. nextId = 0 /\ \A r \in 1..MaxSent : r \in Nat /\ r >= 1 /\ seen[r] = 0
    BY DEF ActivityConstants, Activity!Init
  <2>2. CASE Len(outcome) = 0
    BY <2>1, <2>2 DEF IdsInOrder
  <2>3. CASE Len(outcome) = 1
    BY <2>1, <2>3 DEF IdsInOrder
  <2> QED
    BY <1>1, <2>2, <2>3
<1>5. NewestInOrder /\ EndsAgree
  BY <1>2 DEF ActivityConstants, Activity!Init, NewestInOrder, EndsAgree, Smaller
<1> QED
  BY <1>3, <1>4, <1>5 DEF ActivityInv

\* Appending to a buffer that has room keeps all of it; to a full one drops the
\* oldest entry.
LEMMA KeptIsNewest ==
  ASSUME NEW S, NEW buffer \in Seq(S), NEW entry \in S, NEW most \in Nat \ {0},
         Len(buffer) <= most, NEW kept, kept = Activity!Kept(buffer, entry, most)
  PROVE  /\ kept \in Seq(S)
         /\ Len(kept) = Smaller(Len(buffer) + 1, most)
         /\ kept[Len(kept)] = entry
         /\ \A i \in 1..Len(kept) - 1 : kept[i] = buffer[i + (Len(buffer) + 1 - Len(kept))]
<1> DEFINE all == Append(buffer, entry)
<1>1. /\ all \in Seq(S) /\ all # <<>> /\ Len(all) = Len(buffer) + 1 /\ Len(buffer) \in Nat
      /\ \A i \in 1..Len(buffer) : all[i] = buffer[i]
      /\ all[Len(buffer) + 1] = entry
  BY AppendProperties, LenProperties
<1>2. /\ Tail(all) \in Seq(S) /\ Len(Tail(all)) = Len(all) - 1
      /\ \A i \in 1..Len(Tail(all)) : Tail(all)[i] = all[i + 1]
  BY <1>1, HeadTailProperties
<1>3. kept = IF Len(all) > most THEN Tail(all) ELSE all
  BY DEF Activity!Kept
<1> HIDE DEF all
<1>4. CASE Len(buffer) + 1 > most
  <2>1. kept = Tail(all) /\ Len(kept) = most /\ Len(buffer) = most
    BY <1>1, <1>2, <1>3, <1>4
  <2> QED
    BY <1>1, <1>2, <2>1 DEF Smaller
<1>5. CASE ~(Len(buffer) + 1 > most)
  BY <1>1, <1>3, <1>5 DEF Smaller
<1> QED
  BY <1>4, <1>5

\* A request is the newest of all: its record, under the next id, is kept last.
LEMMA RequestKeeps ==
  ASSUME ActivityConstants, ActivityInv, Activity!Request
  PROVE  ActivityInv'
<1> DEFINE n == Len(outcome)
           entry == [id |-> nextId + 1, end |-> "pending"]
           d == Len(records) + 1 - Len(records')
<1> USE DEF ActivityConstants, Activity!Outcomes
<1>1. /\ outcome \in Seq(Activity!Outcomes) /\ n \in Nat /\ n < MaxSent /\ nextId \in Nat
      /\ seen \in [1..MaxSent -> Nat] /\ records \in Seq(Record) /\ Len(records) \in Nat
      /\ n = nextId \/ n = nextId + 1
  BY LenProperties DEF ActivityInv, ActivityTyped, IdsInOrder, Activity!Request
<1>2. /\ outcome' \in Seq(Activity!Outcomes) /\ Len(outcome') = n + 1
      /\ outcome'[n + 1] = "pending" /\ \A r \in 1..n : outcome'[r] = outcome[r]
  BY <1>1, AppendProperties DEF Activity!Request
<1>3. /\ nextId' = nextId + 1 /\ seen' \in [1..MaxSent -> Nat]
      /\ seen'[n + 1] = nextId + 1 /\ \A r \in 1..MaxSent \ {n + 1} : seen'[r] = seen[r]
  BY <1>1 DEF Activity!Request
<1>4. Len(records) = Smaller(nextId, MaxRequests) /\ Len(records) <= MaxRequests
  BY <1>1 DEF ActivityInv, NewestInOrder, Smaller
<1>5. entry \in Record
  BY <1>1 DEF Record
<1>6. /\ records' \in Seq(Record) /\ Len(records') = Smaller(Len(records) + 1, MaxRequests)
      /\ records'[Len(records')] = entry
      /\ \A i \in 1..Len(records') - 1 : records'[i] = records[i + d]
  <2>1. records' = Activity!Kept(records, entry, MaxRequests)
    BY DEF Activity!Request
  <2> HIDE DEF entry
  <2>2. /\ records' \in Seq(Record) /\ Len(records') = Smaller(Len(records) + 1, MaxRequests)
        /\ records'[Len(records')] = entry
        /\ \A i \in 1..Len(records') - 1 : records'[i] = records[i + (Len(records) + 1 - Len(records'))]
    <3> HIDE DEF ActivityConstants, Activity!Outcomes
    <3>1. records \in Seq(Record) /\ MaxRequests \in Nat \ {0}
      BY <1>1 DEF ActivityConstants
    <3> QED
      BY <1>4, <1>5, <2>1, <3>1, KeptIsNewest
  <2> QED
    BY <2>2
<1> HIDE DEF d
<1> DEFINE k == Len(records)
           m == Len(records')
<1>7. /\ Len(records') = Smaller(nextId', MaxRequests) /\ Len(records') \in Nat \ {0}
      /\ Len(records') <= Len(records) + 1 /\ Len(records) <= nextId
      /\ d \in Nat /\ d = Len(records) + 1 - Len(records')
  BY <1>1, <1>3, <1>4, <1>6 DEF Smaller, d
<1>8. ActivityTyped'
  BY <1>1, <1>2, <1>3, <1>6 DEF Activity!Request, ActivityInv, ActivityTyped
<1>9. IdsInOrder'
  <2>1. \A r \in 1..MaxSent : seen[r] = IF r <= n THEN r - (n - nextId) ELSE 0
    BY DEF ActivityInv, IdsInOrder
  <2>2. Len(outcome') = nextId' \/ Len(outcome') = nextId' + 1
    BY <1>1, <1>2, <1>3
  <2>3. ASSUME NEW r \in 1..MaxSent
        PROVE  seen'[r] = IF r <= n + 1 THEN r - (n + 1 - (nextId + 1)) ELSE 0
    BY <1>1, <1>3, <2>1
  <2> QED
    BY <1>2, <1>3, <2>2, <2>3 DEF IdsInOrder
<1>10. ASSUME NEW i \in 1..m - 1
       PROVE  i + d \in 1..k /\ records'[i] = records[i + d]
  <2>1. /\ k \in Nat /\ m \in Nat \ {0} /\ d \in Nat /\ d = k + 1 - m
    BY <1>1, <1>7
  <2> HIDE DEF k, m
  <2>2. i + d \in 1..k
    BY <2>1
  <2> QED
    BY <1>6, <2>2 DEF k, m
<1>11. ASSUME NEW i \in 1..Len(records')
       PROVE  records'[i].id = nextId' - Len(records') + i
  <2>1. CASE i = Len(records')
    BY <1>3, <1>5, <1>6, <1>7, <2>1
  <2>2. CASE i # Len(records')
    <3>1. i \in 1..Len(records') - 1
      BY <1>7, <2>2
    <3>2. records[i + d].id = nextId - Len(records) + (i + d)
      BY <1>10, <3>1 DEF ActivityInv, NewestInOrder
    <3> QED
      <4>1. records'[i].id = nextId - k + (i + d)
        BY <1>10, <3>1, <3>2
      <4>2. k \in Nat /\ m \in Nat \ {0} /\ d = k + 1 - m /\ i \in Nat /\ nextId \in Nat
        BY <1>1, <1>7
      <4>3. nextId' = nextId + 1
        BY <1>3
      <4> HIDE DEF k, m
      <4>4. nextId - k + (i + d) = nextId' - m + i
        BY <4>2, <4>3
      <4>5. records'[i].id = nextId' - m + i
        BY <4>1, <4>4
      <4> QED
        BY <4>5 DEF m
  <2> QED
    BY <2>1, <2>2
<1>12. NewestInOrder'
  BY <1>7, <1>11 DEF Activity!Request, ActivityInv, NewestInOrder
<1>13. ASSUME NEW i \in 1..Len(records'), NEW r \in 1..n + 1, seen'[r] = records'[i].id
       PROVE  records'[i].end = outcome'[r]
  <2>1. seen'[r] = r - (n - nextId)
    BY <1>1, <1>2, <1>3, <1>9 DEF IdsInOrder
  <2>2. CASE i = Len(records')
    <3>1. r = n + 1
      <4>1. records'[i].id = (nextId' - m) + i /\ nextId' = nextId + 1 /\ m \in Nat
        BY <1>3, <1>7, <1>11
      <4>2. seen'[r] = (nextId' - m) + i /\ i = m
        BY <1>13, <2>2, <4>1
      <4>3. n \in Nat /\ nextId \in Nat /\ r \in Int
        BY <1>1, <1>13
      <4> HIDE DEF n, m
      <4>4. r - (n - nextId) = (nextId' - m) + i
        BY <2>1, <4>2
      <4>5. (nextId' - m) + i = nextId + 1
        BY <4>1, <4>2, <4>3
      <4>6. r - (n - nextId) = nextId + 1
        BY <4>4, <4>5
      <4> QED
        BY <4>3, <4>6
    <3> QED
      BY <1>2, <1>6, <2>2, <3>1
  <2>3. CASE i # Len(records')
    <3>1. i \in 1..Len(records') - 1
      BY <1>7, <2>3
    <3>2. records'[i].id = nextId' - Len(records') + i
      BY <1>11
    <3>3. r \in 1..n
      <4>1. r - (n - nextId) = (nextId + 1) - m + i
        BY <1>3, <1>13, <2>1, <3>2
      <4>2. n \in Nat /\ nextId \in Nat /\ m \in Nat \ {0} /\ i \in Nat /\ i < m
        BY <1>1, <1>7, <3>1
      <4>3. r \in Int /\ 1 <= r
        BY <1>1, <1>13
      <4> HIDE DEF n, m
      <4>4. r <= n
        BY <4>1, <4>2, <4>3
      <4> QED
        BY <4>2, <4>3, <4>4
    <3>4. seen[r] = records[i + d].id
      <4>1. r \in 1..MaxSent \ {n + 1}
        BY <1>1, <3>3
      <4>2. seen'[r] = seen[r]
        BY <1>3, <4>1
      <4> QED
        BY <1>10, <1>13, <3>1, <4>2
    <3> QED
      BY <1>2, <1>10, <3>1, <3>3, <3>4 DEF ActivityInv, EndsAgree
  <2> QED
    BY <2>2, <2>3
<1>14. EndsAgree'
  BY <1>2, <1>13 DEF EndsAgree
<1> QED
  BY <1>8, <1>9, <1>12, <1>14 DEF ActivityInv

\* An answer changes the record of its own request only: ids are those of one
\* request each.
LEMMA EndedTells ==
  ASSUME ActivityConstants, ActivityInv, NEW r \in 1..Len(outcome),
         NEW end \in {"ok", "failed"}, Activity!Ended(r, end)
  PROVE  ActivityInv'
<1> USE DEF ActivityConstants, Activity!Outcomes
<1>1. /\ outcome \in Seq(Activity!Outcomes) /\ Len(outcome) \in Nat /\ Len(outcome) <= MaxSent
      /\ records \in Seq(Record) /\ Len(records) \in Nat /\ DOMAIN records = 1..Len(records)
      /\ nextId \in Nat /\ (Len(outcome) = nextId \/ Len(outcome) = nextId + 1)
  BY LenProperties DEF ActivityInv, ActivityTyped, IdsInOrder
<1>2. /\ outcome' \in Seq(Activity!Outcomes) /\ Len(outcome') = Len(outcome)
      /\ outcome'[r] = end /\ \A q \in 1..Len(outcome) \ {r} : outcome'[q] = outcome[q]
  BY <1>1, ExceptSeq, LenProperties DEF Activity!Ended
<1>3. /\ DOMAIN records' = 1..Len(records)
      /\ \A i \in 1..Len(records) :
           records'[i] = IF Activity!IsRecordOf(i, r) THEN [records[i] EXCEPT !.end = end] ELSE records[i]
  BY <1>1 DEF Activity!Ended
<1>4. \A i \in 1..Len(records) : records[i] \in Record
  BY <1>1, ElementOfSeq
<1>5. \A i \in 1..Len(records) :
        /\ records'[i] \in Record /\ records'[i].id = records[i].id
        /\ records'[i].end = IF Activity!IsRecordOf(i, r) THEN end ELSE records[i].end
  BY <1>3, <1>4 DEF Record
<1>6. records' \in [1..Len(records) -> Record]
  BY <1>1, <1>5 DEF Activity!Ended
<1>7. records' \in Seq(Record) /\ Len(records') = Len(records)
  <2>1. records' \in Seq(Record)
    BY <1>1, <1>6, SeqDef
  <2>2. DOMAIN records' = 1..Len(records') /\ Len(records') \in Nat
    BY <2>1, LenProperties
  <2> QED
    BY <1>1, <1>3, <2>1, <2>2
<1>8. ActivityTyped'
  BY <1>1, <1>2, <1>7 DEF Activity!Ended, ActivityInv, ActivityTyped
<1>9. IdsInOrder' /\ NewestInOrder'
  BY <1>2, <1>5, <1>7 DEF Activity!Ended, ActivityInv, IdsInOrder, NewestInOrder
<1>10. ASSUME NEW i \in 1..Len(records), NEW q \in 1..Len(outcome), seen[q] = records'[i].id
       PROVE  records'[i].end = outcome'[q]
  <2>1. records[i].id = nextId - Len(records) + i /\ Len(records) <= nextId
    BY <1>1 DEF ActivityInv, NewestInOrder, Smaller
  <2>2. seen[q] = records[i].id /\ seen[q] # 0
    BY <1>1, <1>5, <1>10, <2>1
  <2>3. /\ seen[q] = q - (Len(outcome) - nextId) /\ seen[r] = r - (Len(outcome) - nextId)
    BY <1>1 DEF ActivityInv, IdsInOrder
  <2>4. CASE q = r
    BY <1>2, <1>5, <2>2, <2>4 DEF Activity!IsRecordOf
  <2>5. CASE q # r
    <3>1. ~Activity!IsRecordOf(i, r)
      BY <1>1, <2>2, <2>3, <2>5 DEF Activity!IsRecordOf
    <3>2. records[i].end = outcome[q]
      BY <2>2 DEF ActivityInv, EndsAgree
    <3> QED
      BY <1>2, <1>5, <2>5, <3>1, <3>2
  <2> QED
    BY <2>4, <2>5
<1>11. EndsAgree'
  BY <1>2, <1>7, <1>10 DEF Activity!Ended, EndsAgree
<1> QED
  BY <1>8, <1>9, <1>11 DEF ActivityInv

LEMMA ConsoleKeeps ==
  ASSUME ActivityConstants, ActivityInv, Activity!Console
  PROVE  ActivityInv'
<1> DEFINE k == Len(console)
           m == Len(console')
<1>1. /\ console \in Seq(Nat) /\ k \in Nat /\ said \in Nat /\ said' = said + 1
      /\ k = Smaller(said, MaxConsole) /\ MaxConsole \in Nat \ {0}
      /\ UNCHANGED <<outcome, seen, nextId, records>>
  BY LenProperties DEF ActivityConstants, ActivityInv, ActivityTyped, NewestInOrder, Activity!Console
<1>2. k <= MaxConsole /\ k <= said
  BY <1>1 DEF Smaller
<1>3. /\ console' \in Seq(Nat) /\ m = Smaller(k + 1, MaxConsole) /\ console'[m] = said + 1
      /\ \A i \in 1..m - 1 : console'[i] = console[i + (k + 1 - m)]
  <2>1. console' = Activity!Kept(console, said + 1, MaxConsole) /\ said + 1 \in Nat
    BY <1>1 DEF Activity!Console
  <2> DEFINE entry == said + 1
             kept == console'
             N == Nat
  <2>2. console \in Seq(N) /\ entry \in N /\ MaxConsole \in Nat \ {0} /\ Len(console) <= MaxConsole
        /\ kept = Activity!Kept(console, entry, MaxConsole)
    BY <1>1, <1>2, <2>1
  <2>3. /\ kept \in Seq(N)
        /\ Len(kept) = Smaller(Len(console) + 1, MaxConsole)
        /\ kept[Len(kept)] = entry
        /\ \A i \in 1..Len(kept) - 1 : kept[i] = console[i + (Len(console) + 1 - Len(kept))]
    <3> HIDE DEF entry, kept, N
    <3> QED
      BY <2>2, KeptIsNewest
  <2> QED
    BY <2>3
<1> HIDE DEF k, m
<1>4. m \in Nat \ {0} /\ m <= k + 1 /\ m = Smaller(said', MaxConsole)
  BY <1>1, <1>2, <1>3 DEF Smaller
<1>5. ASSUME NEW i \in 1..m
      PROVE  console'[i] = said' - m + i
  <2>1. CASE i = m
    BY <1>1, <1>3, <1>4, <2>1
  <2>2. CASE i # m
    <3>1. i \in 1..m - 1 /\ i + (k + 1 - m) \in 1..k
      BY <1>1, <1>4, <2>2
    <3>2. \A j \in 1..k : console[j] = said - k + j
      BY DEF ActivityInv, NewestInOrder, k
    <3>3. console'[i] = said - k + (i + (k + 1 - m))
      BY <1>3, <3>1, <3>2
    <3>4. said - k + (i + (k + 1 - m)) = (said + 1) - m + i
      BY <1>1, <1>4
    <3> QED
      BY <1>1, <3>3, <3>4
  <2> QED
    BY <2>1, <2>2
<1>6. ActivityTyped' /\ IdsInOrder' /\ EndsAgree'
  BY <1>1, <1>3 DEF ActivityInv, ActivityTyped, IdsInOrder, EndsAgree
<1>7. NewestInOrder'
  <2>1. /\ Len(records') = Smaller(nextId', MaxRequests)
        /\ \A i \in 1..Len(records') : records'[i].id = nextId' - Len(records') + i
    BY <1>1 DEF ActivityInv, NewestInOrder
  <2> QED
    BY <1>4, <1>5, <2>1 DEF NewestInOrder, m
<1> QED
  BY <1>6, <1>7 DEF ActivityInv

LEMMA ActivityStep ==
  ASSUME ActivityConstants, ActivityInv, [Activity!Next]_(Activity!vars)
  PROVE  ActivityInv'
<1>1. CASE UNCHANGED Activity!vars
  BY <1>1 DEF Activity!vars, ActivityInv, ActivityTyped, IdsInOrder, NewestInOrder, EndsAgree
<1>2. ASSUME NEW r \in Activity!Sent, Activity!Ended(r, "ok") \/ Activity!Ended(r, "failed")
      PROVE  ActivityInv'
  BY <1>2, EndedTells DEF Activity!Sent
<1> QED
  BY <1>1, <1>2, RequestKeeps, ConsoleKeeps DEF Activity!Next

LEMMA RecordsTell ==
  ASSUME ActivityConstants, ActivityInv
  PROVE  Activity!RecordsTellTheirRequest
<1> DEFINE n == Len(outcome)
           k == Len(records)
<1>1. SUFFICES ASSUME NEW r \in 1..n, seen[r] # 0
               PROVE  IF seen[r] + MaxRequests <= nextId
                      THEN \A rec \in Activity!ToSet(records) : rec.id # seen[r]
                      ELSE \E rec \in Activity!ToSet(records) : rec = [id |-> seen[r], end |-> outcome[r]]
  BY Zenon DEF Activity!RecordsTellTheirRequest, Activity!Sent
<1>2. /\ n \in Nat /\ n <= MaxSent /\ MaxSent \in Nat /\ nextId \in Nat /\ (n = nextId \/ n = nextId + 1)
      /\ records \in Seq(Record) /\ k \in Nat /\ DOMAIN records = 1..k /\ seen \in [1..MaxSent -> Nat]
      /\ MaxRequests \in Nat \ {0} /\ k = Smaller(nextId, MaxRequests)
  BY LenProperties DEF ActivityConstants, ActivityInv, ActivityTyped, IdsInOrder, NewestInOrder
<1>3. \A i \in 1..k : records[i].id = nextId - k + i /\ records[i] \in Record
  BY <1>2, ElementOfSeq DEF ActivityInv, NewestInOrder
<1>4. seen[r] = r - (n - nextId) /\ seen[r] \in Nat
  BY <1>2 DEF ActivityInv, IdsInOrder
<1>5. Activity!ToSet(records) = {records[i] : i \in 1..k}
  BY <1>2 DEF Activity!ToSet
<1>6. \A i \in 1..k : seen[r] = records[i].id => records[i].end = outcome[r]
  BY DEF ActivityInv, EndsAgree
<1> HIDE DEF n, k
<1>7. CASE seen[r] + MaxRequests <= nextId
  <2>1. ASSUME NEW i \in 1..k
        PROVE  records[i].id # seen[r]
    BY <1>2, <1>3, <1>4, <1>7, <2>1 DEF Smaller
  <2> QED
    BY <1>5, <1>7, <2>1
<1>8. CASE ~(seen[r] + MaxRequests <= nextId)
  <2> DEFINE i == (seen[r] - nextId) + k
  <2>1. seen[r] >= 1 /\ seen[r] <= nextId
    BY <1>1, <1>2, <1>4
  <2>2. i \in 1..k
    BY <1>2, <1>4, <1>8, <2>1 DEF Smaller
  <2>3. nextId - k + i = seen[r]
    BY <1>2, <1>4
  <2> HIDE DEF i
  <2>4. records[i].id = seen[r] /\ records[i].end = outcome[r] /\ records[i] \in Record
    BY <1>3, <1>6, <2>2, <2>3
  <2>5. records[i] = [id |-> seen[r], end |-> outcome[r]]
    BY <2>4 DEF Record
  <2> QED
    BY <1>5, <1>8, <2>2, <2>5
<1> QED
  BY <1>7, <1>8

LEMMA NewestMessages ==
  ASSUME ActivityConstants, ActivityInv
  PROVE  Activity!NewestMessagesKept
<1> DEFINE k == Len(console)
<1>1. /\ said \in Nat /\ k \in Nat /\ DOMAIN console = 1..k /\ k = Smaller(said, MaxConsole)
      /\ MaxConsole \in Nat \ {0} /\ \A i \in 1..k : console[i] = said - k + i
  BY LenProperties DEF ActivityConstants, ActivityInv, ActivityTyped, NewestInOrder
<1>2. Activity!ToSet(console) = {console[i] : i \in 1..k}
  BY <1>1 DEF Activity!ToSet
<1> HIDE DEF k
<1>3. ASSUME NEW m \in 1..said
      PROVE  m \in Activity!ToSet(console) <=> m + MaxConsole > said
  <2>1. CASE m + MaxConsole > said
    <3> DEFINE i == (m - said) + k
    <3>1. i \in 1..k /\ said - k + i = m
      BY <1>1, <1>3, <2>1 DEF Smaller
    <3> HIDE DEF i
    <3> QED
      BY <1>1, <1>2, <2>1, <3>1
  <2>2. CASE ~(m + MaxConsole > said)
    <3>1. \A i \in 1..k : console[i] # m
      BY <1>1, <1>3, <2>2 DEF Smaller
    <3> QED
      BY <1>2, <2>2, <3>1
  <2> QED
    BY <2>1, <2>2
<1> QED
  BY <1>3 DEF Activity!NewestMessagesKept

\* Whatever the order of requests and their answers, and however many records
\* have been shifted out, a record tells how its own request ended, and exactly
\* the newest requests and console messages are kept.
THEOREM EventsAreRecorded == Spec => []EventsRecorded
<1> USE PagesAssumption
<1> DEFINE Held == part = "activity" => ActivityInv
<1>1. Init => Held
  BY ActivityInit DEF Init
<1>2. Held /\ [Next]_vars => Held'
  BY ActivityPart, ActivityStep
<1>3. Held => EventsRecorded
  BY RecordsTell, NewestMessages DEF EventsRecorded
<1> HIDE DEF Held
<1> QED
  BY <1>1, <1>2, <1>3, PTL DEF Spec

-----------------------------------------------------------------------------
(* Actions: blockers and their dismissal *)

ActionsTyped ==
  /\ pc \in [Requests -> {"idle", "detecting", "dismissing", "checking", "acting", "ok", "error"}]
  /\ saw \in [Requests -> Actions!Blockers \cup {"none"}] /\ blocker \in Actions!Blockers \cup {"none"}
  /\ tried \in [Requests -> Nat] /\ limit \in [Requests -> {1, 3}]
  /\ DOMAIN calls = Requests

\* A dismissal starts with a strategy left to try and nothing called, and calls
\* are made from a place that is reached only when the target was found free.
DismissalOf(r) ==
  /\ pc[r] \in {"idle", "detecting"} => tried[r] = 0
  /\ pc[r] \in {"idle", "detecting", "dismissing", "checking"} \/ saw[r] # "none" => calls[r] = <<>>
  /\ pc[r] \in {"idle", "acting", "ok"} => saw[r] = "none"
  /\ pc[r] = "dismissing" => tried[r] < limit[r]
  /\ tried[r] <= limit[r]

ActionsInv == ActionsTyped /\ \A r \in Requests : DismissalOf(r)

LEMMA ActionsPart ==
  [Next]_vars => part' = part /\ (part = "actions" => [Actions!Next]_(Actions!vars))
  BY DEF Next, Rest, vars, OfActions, Actions!vars

LEMMA ActionsInit ==
  ASSUME Actions!Init
  PROVE  ActionsInv
  BY DEF Actions!Init, ActionsInv, ActionsTyped, DismissalOf

LEMMA ActionsStep ==
  ASSUME ActionsInv, [Actions!Next]_(Actions!vars)
  PROVE  ActionsInv'
<1> USE DEF ActionsInv, ActionsTyped, DismissalOf, Actions!Become, Actions!Publish, Actions!Throw
<1>1. ASSUME NEW r \in Requests, Actions!Execute(r)
      PROVE  ActionsInv'
  BY <1>1 DEF Actions!Execute
<1>2. ASSUME NEW r \in Requests, Actions!Detect(r)
      PROVE  ActionsInv'
  <2>1. CASE closed
    BY <1>2, <2>1 DEF Actions!Detect
  <2>2. CASE ~closed
    <3>1. /\ saw' = [saw EXCEPT ![r] = blocker] /\ UNCHANGED <<tried, calls, blocker>>
          /\ pc[r] = "detecting"
      BY <1>2, <2>2 DEF Actions!Detect
    <3>2. limit' \in [Requests -> {1, 3}] /\ \A q \in Requests \ {r} : limit'[q] = limit[q]
      BY <1>2, <2>2 DEF Actions!Detect
    <3>3. \/ blocker = "none" /\ pc' = [pc EXCEPT ![r] = "acting"]
          \/ blocker # "none" /\ pc' = [pc EXCEPT ![r] = "dismissing"]
      BY <1>2, <2>2 DEF Actions!Detect
    <3>4. ActionsTyped'
      BY <3>1, <3>2, <3>3
    <3>5. ASSUME NEW q \in Requests
          PROVE  DismissalOf(q)'
      <4>1. tried[q] \in Nat /\ limit[q] \in {1, 3} /\ limit'[q] \in {1, 3} /\ tried[r] = 0
        BY <3>1, <3>2
      <4>2. CASE q = r
        BY <3>1, <3>3, <4>1, <4>2
      <4>3. CASE q # r
        BY <3>1, <3>2, <3>3, <4>3
      <4> QED
        BY <4>2, <4>3
    <3> QED
      BY <3>4, <3>5
  <2> QED
    BY <2>1, <2>2
<1>3. ASSUME NEW r \in Requests, Actions!Dismiss(r)
      PROVE  ActionsInv'
  <2>1. /\ tried' = [tried EXCEPT ![r] = tried[r] + 1] /\ pc' = [pc EXCEPT ![r] = "checking"]
        /\ UNCHANGED <<saw, limit, calls>> /\ pc[r] = "dismissing" /\ blocker' \in {blocker, "none"}
    BY <1>3 DEF Actions!Dismiss
  <2>2. ActionsTyped'
    BY <2>1
  <2>3. ASSUME NEW q \in Requests
        PROVE  DismissalOf(q)'
    <3>1. tried[r] \in Nat /\ limit[r] \in Nat /\ tried[r] < limit[r]
      BY <2>1
    <3> QED
      BY <2>1, <2>3, <3>1
  <2> QED
    BY <2>2, <2>3
<1>4. ASSUME NEW r \in Requests, Actions!Check(r)
      PROVE  ActionsInv'
  BY <1>4 DEF Actions!Check, Actions!Free, Actions!TriesAnother
<1>5. ASSUME NEW r \in Requests, Actions!Call(r)
      PROVE  ActionsInv'
  BY <1>5 DEF Actions!Call
<1>6. ASSUME NEW r \in Requests, Actions!Complete(r)
      PROVE  ActionsInv'
  BY <1>6 DEF Actions!Complete
<1>7. CASE Actions!Shows \/ Actions!Vanishes
  BY <1>7 DEF Actions!Shows, Actions!Vanishes
<1>8. CASE UNCHANGED Actions!vars
  BY <1>8 DEF Actions!vars
<1> QED
  BY <1>1, <1>2, <1>3, <1>4, <1>5, <1>6, <1>7, <1>8 DEF Actions!Next

\* However the page shows and loses blockers between the calls, a click or typing
\* acts only on a target found free since the last strategy, and a request that
\* gives up has called nothing and tried each strategy at most once.
THEOREM BlockersAreRespected == Spec => []BlockersRespected
<1> DEFINE Held == part = "actions" => ActionsInv
<1>1. Init => Held
  BY ActionsInit DEF Init
<1>2. Held /\ [Next]_vars => Held'
  BY ActionsPart, ActionsStep
<1>3. Held => BlockersRespected
  BY DEF BlockersRespected, ActionsInv, DismissalOf, Actions!ActsOnFreeTarget, Actions!GivesUpUntouched
<1> HIDE DEF Held
<1> QED
  BY <1>1, <1>2, <1>3, PTL DEF Spec

-----------------------------------------------------------------------------
(* Screenshots: labels on a page that requests share *)

PlainBodies ==
  [kind : {"plain"}, type : {"none", "png", "jpeg", "gif"}, quality : {"none", "0", "50", "50.5", "101"},
   ref : BOOLEAN, element : BOOLEAN, fullPage : BOOLEAN]
LabelBodies == [kind : {"labels"}, max : Nat, refs : Nat]
Drawing == {"labelled", "shot", "failing"}

ShotsTyped ==
  /\ pc \in [Requests -> {"idle", "looking", "labelled", "shot", "failing", "done", "failed"}]
  /\ body \in [Requests -> {Shots!Nothing} \cup PlainBodies \cup LabelBodies]
  /\ left \in [Requests -> Seq(Shots!Outcomes)]
  /\ boxes \in [Requests -> Nat] /\ skipped \in [Requests -> Nat]
  /\ DOMAIN shot = Requests /\ DOMAIN call = Requests

\* Labels on the page are those of a request that has yet to remove them.
LabelsOwned == overlay # None => overlay \in Requests /\ pc[overlay] \in Drawing

\* Of two requests at work both have crossed; one that has not finds its labels
\* in place when it takes the picture.
Crossing ==
  /\ \A r, q \in Shots!Busy : r # q => r \in crossed
  /\ \A r \in Requests \ crossed :
       /\ pc[r] = "labelled" => overlay = IF boxes[r] = 0 THEN None ELSE r
       /\ pc[r] \in {"shot", "done"} /\ body[r].kind = "labels" =>
            shot[r] = IF boxes[r] = 0 THEN None ELSE r

\* Every ref is a box, skipped or still to be looked up.
RefsCounted ==
  \A r \in Requests :
    /\ pc[r] = "idle" => body[r] = Shots!Nothing /\ boxes[r] = 0 /\ skipped[r] = 0
    /\ pc[r] \in {"looking", "labelled", "shot", "failing"} => body[r] \in LabelBodies
    /\ pc[r] = "looking" => boxes[r] + skipped[r] + Len(left[r]) = body[r].refs
    /\ pc[r] \in {"labelled", "shot", "done"} /\ body[r].kind = "labels" =>
         boxes[r] + skipped[r] = body[r].refs

\* A plain screenshot is refused or asked of the browser with its options.
PlainAnswered ==
  \A r \in Requests : body[r].kind = "plain" =>
    IF Shots!Refused(body[r]) THEN pc[r] = "failed"
    ELSE pc[r] = "done" /\ call[r] = Shots!OptionsOf(body[r])

ShotsInv == ShotsTyped /\ LabelsOwned /\ Crossing /\ RefsCounted /\ PlainAnswered

LEMMA ShotsPart ==
  [Next]_vars => part' = part /\ (part = "shots" => [Shots!Next]_(Shots!vars))
  BY DEF Next, Rest, vars, OfShots, Shots!vars

LEMMA BodyKinds ==
  /\ Shots!Nothing.kind = "none"
  /\ \A b \in PlainBodies : b.kind = "plain"
  /\ \A b \in LabelBodies : b.kind = "labels" /\ b.max \in Nat /\ b.refs \in Nat
  BY DEF Shots!Nothing, PlainBodies, LabelBodies

LEMMA ShotsInit ==
  ASSUME Shots!Init
  PROVE  ShotsInv
<1>1. ShotsTyped
  BY EmptySeq DEF Shots!Init, ShotsTyped
<1> QED
  BY <1>1, BodyKinds DEF Shots!Init, ShotsInv, LabelsOwned, Crossing, RefsCounted, PlainAnswered, Shots!Busy

\* A plain screenshot touches no labels.
LEMMA PlainShot ==
  ASSUME ShotsInv, NEW r \in Requests, Shots!Plain(r)
  PROVE  ShotsInv'
<1>1. PICK b \in PlainBodies :
        /\ pc[r] = "idle" /\ body' = [body EXCEPT ![r] = b]
        /\ IF Shots!Refused(b) THEN pc' = [pc EXCEPT ![r] = "failed"] /\ UNCHANGED <<call, shot>>
           ELSE /\ pc' = [pc EXCEPT ![r] = "done"] /\ call' = [call EXCEPT ![r] = Shots!OptionsOf(b)]
                /\ shot' = [shot EXCEPT ![r] = overlay]
        /\ UNCHANGED <<left, boxes, skipped, overlay, crossed>>
  <2>1. PICK type \in {"none", "png", "jpeg", "gif"}, quality \in {"none", "0", "50", "50.5", "101"},
             ref, element, fullPage \in BOOLEAN :
          LET b == [kind |-> "plain", type |-> type, quality |-> quality, ref |-> ref,
                    element |-> element, fullPage |-> fullPage] IN
            /\ body' = [body EXCEPT ![r] = b]
            /\ IF Shots!Refused(b) THEN pc' = [pc EXCEPT ![r] = "failed"] /\ UNCHANGED <<call, shot>>
               ELSE /\ pc' = [pc EXCEPT ![r] = "done"] /\ call' = [call EXCEPT ![r] = Shots!OptionsOf(b)]
                    /\ shot' = [shot EXCEPT ![r] = overlay]
    BY Zenon DEF Shots!Plain
  <2> DEFINE b == [kind |-> "plain", type |-> type, quality |-> quality, ref |-> ref,
                   element |-> element, fullPage |-> fullPage]
  <2>2. b \in PlainBodies
    BY DEF PlainBodies
  <2>3. pc[r] = "idle" /\ UNCHANGED <<left, boxes, skipped, overlay, crossed>>
    BY DEF Shots!Plain
  <2> QED
    BY <2>1, <2>2, <2>3, Zenon
<1>2. b.kind = "plain" /\ \E to \in {"done", "failed"} : pc' = [pc EXCEPT ![r] = to]
  BY <1>1, BodyKinds
<1>3. ShotsTyped'
  BY <1>1, <1>2 DEF ShotsInv, ShotsTyped
<1>4. LabelsOwned' /\ Shots!Busy' \subseteq Shots!Busy
  BY <1>1, <1>2 DEF ShotsInv, ShotsTyped, LabelsOwned, Drawing, Shots!Busy
<1>5. \A q \in Requests \ {r} : /\ pc'[q] = pc[q] /\ body'[q] = body[q] /\ call'[q] = call[q] /\ shot'[q] = shot[q]
  BY <1>1, <1>2 DEF ShotsInv, ShotsTyped
<1>6. body'[r] = b /\ pc'[r] \in {"done", "failed"}
  BY <1>1, <1>2 DEF ShotsInv, ShotsTyped
<1>7. Crossing' /\ RefsCounted'
  BY <1>1, <1>2, <1>4, <1>5, <1>6 DEF ShotsInv, Crossing, RefsCounted
<1>8. PlainAnswered'
  <2>1. IF Shots!Refused(b) THEN pc'[r] = "failed" ELSE pc'[r] = "done" /\ call'[r] = Shots!OptionsOf(b)
    BY <1>1 DEF ShotsInv, ShotsTyped
  <2> QED
    BY <1>5, <1>6, <2>1 DEF ShotsInv, PlainAnswered
<1> QED
  BY <1>3, <1>4, <1>7, <1>8 DEF ShotsInv

\* A request that finds another at work crosses it.
LEMMA LabelsBegin ==
  ASSUME ShotsConstants, ShotsInv, NEW r \in Requests, Shots!Begin(r)
  PROVE  ShotsInv'
<1>1. PICK rs \in Seq(Shots!Outcomes), b \in LabelBodies, to \in {"looking", "failed"} :
        /\ pc[r] = "idle" /\ pc' = [pc EXCEPT ![r] = to]
        /\ left' = [left EXCEPT ![r] = rs] /\ body' = [body EXCEPT ![r] = b] /\ b.refs = Len(rs)
        /\ crossed' = crossed \cup (IF Shots!Busy = {} THEN {} ELSE Shots!Busy \cup {r})
        /\ UNCHANGED <<boxes, skipped, overlay, shot, call>>
  <2>1. PICK rs \in Shots!BoundedSeq(Shots!Outcomes, MaxRefs), m \in 1..MaxRefs :
          /\ left' = [left EXCEPT ![r] = rs]
          /\ body' = [body EXCEPT ![r] = [kind |-> "labels", max |-> m, refs |-> Len(rs)]]
    BY DEF Shots!Begin
  <2>2. rs \in Seq(Shots!Outcomes)
    BY SeqDef DEF ShotsConstants, Shots!BoundedSeq, Shots!SeqOf
  <2>3. [kind |-> "labels", max |-> m, refs |-> Len(rs)] \in LabelBodies
    BY <2>2, LenProperties DEF ShotsConstants, LabelBodies
  <2>4. PICK to \in {"looking", "failed"} : pc' = [pc EXCEPT ![r] = to]
    BY DEF Shots!Begin
  <2>5. pc[r] = "idle" /\ UNCHANGED <<boxes, skipped, overlay, shot, call>>
        /\ crossed' = crossed \cup (IF Shots!Busy = {} THEN {} ELSE Shots!Busy \cup {r})
    BY DEF Shots!Begin
  <2> QED
    BY <2>1, <2>2, <2>3, <2>4, <2>5
<1>2. b.kind = "labels" /\ body'[r] = b /\ pc'[r] = to /\ left'[r] = rs
  BY <1>1, BodyKinds DEF ShotsInv, ShotsTyped
<1>3. \A q \in Requests \ {r} : pc'[q] = pc[q] /\ body'[q] = body[q] /\ left'[q] = left[q]
  BY <1>1 DEF ShotsInv, ShotsTyped
<1>4. ShotsTyped'
  BY <1>1 DEF ShotsInv, ShotsTyped
<1>5. LabelsOwned' /\ Shots!Busy' \subseteq Shots!Busy \cup {r}
  BY <1>1, <1>2, <1>3 DEF ShotsInv, ShotsTyped, LabelsOwned, Drawing, Shots!Busy
<1>6. Crossing'
  BY <1>1, <1>2, <1>3, <1>5 DEF ShotsInv, Crossing
<1>7. RefsCounted'
  <2>1. boxes[r] = 0 /\ skipped[r] = 0 /\ Len(rs) \in Nat
    BY <1>1, LenProperties DEF ShotsInv, RefsCounted
  <2> QED
    BY <1>1, <1>2, <1>3, <2>1 DEF ShotsInv, RefsCounted
<1>8. PlainAnswered'
  BY <1>1, <1>2, <1>3 DEF ShotsInv, PlainAnswered
<1> QED
  BY <1>4, <1>5, <1>6, <1>7, <1>8 DEF ShotsInv

\* A step of a request at work that stays within its work.
LEMMA StillBusy ==
  ASSUME ShotsInv, NEW r \in Requests, NEW to \in {"looking", "labelled", "shot", "failing"},
         r \in Shots!Busy, pc' = [pc EXCEPT ![r] = to], UNCHANGED <<body, crossed, call>>
  PROVE  /\ Shots!Busy' = Shots!Busy
         /\ pc'[r] = to /\ \A q \in Requests \ {r} : pc'[q] = pc[q]
         /\ body[r] \in LabelBodies /\ body[r].kind = "labels" /\ body[r].max \in Nat /\ body[r].refs \in Nat
         /\ r \notin crossed => Shots!Busy = {r}
         /\ PlainAnswered'
<1>1. body[r] \in LabelBodies
  BY DEF ShotsInv, RefsCounted, Shots!Busy
<1>2. pc'[r] = to /\ \A q \in Requests \ {r} : pc'[q] = pc[q]
  BY DEF ShotsInv, ShotsTyped
<1>3. Shots!Busy' = Shots!Busy
  BY <1>2 DEF Shots!Busy
<1>4. r \notin crossed => Shots!Busy = {r}
  BY DEF ShotsInv, Crossing
<1>5. PlainAnswered'
  BY <1>1, <1>2, BodyKinds DEF ShotsInv, PlainAnswered
<1> QED
  BY <1>1, <1>2, <1>3, <1>4, <1>5, BodyKinds

LEMMA LabelsLook ==
  ASSUME ShotsInv, NEW r \in Requests, Shots!Look(r)
  PROVE  ShotsInv'
<1>1. pc[r] = "looking" /\ left[r] # <<>> /\ UNCHANGED <<pc, body, overlay, shot, crossed, call>>
  BY DEF Shots!Look
<1>2. body[r].refs \in Nat /\ boxes[r] \in Nat /\ skipped[r] \in Nat
      /\ boxes[r] + skipped[r] + Len(left[r]) = body[r].refs
  BY <1>1, BodyKinds DEF ShotsInv, ShotsTyped, RefsCounted
<1>3. Tail(left[r]) \in Seq(Shots!Outcomes) /\ Len(left[r]) \in Nat \ {0} /\ Len(Tail(left[r])) = Len(left[r]) - 1
  BY <1>1, HeadTailProperties, EmptySeq DEF ShotsInv, ShotsTyped
<1>4. /\ boxes' = [boxes EXCEPT ![r] = boxes[r] + (IF Shots!Shows(r) THEN 1 ELSE 0)]
      /\ skipped' = [skipped EXCEPT ![r] = skipped[r] + (IF Shots!Shows(r) THEN 0 ELSE 1)]
  BY DEF Shots!Look, Shots!Skips
<1>5. /\ boxes' \in [Requests -> Nat] /\ skipped' \in [Requests -> Nat]
      /\ boxes'[r] + skipped'[r] = boxes[r] + skipped[r] + 1
      /\ \A q \in Requests \ {r} : boxes'[q] = boxes[q] /\ skipped'[q] = skipped[q]
  <2>1. boxes \in [Requests -> Nat] /\ skipped \in [Requests -> Nat]
    BY DEF ShotsInv, ShotsTyped
  <2>2. CASE Shots!Shows(r)
    <3>1. boxes' = [boxes EXCEPT ![r] = boxes[r] + 1] /\ skipped' = [skipped EXCEPT ![r] = skipped[r] + 0]
      BY <1>4, <2>2
    <3> QED
      BY <1>2, <2>1, <3>1
  <2>3. CASE ~Shots!Shows(r)
    <3>1. boxes' = [boxes EXCEPT ![r] = boxes[r] + 0] /\ skipped' = [skipped EXCEPT ![r] = skipped[r] + 1]
      BY <1>4, <2>3
    <3> QED
      BY <1>2, <2>1, <3>1
  <2> QED
    BY <2>2, <2>3
<1>6. /\ left' \in [Requests -> Seq(Shots!Outcomes)] /\ left'[r] = Tail(left[r])
      /\ \A q \in Requests \ {r} : left'[q] = left[q]
  BY <1>3 DEF ShotsInv, ShotsTyped, Shots!Look
<1>7. ShotsTyped' /\ LabelsOwned' /\ PlainAnswered'
  BY <1>1, <1>5, <1>6 DEF ShotsInv, ShotsTyped, LabelsOwned, PlainAnswered
<1>8. Crossing'
  BY <1>1, <1>5 DEF ShotsInv, Crossing, Shots!Busy
<1>9. RefsCounted'
  <2>1. boxes'[r] + skipped'[r] + Len(left'[r]) = body[r].refs
    BY <1>2, <1>3, <1>5, <1>6
  <2> QED
    BY <1>1, <1>5, <1>6, <2>1 DEF ShotsInv, RefsCounted
<1> QED
  BY <1>7, <1>8, <1>9 DEF ShotsInv

LEMMA LabelsDrawn ==
  ASSUME ShotsInv, NEW r \in Requests, Shots!Label(r)
  PROVE  ShotsInv'
<1>1. /\ pc[r] = "looking" /\ left[r] = <<>> /\ pc' = [pc EXCEPT ![r] = "labelled"]
      /\ overlay' = IF boxes[r] = 0 THEN overlay ELSE r
      /\ UNCHANGED <<body, left, boxes, skipped, shot, crossed, call>>
  BY DEF Shots!Label
<1>2. r \in Shots!Busy
  BY <1>1 DEF Shots!Busy
<1>3. /\ Shots!Busy' = Shots!Busy /\ pc'[r] = "labelled" /\ \A q \in Requests \ {r} : pc'[q] = pc[q]
      /\ body[r] \in LabelBodies /\ body[r].kind = "labels" /\ (r \notin crossed => Shots!Busy = {r})
      /\ PlainAnswered'
  BY <1>1, <1>2, StillBusy
<1>4. ShotsTyped' /\ LabelsOwned'
  BY <1>1, <1>3 DEF ShotsInv, ShotsTyped, LabelsOwned, Drawing
<1>5. r \notin crossed => overlay = None
  BY <1>1, <1>3 DEF ShotsInv, LabelsOwned, Drawing, Shots!Busy
<1>6. \A q \in Requests \ crossed : pc[q] # "labelled"
  BY <1>1, <1>2 DEF ShotsInv, Crossing, Shots!Busy
<1>7. Crossing'
  BY <1>1, <1>3, <1>5, <1>6 DEF ShotsInv, Crossing
<1>8. RefsCounted'
  <2>1. boxes[r] + skipped[r] = body[r].refs
    BY <1>1, EmptySeq DEF ShotsInv, ShotsTyped, RefsCounted
  <2> QED
    BY <1>1, <1>3, <2>1 DEF ShotsInv, RefsCounted
<1> QED
  BY <1>3, <1>4, <1>7, <1>8 DEF ShotsInv

LEMMA LabelsFail ==
  ASSUME ShotsInv, NEW r \in Requests, Shots!Fails(r)
  PROVE  ShotsInv'
<1>1. /\ pc[r] \in {"looking", "labelled"} /\ pc' = [pc EXCEPT ![r] = "failing"]
      /\ UNCHANGED <<body, left, boxes, skipped, overlay, shot, crossed, call>>
  BY DEF Shots!Fails
<1>2. r \in Shots!Busy
  BY <1>1 DEF Shots!Busy
<1>3. /\ Shots!Busy' = Shots!Busy /\ pc'[r] = "failing" /\ \A q \in Requests \ {r} : pc'[q] = pc[q]
      /\ body[r] \in LabelBodies /\ PlainAnswered'
  BY <1>1, <1>2, StillBusy
<1>4. ShotsTyped' /\ LabelsOwned'
  BY <1>1, <1>3 DEF ShotsInv, ShotsTyped, LabelsOwned, Drawing
<1>5. Crossing' /\ RefsCounted'
  BY <1>1, <1>3 DEF ShotsInv, Crossing, RefsCounted
<1> QED
  BY <1>3, <1>4, <1>5 DEF ShotsInv

LEMMA LabelsShot ==
  ASSUME ShotsInv, NEW r \in Requests, Shots!Shoot(r)
  PROVE  ShotsInv'
<1>1. /\ pc[r] = "labelled" /\ pc' = [pc EXCEPT ![r] = "shot"] /\ shot' = [shot EXCEPT ![r] = overlay]
      /\ UNCHANGED <<body, left, boxes, skipped, overlay, crossed, call>>
  BY DEF Shots!Shoot
<1>2. r \in Shots!Busy
  BY <1>1 DEF Shots!Busy
<1>3. /\ Shots!Busy' = Shots!Busy /\ pc'[r] = "shot" /\ \A q \in Requests \ {r} : pc'[q] = pc[q]
      /\ body[r] \in LabelBodies /\ body[r].kind = "labels" /\ PlainAnswered'
  BY <1>1, <1>2, StillBusy
<1>4. shot'[r] = overlay /\ \A q \in Requests \ {r} : shot'[q] = shot[q]
  BY <1>1 DEF ShotsInv, ShotsTyped
<1>5. ShotsTyped' /\ LabelsOwned'
  BY <1>1, <1>3 DEF ShotsInv, ShotsTyped, LabelsOwned, Drawing
<1>6. Crossing' /\ RefsCounted'
  BY <1>1, <1>3, <1>4 DEF ShotsInv, Crossing, RefsCounted
<1> QED
  BY <1>3, <1>5, <1>6 DEF ShotsInv

\* The labels of another request are removed only when both have crossed.
LEMMA LabelsRemoved ==
  ASSUME ShotsInv, NEW r \in Requests, Shots!Clean(r)
  PROVE  ShotsInv'
<1>1. PICK to \in {"done", "failed"} :
        /\ pc[r] \in {"shot", "failing"} /\ (to = "done" => pc[r] = "shot") /\ pc' = [pc EXCEPT ![r] = to]
        /\ overlay' = None /\ UNCHANGED <<body, left, boxes, skipped, shot, crossed, call>>
  BY DEF Shots!Clean, Shots!Cleaned
<1>2. pc'[r] = to /\ \A q \in Requests \ {r} : pc'[q] = pc[q]
  BY <1>1 DEF ShotsInv, ShotsTyped
<1>3. Shots!Busy' \subseteq Shots!Busy /\ r \in Shots!Busy
  BY <1>1, <1>2 DEF Shots!Busy
<1>4. body[r].kind = "labels"
  BY <1>1, BodyKinds DEF ShotsInv, RefsCounted
<1>5. ShotsTyped' /\ LabelsOwned'
  BY <1>1 DEF ShotsInv, ShotsTyped, LabelsOwned
<1>6. \A q \in Requests \ crossed : pc[q] # "labelled"
  BY <1>1, <1>3 DEF ShotsInv, Crossing, Shots!Busy
<1>7. Crossing'
  BY <1>1, <1>2, <1>3, <1>4, <1>6 DEF ShotsInv, Crossing
<1>8. RefsCounted' /\ PlainAnswered'
  BY <1>1, <1>2, <1>4 DEF ShotsInv, RefsCounted, PlainAnswered
<1> QED
  BY <1>5, <1>7, <1>8 DEF ShotsInv

LEMMA ShotsStep ==
  ASSUME ShotsConstants, ShotsInv, [Shots!Next]_(Shots!vars)
  PROVE  ShotsInv'
<1>1. CASE Shots!Navigate
  <2>1. /\ overlay' = None /\ crossed' = crossed \cup Shots!Busy
        /\ UNCHANGED <<pc, body, left, boxes, skipped, shot, call>>
    BY <1>1 DEF Shots!Navigate
  <2> QED
    BY <2>1 DEF ShotsInv, ShotsTyped, LabelsOwned, Crossing, RefsCounted, PlainAnswered, Shots!Busy
<1>2. CASE UNCHANGED Shots!vars
  BY <1>2 DEF Shots!vars, ShotsInv, ShotsTyped, LabelsOwned, Crossing, RefsCounted, PlainAnswered, Shots!Busy
<1> QED
  BY <1>1, <1>2, PlainShot, LabelsBegin, LabelsLook, LabelsDrawn, LabelsFail, LabelsShot, LabelsRemoved
  DEF Shots!Next

\* What is not refused is asked with options the browser supports, and with the
\* quality that was given.
LEMMA AcceptedQuality ==
  ASSUME NEW b \in PlainBodies
  PROVE  LET o == Shots!OptionsOf(b) IN
           /\ ~Shots!Refused(b) => /\ o.quality # "none" => o.type = "jpeg"
                                   /\ o.fullPage => o.kind = "page"
                                   /\ b.quality # "none" => o.quality = b.quality
           /\ b.quality = "50" /\ b.type \in {"none", "jpeg"} /\ ~(b.ref \/ b.element) => ~Shots!Refused(b)
<1> USE DEF PlainBodies, Shots!OptionsOf, Shots!Refused, Shots!QualityRefused, Shots!TypeOf
<1>1. ASSUME ~Shots!Refused(b)
      PROVE  Shots!OptionsOf(b).quality # "none" => Shots!OptionsOf(b).type = "jpeg"
  BY <1>1
<1>2. ASSUME ~Shots!Refused(b)
      PROVE  Shots!OptionsOf(b).fullPage => Shots!OptionsOf(b).kind = "page"
  BY <1>2
<1>3. ASSUME ~Shots!Refused(b), b.quality # "none"
      PROVE  Shots!OptionsOf(b).quality = b.quality
  BY <1>3
<1>4. b.quality = "50" /\ b.type \in {"none", "jpeg"} /\ ~(b.ref \/ b.element) => ~Shots!Refused(b)
  OBVIOUS
<1> QED
  BY <1>1, <1>2, <1>3, <1>4

\* Two labelled screenshots of one page may overlap and the page may navigate:
\* no labels are left when no request is at work, a request that had the page to
\* itself pictures its own labels, every ref is labelled or skipped, and a plain
\* screenshot uses the quality it accepted.
THEOREM PicturesAreAsAsked == Spec => []PicturesAsAsked
<1> USE PagesAssumption
<1> DEFINE Held == part = "shots" => ShotsInv
<1>1. Init => Held
  BY ShotsInit DEF Init
<1>2. Held /\ [Next]_vars => Held'
  BY ShotsPart, ShotsStep
<1>3. ASSUME ShotsInv
      PROVE  /\ Shots!PageLeftClean /\ Shots!PictureHoldsOwnLabels
             /\ Shots!RefsAccounted /\ Shots!AskedQualityUsed
  <2>1. Shots!PageLeftClean
    BY <1>3 DEF ShotsInv, LabelsOwned, Drawing, Shots!PageLeftClean, Shots!Busy
  <2>2. Shots!PictureHoldsOwnLabels
    BY <1>3 DEF ShotsInv, Crossing, Shots!PictureHoldsOwnLabels
  <2>3. Shots!RefsAccounted
    BY <1>3 DEF ShotsInv, RefsCounted, Shots!RefsAccounted
  <2>4. ASSUME NEW r \in Requests, body[r].kind = "plain"
        PROVE  LET b == body[r] IN
                 /\ pc[r] = "done" => /\ call[r].quality # "none" => call[r].type = "jpeg"
                                      /\ call[r].fullPage => call[r].kind = "page"
                                      /\ b.quality # "none" => call[r].quality = b.quality
                 /\ b.quality = "50" /\ b.type \in {"none", "jpeg"} /\ ~(b.ref \/ b.element) => pc[r] = "done"
    <3>1. body[r] \in PlainBodies
      BY <1>3, <2>4, BodyKinds DEF ShotsInv, ShotsTyped
    <3>2. IF Shots!Refused(body[r]) THEN pc[r] = "failed"
          ELSE pc[r] = "done" /\ call[r] = Shots!OptionsOf(body[r])
      BY <1>3, <2>4 DEF ShotsInv, PlainAnswered
    <3> QED
      BY <3>1, <3>2, AcceptedQuality
  <2> QED
    BY <2>1, <2>2, <2>3, <2>4, Zenon DEF Shots!AskedQualityUsed
<1>4. Held => PicturesAsAsked
  BY <1>3 DEF PicturesAsAsked
<1> HIDE DEF Held
<1> QED
  BY <1>1, <1>2, <1>4, PTL DEF Spec

-----------------------------------------------------------------------------
(* Form filling: results of shared fields *)

Result == [field : Fill!Names, matched : BOOLEAN, warned : BOOLEAN]

FillTyped ==
  /\ DOMAIN value = Fill!Names
  /\ pc \in [Requests -> Fill!Places] /\ by \in [Requests -> {"service", "adapter"}]
  /\ at \in [Requests -> 1..Len(Fields)] /\ results \in [Requests -> Seq(Result)]

\* There is one result for each field before the one at work, and the service is
\* done only with the last field.
ResultsInOrder(r) ==
  /\ Len(results[r]) = IF pc[r] = "ok" THEN at[r] ELSE at[r] - 1
  /\ \A i \in 1..Len(results[r]) : results[r][i].field = Fields[i]
  /\ pc[r] = "ok" /\ by[r] = "service" => at[r] = Len(Fields)

FillInv == FillTyped /\ \A r \in Requests : ResultsInOrder(r)

LEMMA FillPart ==
  [Next]_vars => part' = part /\ (part = "fill" => [Fill!Next]_(Fill!vars))
  BY DEF Next, Rest, vars, OfFill, Fill!vars

LEMMA FillInit ==
  ASSUME FillConstants, Fill!Init
  PROVE  FillInv
<1>1. 1 \in 1..Len(Fields)
  BY EmptySeq DEF FillConstants
<1>2. <<>> \in Seq(Result) /\ Len(<<>>) = 0
  BY EmptySeq
<1>3. FillTyped
  BY <1>1, <1>2 DEF Fill!Init, FillTyped, Fill!Places
<1> QED
  BY <1>2, <1>3 DEF Fill!Init, FillInv, ResultsInOrder

\* A result is that of the field at work.
LEMMA FillPush ==
  ASSUME FillConstants, FillInv, NEW r \in Requests, pc[r] \notin {"ok", "error"},
         NEW matched \in BOOLEAN, NEW warned \in BOOLEAN, Fill!Push(r, matched, warned),
         DOMAIN value' = DOMAIN value, by' = by
  PROVE  /\ FillInv'
         /\ \A q \in Requests : results'[q] # results[q] =>
              q = r /\ Fill!Last(results'[q]).field = Fill!Field(r) /\ Fill!Last(results'[q]).matched = matched
<1> DEFINE entry == [field |-> Fill!Field(r), matched |-> matched, warned |-> warned]
           old == results[r]
           new == Append(old, entry)
<1>1. /\ at[r] \in 1..Len(Fields) /\ Len(Fields) \in Nat /\ Fill!Field(r) \in Fill!Names
      /\ old \in Seq(Result) /\ Len(old) = at[r] - 1 /\ \A i \in 1..Len(old) : old[i].field = Fields[i]
  BY ElementOfSeq, LenProperties DEF FillConstants, FillInv, FillTyped, ResultsInOrder, Fill!Field
<1>2. entry \in Result /\ entry.field = Fields[at[r]] /\ entry.matched = matched
  BY <1>1 DEF Result, Fill!Field
<1> HIDE DEF entry
<1>3. /\ new \in Seq(Result) /\ Len(new) = Len(old) + 1 /\ new[Len(old) + 1] = entry
      /\ \A i \in 1..Len(old) : new[i] = old[i]
  BY <1>1, <1>2, AppendProperties
<1>4. results' = [results EXCEPT ![r] = new]
  BY DEF Fill!Push, entry
<1> HIDE DEF old, new
<1>5. /\ results' \in [Requests -> Seq(Result)] /\ results'[r] = new
      /\ \A q \in Requests \ {r} : results'[q] = results[q]
  BY <1>3, <1>4 DEF FillInv, FillTyped
<1>6. Len(new) = at[r] /\ \A i \in 1..Len(new) : new[i].field = Fields[i]
  <2>1. Len(new) = at[r]
    BY <1>1, <1>3
  <2>2. ASSUME NEW i \in 1..Len(new)
        PROVE  new[i].field = Fields[i]
    <3>1. CASE i = at[r]
      BY <1>1, <1>2, <1>3, <3>1
    <3>2. CASE i # at[r]
      <4>1. i \in 1..Len(old)
        BY <1>1, <2>1, <3>2
      <4> QED
        BY <1>1, <1>3, <4>1
    <3> QED
      BY <3>1, <3>2
  <2> QED
    BY <2>1, <2>2
<1>7. \/ /\ by[r] = "service" /\ at[r] < Len(Fields)
         /\ at' = [at EXCEPT ![r] = at[r] + 1] /\ pc' = [pc EXCEPT ![r] = "filling"]
      \/ ~(by[r] = "service" /\ at[r] < Len(Fields)) /\ at' = at /\ pc' = [pc EXCEPT ![r] = "ok"]
  BY DEF Fill!Push, Fill!GoesOn, Fill!Goto
<1>8. FillTyped'
  <2>1. at' \in [Requests -> 1..Len(Fields)]
    <3>1. at \in [Requests -> 1..Len(Fields)]
      BY DEF FillInv, FillTyped
    <3>2. at[r] < Len(Fields) => at[r] + 1 \in 1..Len(Fields)
      BY <1>1
    <3> QED
      BY <1>7, <3>1, <3>2
  <2> QED
    BY <1>5, <1>7, <2>1 DEF FillInv, FillTyped, Fill!Places
<1>9. ResultsInOrder(r)'
  BY <1>1, <1>5, <1>6, <1>7 DEF FillInv, FillTyped, ResultsInOrder
<1>10. ASSUME NEW q \in Requests \ {r}
       PROVE  ResultsInOrder(q)'
  <2>1. at'[q] = at[q] /\ pc'[q] = pc[q] /\ by'[q] = by[q] /\ results'[q] = results[q]
    BY <1>5, <1>7 DEF FillInv, FillTyped
  <2> QED
    BY <2>1 DEF FillInv, ResultsInOrder
<1>11. Fill!Last(new) = entry
  BY <1>1, <1>3 DEF Fill!Last
<1> QED
  BY <1>2, <1>5, <1>8, <1>9, <1>10, <1>11 DEF FillInv, Fill!Field

\* A step that adds no result.
LEMMA FillGoes ==
  ASSUME FillInv, NEW r \in Requests, pc[r] \notin {"ok", "error"},
         NEW place \in Fill!Places \ {"ok"}, Fill!Goto(r, place),
         DOMAIN value' = DOMAIN value, UNCHANGED <<by, at, results>>
  PROVE  FillInv'
<1>1. pc' = [pc EXCEPT ![r] = place]
  BY DEF Fill!Goto
<1>2. FillTyped'
  BY <1>1 DEF FillInv, FillTyped
<1>3. ASSUME NEW q \in Requests
      PROVE  ResultsInOrder(q)'
  <2>1. pc'[q] = "ok" <=> pc[q] = "ok"
    BY <1>1 DEF FillInv, FillTyped
  <2> QED
    BY <2>1 DEF FillInv, ResultsInOrder
<1> QED
  BY <1>2, <1>3 DEF FillInv

LEMMA FillTells ==
  ASSUME FillConstants, FillInv, NEW r \in Requests, pc[r] \notin {"ok", "error"},
         NEW matched \in BOOLEAN, NEW warned \in BOOLEAN, Fill!Push(r, matched, warned),
         DOMAIN value' = DOMAIN value, by' = by, matched => value'[Fill!Field(r)] = r
  PROVE  FillInv' /\ Fill!ReportsHeldFields
  BY FillPush DEF Fill!ReportsHeldFields

LEMMA FillKeeps ==
  ASSUME FillInv, NEW r \in Requests, pc[r] \notin {"ok", "error"},
         NEW place \in Fill!Places \ {"ok"}, Fill!Goto(r, place),
         DOMAIN value' = DOMAIN value, UNCHANGED <<by, at, results>>
  PROVE  FillInv' /\ Fill!ReportsHeldFields
  BY FillGoes DEF Fill!ReportsHeldFields

LEMMA FillStep ==
  ASSUME FillConstants, FillInv, [Fill!Next]_(Fill!vars)
  PROVE  FillInv' /\ Fill!ReportsHeldFields
<1> USE DEF Fill!Places
<1>0. \A r \in Requests : Fill!Field(r) \in Fill!Names /\ DOMAIN value = Fill!Names
  BY ElementOfSeq DEF FillConstants, FillInv, FillTyped, Fill!Field
<1>1. ASSUME NEW r \in Requests, Fill!SetChecked(r)
      PROVE  FillInv' /\ Fill!ReportsHeldFields
  <2>1. pc[r] = "filling" /\ by' = by
    BY <1>1 DEF Fill!SetChecked
  <2>2. CASE value' = [value EXCEPT ![Fill!Field(r)] = r] /\ Fill!Push(r, TRUE, FALSE)
    BY <1>0, <2>1, <2>2, FillTells
  <2>3. CASE Fill!Push(r, FALSE, FALSE) /\ UNCHANGED value
    BY <2>1, <2>3, FillTells
  <2> QED
    BY <1>1, <2>2, <2>3 DEF Fill!SetChecked
<1>2. ASSUME NEW r \in Requests, Fill!ReadCurrent(r)
      PROVE  FillInv' /\ Fill!ReportsHeldFields
  <2>1. pc[r] = "reading" /\ UNCHANGED <<by, value>>
    BY <1>2 DEF Fill!ReadCurrent
  <2>2. CASE value[Fill!Field(r)] = r
    <3>1. Fill!Push(r, TRUE, FALSE) /\ value'[Fill!Field(r)] = r
      BY <1>2, <2>1, <2>2 DEF Fill!ReadCurrent
    <3> QED
      BY <2>1, <3>1, FillTells
  <2>3. CASE value[Fill!Field(r)] # r
    <3>1. Fill!Goto(r, "filling") /\ UNCHANGED <<at, results>>
      BY <1>2, <2>3 DEF Fill!ReadCurrent
    <3> QED
      BY <2>1, <3>1, FillKeeps
  <2> QED
    BY <2>2, <2>3
<1>3. ASSUME NEW r \in Requests, Fill!Fill(r)
      PROVE  FillInv' /\ Fill!ReportsHeldFields
  <2>1. pc[r] = "filling" /\ by' = by /\ DOMAIN value' = DOMAIN value
    BY <1>3 DEF Fill!Fill
  <2>2. CASE Fill!Push(r, FALSE, TRUE)
    BY <2>1, <2>2, FillTells
  <2>3. CASE UNCHANGED <<at, results>> /\ \E place \in {"clicking", "verifying"} : Fill!Goto(r, place)
    BY <2>1, <2>3, FillKeeps
  <2> QED
    BY <1>3, <2>2, <2>3 DEF Fill!Fill
<1>4. ASSUME NEW r \in Requests, Fill!Click(r)
      PROVE  FillInv' /\ Fill!ReportsHeldFields
  <2>1. pc[r] = "clicking" /\ UNCHANGED <<by, value, at, results>>
        /\ \E place \in {"error", "typing"} : Fill!Goto(r, place)
    BY <1>4 DEF Fill!Click
  <2> QED
    BY <2>1, FillKeeps
<1>5. ASSUME NEW r \in Requests, Fill!TypeText(r)
      PROVE  FillInv' /\ Fill!ReportsHeldFields
  <2>1. pc[r] = "typing" /\ Fill!Goto(r, "verifying") /\ DOMAIN value' = DOMAIN value
        /\ UNCHANGED <<by, at, results>>
    BY <1>5 DEF Fill!TypeText
  <2> QED
    BY <2>1, FillKeeps
<1>6. ASSUME NEW r \in Requests, Fill!Verify(r)
      PROVE  FillInv' /\ Fill!ReportsHeldFields
  <2>1. pc[r] = "verifying" /\ UNCHANGED <<by, value>>
    BY <1>6 DEF Fill!Verify
  <2>2. CASE by[r] = "service" \/ Fill!Holds(r)
    <3>1. Fill!Push(r, Fill!Holds(r), FALSE)
      BY <1>6, <2>2 DEF Fill!Verify
    <3>2. Fill!Holds(r) \in BOOLEAN /\ (Fill!Holds(r) => value'[Fill!Field(r)] = r)
      BY <2>1 DEF Fill!Holds
    <3> QED
      BY <2>1, <3>1, <3>2, FillTells
  <2>3. CASE ~(by[r] = "service" \/ Fill!Holds(r))
    <3>1. Fill!Goto(r, "clearing") /\ UNCHANGED <<at, results>>
      BY <1>6, <2>3 DEF Fill!Verify
    <3> QED
      BY <2>1, <3>1, FillKeeps
  <2> QED
    BY <2>2, <2>3
<1>7. ASSUME NEW r \in Requests, Fill!Clear(r)
      PROVE  FillInv' /\ Fill!ReportsHeldFields
  <2>1. pc[r] = "clearing" /\ by' = by /\ DOMAIN value' = DOMAIN value
    BY <1>7 DEF Fill!Clear
  <2>2. CASE Fill!Push(r, FALSE, TRUE)
    BY <2>1, <2>2, FillTells
  <2>3. CASE UNCHANGED <<at, results>> /\ Fill!Goto(r, "retyping")
    BY <2>1, <2>3, FillKeeps
  <2> QED
    BY <1>7, <2>2, <2>3 DEF Fill!Clear
<1>8. ASSUME NEW r \in Requests, Fill!Retype(r)
      PROVE  FillInv' /\ Fill!ReportsHeldFields
  <2> DEFINE typed == Fill!Typed(Fill!Field(r), r)
             holds == typed = r
             warned == Fill!WarnedAfter(r, holds)
  <2>1. pc[r] = "retyping" /\ by' = by /\ holds \in BOOLEAN /\ warned \in BOOLEAN
    BY <1>8 DEF Fill!Retype, Fill!WarnedAfter
  <2>2. CASE value' = [value EXCEPT ![Fill!Field(r)] = typed] /\ Fill!Push(r, holds, warned)
    <3>1. DOMAIN value' = DOMAIN value /\ (holds => value'[Fill!Field(r)] = r)
      BY <1>0, <2>2
    <3> HIDE DEF holds, warned
    <3> QED
      BY <2>1, <2>2, <3>1, FillTells
  <2>3. CASE value' = [value EXCEPT ![Fill!Field(r)] = -1] /\ Fill!Push(r, FALSE, TRUE)
    BY <2>1, <2>3, FillTells
  <2> QED
    BY <1>8, <2>2, <2>3 DEF Fill!Retype
<1>9. CASE UNCHANGED Fill!vars
  BY <1>9 DEF Fill!vars, FillInv, FillTyped, ResultsInOrder, Fill!ReportsHeldFields
<1> QED
  BY <1>1, <1>2, <1>3, <1>4, <1>5, <1>6, <1>7, <1>8, <1>9 DEF Fill!Next

LEMMA AllReported ==
  ASSUME FillConstants, FillInv
  PROVE  Fill!EveryFieldReported
<1>1. SUFFICES ASSUME NEW r \in Requests, pc[r] = "ok", by[r] = "service"
               PROVE  [i \in DOMAIN results[r] |-> results[r][i].field] = Fields
  BY DEF Fill!EveryFieldReported
<1>2. /\ results[r] \in Seq(Result) /\ Len(results[r]) = Len(Fields)
      /\ \A i \in 1..Len(results[r]) : results[r][i].field = Fields[i]
  BY <1>1 DEF FillInv, FillTyped, ResultsInOrder
<1>3. DOMAIN results[r] = 1..Len(Fields) /\ Fields \in [1..Len(Fields) -> Fill!Names]
  BY <1>2, LenProperties DEF FillConstants
<1> QED
  BY <1>2, <1>3

\* Other fills may take the focus and type into the fields meanwhile: the service
\* still answers with a result for every field, and whoever reports a field as
\* matched does so while it holds the value.
THEOREM FillsTellTruly == Spec => FillsReportTruly
<1> USE PagesAssumption
<1> DEFINE Held == part = "fill" => FillInv
           All == part = "fill" => Fill!EveryFieldReported
           Tells == part = "fill" => Fill!ReportsHeldFields
<1>1. Init => Held
  BY FillInit DEF Init
<1>2. Held /\ [Next]_vars => Held'
  BY FillPart, FillStep
<1>3. Held /\ [Next]_vars => [Tells]_vars
  BY FillPart, FillStep
<1>4. Held => All
  BY AllReported
<1> HIDE DEF Held, All, Tells
<1>5. Spec => []All /\ [][Tells]_vars
  BY <1>1, <1>2, <1>3, <1>4, PTL DEF Spec
<1> QED
  BY <1>5 DEF FillsReportTruly, All, Tells

-----------------------------------------------------------------------------
(* Sessions: the refs of a snapshot *)

SessionsTyped ==
  /\ sess \in [Targets -> [conn : 0..MaxConnections, refs : Nat]]
  /\ pageRefs \in [Targets \X (1..MaxConnections) -> Nat]
  /\ cache \in Seq(Targets) /\ cacheRefs \in [Targets -> Nat] /\ store \in [Targets -> Nat]
  /\ snaps \in Nat /\ live \in 0..MaxConnections
  /\ DOMAIN pc = SessionRequests /\ tgt \in [SessionRequests -> Targets]
  /\ held \in [SessionRequests -> Nat] /\ refs \in [SessionRequests -> Nat]
  /\ seen \in [SessionRequests -> Nat]

CacheInStore == \A i \in 1..Len(cache) : cacheRefs[cache[i]] = store[cache[i]]

\* The refs an acting request saw stored stay with its page object until the
\* session is forgotten, which happens to closed targets only and for good.
RefsOf(r) ==
  pc[r] = "acting" /\ seen[r] # 0 =>
    /\ held[r] \in 1..MaxConnections
    /\ pageRefs[<<tgt[r], held[r]>>] # 0 \/ (sess[tgt[r]].conn = 0 /\ tgt[r] \notin open)

SessionsInv == SessionsTyped /\ CacheInStore /\ \A r \in SessionRequests : RefsOf(r)

LEMMA SessionsPart ==
  [Next]_vars => part' = part /\ (part = "sessions" => [Sessions!Next]_(Sessions!vars))
  BY DEF Next, Rest, vars, OfSessions, Sessions!vars, Sessions!refvars

LEMMA SessionsInit ==
  ASSUME SessionsConstants, Sessions!Init
  PROVE  SessionsInv
<1>1. SessionsTyped
  BY EmptySeq DEF SessionsConstants, Sessions!Init, Sessions!NoSession, Sessions!Connections, SessionsTyped
<1>2. CacheInStore
  BY EmptySeq DEF Sessions!Init, CacheInStore
<1> QED
  BY <1>1, <1>2 DEF Sessions!Init, SessionsInv, RefsOf

\* Forgetting a key that the cache holds takes out one place and keeps the order.
LEMMA OneRemoved ==
  ASSUME SessionsTyped, NEW t \in Targets, t \in Sessions!ToSet(cache),
         NEW s, s = Sessions!Forgotten(t)
  PROVE  \E k \in 1..Len(cache) :
           /\ s \in Seq(Targets) /\ Len(s) = Len(cache) - 1
           /\ \A i \in 1..Len(cache) - 1 : s[i] = IF i < k THEN cache[i] ELSE cache[i + 1]
<1> DEFINE n == Len(cache)
<1>1. cache \in Seq(Targets) /\ n \in Nat /\ DOMAIN cache = 1..n /\ \A i \in 1..n : cache[i] \in Targets
  BY LenProperties, ElementOfSeq DEF SessionsTyped
<1>2. PICK k \in 1..n : s = SubSeq(cache, 1, k - 1) \o SubSeq(cache, k + 1, n)
  <2> DEFINE at0 == CHOOSE i \in DOMAIN cache : cache[i] = t
  <2>1. at0 \in 1..n
    BY <1>1 DEF Sessions!ToSet
  <2> QED
    BY <2>1 DEF Sessions!Forgotten, Sessions!RemoveAt
<1> DEFINE a == SubSeq(cache, 1, k - 1)
           b == SubSeq(cache, k + 1, n)
<1>3. /\ a \in Seq(Targets) /\ Len(a) = k - 1 /\ \A i \in 1..k - 1 : a[i] = cache[i]
  <2>1. k - 1 \in Int /\ k - 1 \in Nat /\ \A i \in 1..k - 1 : cache[i] \in Targets
    BY <1>1
  <2> QED
    BY <2>1, SubSeqProperties
<1>4. /\ b \in Seq(Targets) /\ Len(b) = n - k /\ \A i \in 1..n - k : b[i] = cache[k + i]
  <2>1. k + 1 \in Int /\ n \in Int /\ \A i \in k + 1..n : cache[i] \in Targets
    BY <1>1
  <2>2. /\ b \in Seq(Targets) /\ Len(b) = IF k + 1 <= n THEN n - (k + 1) + 1 ELSE 0
        /\ \A i \in 1..n - (k + 1) + 1 : b[i] = cache[(k + 1) + i - 1]
    BY <2>1, SubSeqProperties
  <2>3. n - (k + 1) + 1 = n - k /\ (IF k + 1 <= n THEN n - (k + 1) + 1 ELSE 0) = n - k
    <3>1. n \in Nat /\ k \in Nat /\ k <= n
      BY <1>1
    <3> HIDE DEF n
    <3> QED
      BY <3>1
  <2> HIDE DEF b
  <2>4. ASSUME NEW i \in 1..n - k
        PROVE  b[i] = cache[k + i]
    <3>1. (k + 1) + i - 1 = k + i
      BY <1>1
    <3> QED
      BY <2>2, <2>3, <3>1
  <2> QED
    BY <2>2, <2>3, <2>4
<1>5. s = a \o b /\ a \in Seq(Targets) /\ b \in Seq(Targets)
  BY <1>2, <1>3, <1>4
<1> HIDE DEF a, b
<1>6. /\ s \in Seq(Targets) /\ Len(s) = Len(a) + Len(b)
      /\ \A i \in 1..Len(a) + Len(b) : s[i] = IF i <= Len(a) THEN a[i] ELSE b[i - Len(a)]
  BY <1>5, ConcatProperties
<1> HIDE DEF n
<1>7. k \in Nat /\ n \in Nat /\ 1 <= k /\ k <= n
  BY <1>1
<1>8. Len(s) = n - 1
  BY <1>3, <1>4, <1>6, <1>7
<1>9. ASSUME NEW i \in 1..n - 1
      PROVE  s[i] = IF i < k THEN cache[i] ELSE cache[i + 1]
  <2>1. CASE i < k
    BY <1>3, <1>4, <1>6, <1>7, <2>1
  <2>2. CASE ~(i < k)
    <3>1. i - (k - 1) \in 1..n - k /\ k + (i - (k - 1)) = i + 1 /\ ~(i <= k - 1) /\ i \in 1..(k - 1) + (n - k)
      BY <1>7, <2>2
    <3>2. s[i] = b[i - (k - 1)]
      BY <1>3, <1>4, <1>6, <3>1
    <3>3. b[i - (k - 1)] = cache[k + (i - (k - 1))]
      BY <1>4, <3>1
    <3> QED
      BY <2>2, <3>1, <3>2, <3>3
  <2> QED
    BY <2>1, <2>2
<1> QED
  BY <1>6, <1>8, <1>9 DEF n

\* Members of the cache after a key is remembered or forgotten.
LEMMA CacheMembers ==
  ASSUME SessionsTyped, NEW t \in Targets
  PROVE  /\ Sessions!Remembered(t) \in Seq(Targets)
         /\ \A i \in 1..Len(Sessions!Remembered(t)) :
              Sessions!Remembered(t)[i] = t \/ \E j \in 1..Len(cache) : Sessions!Remembered(t)[i] = cache[j]
         /\ Sessions!Forgotten(t) \in Seq(Targets)
         /\ \A i \in 1..Len(Sessions!Forgotten(t)) : \E j \in 1..Len(cache) : Sessions!Forgotten(t)[i] = cache[j]
<1> DEFINE n == Len(cache)
           all == IF t \in Sessions!ToSet(cache) THEN cache ELSE Append(cache, t)
<1>1. cache \in Seq(Targets) /\ n \in Nat /\ DOMAIN cache = 1..n /\ \A i \in 1..n : cache[i] \in Targets
  BY LenProperties, ElementOfSeq DEF SessionsTyped
<1>2. /\ all \in Seq(Targets) /\ Len(all) \in Nat
      /\ \A i \in 1..Len(all) : all[i] = t \/ \E j \in 1..n : all[i] = cache[j]
  <2>1. /\ Append(cache, t) \in Seq(Targets) /\ Len(Append(cache, t)) = n + 1
        /\ Append(cache, t)[n + 1] = t /\ \A i \in 1..n : Append(cache, t)[i] = cache[i]
    BY <1>1, AppendProperties
  <2>2. CASE t \in Sessions!ToSet(cache)
    BY <1>1, <2>2
  <2>3. CASE t \notin Sessions!ToSet(cache)
    BY <1>1, <2>1, <2>3
  <2> QED
    BY <2>2, <2>3
<1>3. Sessions!Remembered(t) = IF Len(all) > MaxCache THEN Tail(all) ELSE all
  BY DEF Sessions!Remembered
<1> HIDE DEF all
<1>4. all # <<>> => /\ Tail(all) \in Seq(Targets) /\ Len(Tail(all)) = Len(all) - 1
                    /\ \A i \in 1..Len(Tail(all)) : Tail(all)[i] = all[i + 1]
  BY <1>2, HeadTailProperties
<1>5. ASSUME NEW s, s = Sessions!Remembered(t)
      PROVE  s \in Seq(Targets) /\ \A i \in 1..Len(s) : s[i] = t \/ \E j \in 1..n : s[i] = cache[j]
  <2>1. CASE s = all
    BY <1>2, <2>1
  <2>2. CASE all # <<>> /\ s = Tail(all)
    <3>1. \A i \in 1..Len(s) : i + 1 \in 1..Len(all) /\ s[i] = all[i + 1]
      BY <1>2, <1>4, <2>2
    <3> QED
      BY <1>2, <1>4, <2>2, <3>1
  <2>3. all # <<>>
    <3>1. CASE t \in Sessions!ToSet(cache)
      BY <1>1, <3>1, EmptySeq DEF all, Sessions!ToSet
    <3>2. CASE t \notin Sessions!ToSet(cache)
      BY <1>1, <3>2, AppendProperties DEF all
    <3> QED
      BY <3>1, <3>2
  <2> QED
    BY <1>3, <1>5, <2>1, <2>2, <2>3
<1>6. ASSUME NEW s, s = Sessions!Forgotten(t)
      PROVE  s \in Seq(Targets) /\ \A i \in 1..Len(s) : \E j \in 1..n : s[i] = cache[j]
  <2>1. CASE t \in Sessions!ToSet(cache)
    <3>1. PICK k \in 1..n : /\ s \in Seq(Targets) /\ Len(s) = n - 1
                            /\ \A i \in 1..n - 1 : s[i] = IF i < k THEN cache[i] ELSE cache[i + 1]
      BY <1>6, <2>1, OneRemoved
    <3>2. ASSUME NEW i \in 1..Len(s)
          PROVE  \E j \in 1..n : s[i] = cache[j]
      <4>1. i \in 1..n - 1 /\ i \in 1..n /\ i + 1 \in 1..n
        BY <1>1, <3>1
      <4> QED
        BY <3>1, <4>1
    <3> QED
      BY <3>1, <3>2
  <2>2. CASE t \notin Sessions!ToSet(cache)
    BY <1>1, <1>6, <2>2 DEF Sessions!Forgotten
  <2> QED
    BY <2>1, <2>2
<1> QED
  BY <1>5, <1>6

\* Restoring refs never takes any away, and finds what the store has.
LEMMA RestoreKeeps ==
  ASSUME SessionsTyped, NEW t \in Targets, NEW c \in 1..MaxConnections
  PROVE  LET restored == Sessions!PageRefsRestored(t, c) IN
           /\ restored \in [Targets \X (1..MaxConnections) -> Nat]
           /\ \A p \in Targets \X (1..MaxConnections) : pageRefs[p] # 0 => restored[p] # 0
           /\ store[t] # 0 => restored[<<t, c>>] # 0
<1> SUFFICES ASSUME NEW g, g = Sessions!PageRefsRestored(t, c)
             PROVE  /\ g \in [Targets \X (1..MaxConnections) -> Nat]
                    /\ \A p \in Targets \X (1..MaxConnections) : pageRefs[p] # 0 => g[p] # 0
                    /\ store[t] # 0 => g[<<t, c>>] # 0
  OBVIOUS
<1> DEFINE P == Targets \X (1..MaxConnections)
           pair == <<t, c>>
<1>1. pageRefs \in [P -> Nat] /\ cacheRefs[t] \in Nat /\ store[t] \in Nat /\ pair \in P
  BY DEF SessionsTyped
<1>2. \/ /\ cacheRefs[t] # 0
         /\ g = [pageRefs EXCEPT ![pair] = IF pageRefs[pair] = 0 THEN cacheRefs[t] ELSE pageRefs[pair]]
      \/ store[t] # 0 /\ g = [pageRefs EXCEPT ![pair] = store[t]]
      \/ store[t] = 0 /\ g = pageRefs
  BY DEF Sessions!PageRefsRestored
<1> HIDE DEF P, pair
<1>3. /\ g \in [P -> Nat] /\ \A p \in P : pageRefs[p] # 0 => g[p] # 0
      /\ store[t] # 0 => g[pair] # 0
  BY <1>1, <1>2
<1> QED
  BY <1>3 DEF P, pair

\* What a request does on the page it found.
LEMMA Proceeds ==
  ASSUME SessionsTyped, NEW r \in SessionRequests, NEW c \in 1..MaxConnections,
         NEW found, found \in [conn : 0..MaxConnections, refs : Nat],
         Sessions!Proceed(r, found, c)
  PROVE  /\ DOMAIN pc' = SessionRequests /\ \A q \in SessionRequests \ {r} : pc'[q] = pc[q]
         /\ pageRefs' \in {pageRefs, Sessions!PageRefsRestored(tgt[r], c)}
         /\ pc'[r] = "acting" => pageRefs' = Sessions!PageRefsRestored(tgt[r], c)
         /\ sess' \in [Targets -> [conn : 0..MaxConnections, refs : Nat]]
         /\ \A t \in Targets \ {tgt[r]} : sess'[t] = sess[t]
         /\ refs' \in [SessionRequests -> Nat]
<1>1. tgt[r] \in Targets /\ store[tgt[r]] \in Nat
  BY DEF SessionsTyped
<1>2. Sessions!EntityRefs(tgt[r], found) \in Nat
  BY <1>1 DEF Sessions!EntityRefs
<1>3. [found EXCEPT !.refs = Sessions!EntityRefs(tgt[r], found)] \in [conn : 0..MaxConnections, refs : Nat]
  BY <1>2
<1>4. PICK s2 \in [conn : 0..MaxConnections, refs : Nat], place \in {"capturing", "ok", "unknown", "acting"} :
        /\ sess' = [sess EXCEPT ![tgt[r]] = s2] /\ pc' = [pc EXCEPT ![r] = place]
        /\ pageRefs' \in {pageRefs, Sessions!PageRefsRestored(tgt[r], c)}
        /\ place = "acting" => pageRefs' = Sessions!PageRefsRestored(tgt[r], c)
        /\ refs' = refs \/ refs' = [refs EXCEPT ![r] = Sessions!EntityRefs(tgt[r], found)]
  <2> USE DEF Sessions!Proceed, Sessions!Become
  <2>1. CASE op[r] = "snapshot"
    BY <2>1
  <2>2. CASE op[r] = "hook"
    BY <2>2
  <2>3. CASE op[r] = "query"
    BY <1>3, <2>3
  <2>4. CASE op[r] \notin {"snapshot", "hook", "query"}
    BY <1>3, <2>4
  <2> QED
    BY <2>1, <2>2, <2>3, <2>4
<1> QED
  BY <1>1, <1>2, <1>4 DEF SessionsTyped

LEMMA PageIsFound ==
  ASSUME SessionsConstants, SessionsInv, NEW r \in SessionRequests, Sessions!PageFound(r)
  PROVE  SessionsInv'
<1> DEFINE t == tgt[r]
<1>1. /\ pc[r] = "paging" /\ seen' = [seen EXCEPT ![r] = store[t]]
      /\ UNCHANGED <<open, cache, cacheRefs, store, snaps, op, tgt>> /\ t \in Targets
      /\ sess[t].conn \in 0..MaxConnections /\ sess[t] \in [conn : 0..MaxConnections, refs : Nat]
  BY DEF SessionsInv, SessionsTyped, Sessions!PageFound
<1>2. \/ /\ pc' = [pc EXCEPT ![r] = "error"] /\ UNCHANGED <<sess, pageRefs, refs>>
         /\ held' \in [SessionRequests -> Nat] /\ live' = live /\ \A q \in SessionRequests \ {r} : held'[q] = held[q]
      \/ \E c \in 1..MaxConnections, found \in [conn : 0..MaxConnections, refs : Nat] :
           /\ Sessions!Proceed(r, found, c) /\ held' = [held EXCEPT ![r] = c]
           /\ live' \in {live, c} /\ (sess[t].conn # 0 \/ t \in open)
  <2>1. CASE held[r] # 0
    <3>1. held' = [held EXCEPT ![r] = sess[t].conn] /\ live' = live
      BY <2>1 DEF Sessions!PageFound
    <3>2. CASE sess[t].conn = 0
      BY <1>1, <2>1, <3>1, <3>2 DEF SessionsInv, SessionsTyped, Sessions!PageFound, Sessions!Become
    <3>3. CASE sess[t].conn # 0
      <4>1. Sessions!Proceed(r, sess[t], sess[t].conn)
        BY <2>1, <3>3 DEF Sessions!PageFound
      <4>2. sess[t].conn \in 1..MaxConnections
        BY <1>1, <3>3
      <4> QED
        BY <1>1, <3>1, <3>3, <4>1, <4>2
    <3> QED
      BY <3>2, <3>3
  <2>2. CASE held[r] = 0 /\ t \notin open
    BY <2>2 DEF SessionsInv, SessionsTyped, Sessions!PageFound, Sessions!Become
  <2>3. CASE held[r] = 0 /\ t \in open
    <3> DEFINE c == IF live # 0 THEN live ELSE made + 1
    <3>1. /\ c \in 1..MaxConnections /\ live' = c /\ held' = [held EXCEPT ![r] = c]
          /\ Sessions!Proceed(r, [conn |-> c, refs |-> 0], c)
      BY <2>3 DEF Sessions!PageFound, Sessions!Connections
    <3> HIDE DEF c
    <3>2. [conn |-> c, refs |-> 0] \in [conn : 0..MaxConnections, refs : Nat]
      BY <3>1
    <3> QED
      BY <2>3, <3>1, <3>2
  <2> QED
    BY <2>1, <2>2, <2>3
<1>3. CASE pc' = [pc EXCEPT ![r] = "error"] /\ UNCHANGED <<sess, pageRefs, refs>>
           /\ held' \in [SessionRequests -> Nat] /\ live' = live /\ \A q \in SessionRequests \ {r} : held'[q] = held[q]
  <2>1. SessionsTyped' /\ CacheInStore'
    BY <1>1, <1>3 DEF SessionsInv, SessionsTyped, CacheInStore
  <2>2. ASSUME NEW q \in SessionRequests
        PROVE  RefsOf(q)'
    <3>1. CASE q = r
      BY <1>3, <3>1 DEF SessionsInv, SessionsTyped, RefsOf
    <3>2. CASE q # r
      <4>1. pc'[q] = pc[q] /\ seen'[q] = seen[q] /\ held'[q] = held[q]
        BY <1>1, <1>3, <3>2 DEF SessionsInv, SessionsTyped
      <4> QED
        BY <1>1, <1>3, <4>1 DEF SessionsInv, RefsOf
    <3> QED
      BY <3>1, <3>2
  <2> QED
    BY <2>1, <2>2 DEF SessionsInv
<1>4. ASSUME NEW c \in 1..MaxConnections, NEW found \in [conn : 0..MaxConnections, refs : Nat],
             Sessions!Proceed(r, found, c), held' = [held EXCEPT ![r] = c],
             live' \in {live, c}, sess[t].conn # 0 \/ t \in open
      PROVE  SessionsInv'
  <2>1. /\ DOMAIN pc' = SessionRequests /\ \A q \in SessionRequests \ {r} : pc'[q] = pc[q]
        /\ pageRefs' \in {pageRefs, Sessions!PageRefsRestored(t, c)}
        /\ pc'[r] = "acting" => pageRefs' = Sessions!PageRefsRestored(t, c)
        /\ sess' \in [Targets -> [conn : 0..MaxConnections, refs : Nat]]
        /\ \A u \in Targets \ {t} : sess'[u] = sess[u]
        /\ refs' \in [SessionRequests -> Nat]
    BY <1>4, Proceeds DEF SessionsInv
  <2>2. /\ pageRefs' \in [Targets \X (1..MaxConnections) -> Nat]
        /\ \A p \in Targets \X (1..MaxConnections) : pageRefs[p] # 0 => pageRefs'[p] # 0
        /\ pc'[r] = "acting" /\ store[t] # 0 => pageRefs'[<<t, c>>] # 0
    <3>1. SessionsTyped /\ pageRefs \in [Targets \X (1..MaxConnections) -> Nat] /\ t \in Targets
      BY <1>1 DEF SessionsInv, SessionsTyped
    <3> DEFINE g == Sessions!PageRefsRestored(t, c)
    <3>2. /\ g \in [Targets \X (1..MaxConnections) -> Nat]
          /\ \A p \in Targets \X (1..MaxConnections) : pageRefs[p] # 0 => g[p] # 0
          /\ store[t] # 0 => g[<<t, c>>] # 0
      BY <3>1, RestoreKeeps
    <3>3. pageRefs' \in {pageRefs, g} /\ (pc'[r] = "acting" => pageRefs' = g)
      BY <2>1
    <3> HIDE DEF g
    <3> QED
      BY <3>1, <3>2, <3>3
  <2>3. SessionsTyped' /\ CacheInStore'
    <3>1. SessionsTyped /\ CacheInStore
      BY DEF SessionsInv
    <3>2. /\ held' \in [SessionRequests -> Nat] /\ seen' \in [SessionRequests -> Nat]
          /\ live' \in 0..MaxConnections
      BY <1>1, <1>4, <3>1 DEF SessionsTyped
    <3>3. SessionsTyped'
      BY <1>1, <2>1, <2>2, <3>1, <3>2 DEF SessionsTyped
    <3> QED
      BY <1>1, <3>1, <3>3 DEF CacheInStore
  <2>4. ASSUME NEW q \in SessionRequests
        PROVE  RefsOf(q)'
    <3>1. CASE q = r
      <4>1. held'[r] = c /\ seen'[r] = store[t] /\ tgt' = tgt
        BY <1>1, <1>4 DEF SessionsInv, SessionsTyped
      <4> QED
        BY <1>4, <2>2, <3>1, <4>1 DEF RefsOf
    <3>2. CASE q # r
      <4>1. /\ pc'[q] = pc[q] /\ seen'[q] = seen[q] /\ held'[q] = held[q] /\ tgt'[q] = tgt[q] /\ open' = open
            /\ tgt[q] \in Targets
        BY <1>1, <1>4, <2>1, <3>2 DEF SessionsInv, SessionsTyped
      <4>2. sess[tgt[q]].conn = 0 /\ tgt[q] \notin open => sess'[tgt[q]].conn = 0
        BY <1>4, <2>1, <4>1
      <4> QED
        BY <2>2, <4>1, <4>2 DEF SessionsInv, RefsOf
    <3> QED
      BY <3>1, <3>2
  <2> QED
    BY <2>3, <2>4 DEF SessionsInv
<1> QED
  BY <1>2, <1>3, <1>4

\* Refs are stored in the cache and the store together; of the sessions, only the
\* refs of one that is there change.
LEMMA RefsStored ==
  ASSUME SessionsInv, NEW r \in SessionRequests, NEW n \in Nat, Sessions!StoreRoleRefs(r, n),
         snaps' \in Nat, UNCHANGED <<live, open, pageRefs, tgt, held, refs, seen>>
  PROVE  SessionsInv'
<1> DEFINE t == tgt[r]
<1>1. SessionsTyped /\ CacheInStore /\ t \in Targets
  BY DEF SessionsInv, SessionsTyped
<1>2. CASE sess[t].conn = 0
  <2>1. pc' = [pc EXCEPT ![r] = "error"] /\ UNCHANGED <<sess, cache, cacheRefs, store>>
    BY <1>2 DEF Sessions!StoreRoleRefs, Sessions!Become
  <2>2. SessionsTyped' /\ CacheInStore'
    BY <1>1, <2>1 DEF SessionsTyped, CacheInStore
  <2> QED
    BY <1>1, <2>1, <2>2 DEF SessionsInv, SessionsTyped, RefsOf
<1>3. CASE sess[t].conn # 0
  <2>1. /\ pc' = [pc EXCEPT ![r] = "ok"] /\ sess' = [sess EXCEPT ![t] = [sess[t] EXCEPT !.refs = n]]
        /\ cache' = Sessions!Remembered(t) /\ cacheRefs' = [cacheRefs EXCEPT ![t] = n]
        /\ store' = [store EXCEPT ![t] = n]
    BY <1>3 DEF Sessions!StoreRoleRefs, Sessions!Become, Sessions!Stored
  <2>2. /\ cache' \in Seq(Targets)
        /\ \A i \in 1..Len(cache') : cache'[i] = t \/ \E j \in 1..Len(cache) : cache'[i] = cache[j]
    BY <1>1, <2>1, CacheMembers
  <2>3. /\ sess' \in [Targets -> [conn : 0..MaxConnections, refs : Nat]]
        /\ \A u \in Targets : sess'[u].conn = sess[u].conn
    <3>1. sess[t] \in [conn : 0..MaxConnections, refs : Nat]
      BY <1>1 DEF SessionsTyped
    <3>2. /\ [sess[t] EXCEPT !.refs = n] \in [conn : 0..MaxConnections, refs : Nat]
          /\ [sess[t] EXCEPT !.refs = n].conn = sess[t].conn
      BY <3>1
    <3> QED
      BY <1>1, <2>1, <3>2 DEF SessionsTyped
  <2>4. SessionsTyped'
    BY <1>1, <2>1, <2>2, <2>3 DEF SessionsTyped
  <2>5. ASSUME NEW i \in 1..Len(cache')
        PROVE  cacheRefs'[cache'[i]] = store'[cache'[i]]
    <3>1. cache'[i] \in Targets
      BY <2>2, ElementOfSeq
    <3>2. CASE cache'[i] = t
      BY <1>1, <2>1, <3>2 DEF SessionsTyped
    <3>3. CASE cache'[i] # t
      <4>1. cacheRefs'[cache'[i]] = cacheRefs[cache'[i]] /\ store'[cache'[i]] = store[cache'[i]]
        BY <1>1, <2>1, <3>1, <3>3 DEF SessionsTyped
      <4> QED
        BY <1>1, <2>2, <3>3, <4>1 DEF CacheInStore
    <3> QED
      BY <3>2, <3>3
  <2>6. ASSUME NEW q \in SessionRequests
        PROVE  RefsOf(q)'
    <3>1. pc'[q] = "acting" => pc[q] = "acting"
      BY <1>1, <2>1 DEF SessionsTyped
    <3>2. tgt[q] \in Targets
      BY <1>1 DEF SessionsTyped
    <3> QED
      BY <2>3, <3>1, <3>2 DEF SessionsInv, RefsOf
  <2> QED
    BY <2>4, <2>5, <2>6 DEF SessionsInv, CacheInStore
<1> QED
  BY <1>2, <1>3

\* A step of one request that changes nothing else.
LEMMA OnlyItsPlace ==
  ASSUME SessionsInv, NEW r \in SessionRequests,
         NEW place \in {"paging", "closing", "error", "ok"}, pc' = [pc EXCEPT ![r] = place],
         pc[r] \notin {"acting"} \/ held' = held,
         held' \in [SessionRequests -> Nat], \A q \in SessionRequests \ {r} : held'[q] = held[q],
         UNCHANGED <<live, open, sess, pageRefs, cache, cacheRefs, store, snaps, tgt, refs, seen>>
  PROVE  SessionsInv'
<1>1. SessionsTyped' /\ CacheInStore'
  BY DEF SessionsInv, SessionsTyped, CacheInStore
<1>2. ASSUME NEW q \in SessionRequests
      PROVE  RefsOf(q)'
  <2>1. pc'[q] = "acting" => q # r /\ pc[q] = "acting" /\ held'[q] = held[q]
    BY DEF SessionsInv, SessionsTyped
  <2> QED
    BY <2>1 DEF SessionsInv, RefsOf
<1> QED
  BY <1>1, <1>2 DEF SessionsInv

\* Only a closed target's session is forgotten, and then for good.
LEMMA SessionForgotten ==
  ASSUME SessionsConstants, SessionsInv, NEW r \in SessionRequests, Sessions!ForgetSession(r)
  PROVE  SessionsInv'
<1> DEFINE t == tgt[r]
<1>1. /\ SessionsTyped /\ CacheInStore /\ t \in Targets /\ t \notin open
      /\ pc' = [pc EXCEPT ![r] = "ok"]
      /\ UNCHANGED <<live, made, open, cacheRefs, store, snaps, op, tgt, held, refs, seen>>
  BY DEF SessionsInv, SessionsTyped, Sessions!ForgetSession, Sessions!Become
<1>2. CASE sess[t].conn = 0
  <2>1. UNCHANGED <<sess, pageRefs, cache>>
    BY <1>2 DEF Sessions!ForgetSession
  <2>2. held' \in [SessionRequests -> Nat]
    BY <1>1 DEF SessionsTyped
  <2> QED
    BY <1>1, <2>1, <2>2, OnlyItsPlace
<1>3. CASE sess[t].conn # 0
  <2>1. /\ sess' = [sess EXCEPT ![t] = Sessions!NoSession]
        /\ pageRefs' = [pageRefs EXCEPT ![<<t, sess[t].conn>>] = 0] /\ cache' = Sessions!Forgotten(t)
    BY <1>3 DEF Sessions!ForgetSession
  <2>2. /\ cache' \in Seq(Targets)
        /\ \A i \in 1..Len(cache') : \E j \in 1..Len(cache) : cache'[i] = cache[j]
    BY <1>1, <2>1, CacheMembers
  <2>3. /\ sess' \in [Targets -> [conn : 0..MaxConnections, refs : Nat]]
        /\ sess'[t].conn = 0 /\ \A u \in Targets \ {t} : sess'[u] = sess[u]
    BY <1>1, <2>1 DEF SessionsConstants, SessionsTyped, Sessions!NoSession
  <2>4. /\ pageRefs' \in [Targets \X (1..MaxConnections) -> Nat]
        /\ \A u \in Targets \ {t}, c \in 1..MaxConnections : pageRefs'[<<u, c>>] = pageRefs[<<u, c>>]
    BY <1>1, <2>1 DEF SessionsTyped
  <2>5. SessionsTyped' /\ CacheInStore'
    <3>1. SessionsTyped'
      BY <1>1, <2>2, <2>3, <2>4 DEF SessionsTyped
    <3>2. ASSUME NEW i \in 1..Len(cache')
          PROVE  cacheRefs'[cache'[i]] = store'[cache'[i]]
      <4>1. PICK j \in 1..Len(cache) : cache'[i] = cache[j]
        BY <2>2
      <4> QED
        BY <1>1, <4>1 DEF CacheInStore
    <3> QED
      BY <3>1, <3>2 DEF CacheInStore
  <2>6. ASSUME NEW q \in SessionRequests
        PROVE  RefsOf(q)'
    <3>1. tgt[q] \in Targets /\ (pc'[q] = "acting" => pc[q] = "acting")
      BY <1>1 DEF SessionsTyped
    <3>2. RefsOf(q)
      BY DEF SessionsInv
    <3>3. CASE tgt[q] = t
      BY <1>1, <2>3, <3>1, <3>2, <3>3 DEF RefsOf
    <3>4. CASE tgt[q] # t
      <4>1. sess'[tgt[q]] = sess[tgt[q]]
        BY <2>3, <3>1, <3>4
      <4>2. held[q] \in 1..MaxConnections => pageRefs'[<<tgt[q], held[q]>>] = pageRefs[<<tgt[q], held[q]>>]
        BY <2>4, <3>1, <3>4
      <4> QED
        BY <1>1, <3>1, <3>2, <4>1, <4>2 DEF RefsOf
    <3> QED
      BY <3>3, <3>4
  <2> QED
    BY <2>5, <2>6 DEF SessionsInv
<1> QED
  BY <1>2, <1>3

LEMMA SessionsStep ==
  ASSUME SessionsConstants, SessionsInv, [Sessions!Next]_(Sessions!vars)
  PROVE  SessionsInv'
<1>0. SessionsTyped
  BY DEF SessionsInv
<1>1. ASSUME NEW r \in SessionRequests, Sessions!Begin(r)
      PROVE  SessionsInv'
  <2>1. /\ pc[r] = "idle" /\ \E place \in {"closing", "paging", "error"} : pc' = [pc EXCEPT ![r] = place]
        /\ UNCHANGED <<live, open, sess, pageRefs, cache, cacheRefs, store, snaps, tgt, refs, seen>>
    BY <1>1 DEF Sessions!Begin, Sessions!Become, Sessions!refvars
  <2>2. held' = held \/ held' = [held EXCEPT ![r] = sess[tgt[r]].conn]
    BY <1>1 DEF Sessions!Begin
  <2>3. sess[tgt[r]].conn \in Nat
    BY <1>0 DEF SessionsConstants, SessionsTyped
  <2>4. held' \in [SessionRequests -> Nat] /\ \A q \in SessionRequests \ {r} : held'[q] = held[q]
    BY <1>0, <2>2, <2>3 DEF SessionsTyped
  <2> QED
    BY <2>1, <2>4, OnlyItsPlace
<1>2. ASSUME NEW r \in SessionRequests, Sessions!CaptureReturns(r)
      PROVE  SessionsInv'
  <2>1. pc[r] = "capturing" /\ UNCHANGED <<live, open, pageRefs, tgt, held, refs, seen>>
    BY <1>2 DEF Sessions!CaptureReturns
  <2>2. CASE snaps' = snaps + 1 /\ Sessions!StoreRoleRefs(r, snaps + 1)
    <3>1. snaps + 1 \in Nat
      BY <1>0 DEF SessionsTyped
    <3> DEFINE n == snaps + 1
    <3>2. n \in Nat /\ snaps' \in Nat /\ Sessions!StoreRoleRefs(r, n)
      BY <2>2, <3>1
    <3> HIDE DEF n
    <3> QED
      BY <2>1, <3>2, RefsStored
  <2>3. CASE pc' = [pc EXCEPT ![r] = "error"] /\ UNCHANGED <<sess, cache, cacheRefs, store, snaps>>
    <3>1. held' \in [SessionRequests -> Nat]
      BY <1>0, <2>1 DEF SessionsTyped
    <3> QED
      BY <2>1, <2>3, <3>1, OnlyItsPlace
  <2> QED
    BY <1>2, <2>2, <2>3 DEF Sessions!CaptureReturns, Sessions!Become
<1>3. ASSUME NEW r \in SessionRequests, Sessions!ActReturns(r)
      PROVE  SessionsInv'
  <2>1. UNCHANGED <<live, open, pageRefs, snaps, tgt, held, refs, seen>>
    BY <1>3 DEF Sessions!ActReturns
  <2>2. refs[r] \in Nat /\ snaps' \in Nat /\ held' \in [SessionRequests -> Nat]
    BY <1>0, <2>1 DEF SessionsTyped
  <2>3. CASE Sessions!StoreRoleRefs(r, refs[r])
    <3> DEFINE n == refs[r]
    <3>1. n \in Nat /\ Sessions!StoreRoleRefs(r, n)
      BY <2>2, <2>3
    <3> HIDE DEF n
    <3> QED
      BY <2>1, <2>2, <3>1, RefsStored
  <2>4. CASE UNCHANGED <<sess, cache, cacheRefs, store>>
             /\ \E place \in {"ok", "error"} : pc' = [pc EXCEPT ![r] = place]
    BY <2>1, <2>2, <2>4, OnlyItsPlace
  <2> QED
    BY <1>3, <2>3, <2>4 DEF Sessions!ActReturns, Sessions!Become
<1>4. ASSUME NEW r \in SessionRequests, Sessions!PageCloses(r)
      PROVE  SessionsInv'
  <2>1. /\ open' = open \ {tgt[r]}
        /\ UNCHANGED <<live, sess, pageRefs, cache, cacheRefs, store, snaps, pc, tgt, held, refs, seen>>
    BY <1>4 DEF Sessions!PageCloses, Sessions!refvars
  <2> QED
    BY <2>1 DEF SessionsInv, SessionsTyped, CacheInStore, RefsOf
<1>5. CASE Sessions!ConnectionDrops \/ UNCHANGED Sessions!vars
  <2>1. live' \in 0..MaxConnections
        /\ UNCHANGED <<open, sess, pageRefs, cache, cacheRefs, store, snaps, pc, tgt, held, refs, seen>>
    BY <1>0, <1>5 DEF SessionsConstants, SessionsTyped, Sessions!ConnectionDrops, Sessions!vars, Sessions!refvars
  <2> QED
    BY <2>1 DEF SessionsInv, SessionsTyped, CacheInStore, RefsOf
<1> QED
  BY <1>1, <1>2, <1>3, <1>4, <1>5, PageIsFound, SessionForgotten DEF Sessions!Next

\* The cache may evict a target, other requests may replace or forget its session
\* and the connection may drop: a request that acts on a page whose refs were
\* stored when it found the page still finds them, and the cache never disagrees
\* with the store.
THEOREM RefsAreFound == Spec => []RefsStayFound
<1> USE PagesAssumption
<1> DEFINE Held == part = "sessions" => SessionsInv
<1>1. Init => Held
  BY SessionsInit DEF Init
<1>2. Held /\ [Next]_vars => Held'
  BY SessionsPart, SessionsStep
<1>3. ASSUME SessionsInv
      PROVE  Sessions!ActionsFindRefs /\ Sessions!CacheAgreesWithStore
  <2>1. ASSUME NEW r \in SessionRequests, pc[r] = "acting", seen[r] # 0, sess[tgt[r]].conn = held[r]
        PROVE  Sessions!Resolves(tgt[r], pageRefs)
    <3>1. /\ held[r] \in 1..MaxConnections
          /\ pageRefs[<<tgt[r], held[r]>>] # 0 \/ (sess[tgt[r]].conn = 0 /\ tgt[r] \notin open)
      BY <1>3, <2>1, Zenon DEF SessionsInv, RefsOf
    <3>2. held[r] # 0
      BY <3>1
    <3> QED
      BY <2>1, <3>1, <3>2, Zenon DEF Sessions!Resolves
  <2>2. DOMAIN cache = 1..Len(cache)
    BY <1>3, LenProperties DEF SessionsInv, SessionsTyped
  <2>3. Sessions!CacheAgreesWithStore
    BY <1>3, <2>2 DEF SessionsInv, CacheInStore, Sessions!CacheAgreesWithStore, Sessions!ToSet
  <2> QED
    BY <2>1, <2>3 DEF Sessions!ActionsFindRefs
<1>4. Held => RefsStayFound
  BY <1>3 DEF RefsStayFound
<1> HIDE DEF Held
<1> QED
  BY <1>1, <1>2, <1>4, PTL DEF Spec

-----------------------------------------------------------------------------
(* DOM observation: one observer for all discoveries of a page *)

DomTyped ==
  /\ appeared \in 0..MaxElements /\ added \in Seq(1..MaxElements)
  /\ DOMAIN pc = Requests /\ since \in [Requests -> 0..MaxElements]
  /\ DOMAIN alone = Requests /\ DOMAIN options = Requests

\* Whoever has started an observation finds only later elements, and one that
\* nobody disturbed finds all of them.
Observes(r) ==
  /\ since[r] <= appeared
  /\ pc[r] \in {"triggering", "waiting"} =>
       /\ \A i \in 1..Len(added) : added[i] > since[r]
       /\ alone[r] => /\ observer = "on" /\ Len(added) = appeared - since[r]
                      /\ \A i \in 1..Len(added) : added[i] = since[r] + i
  /\ pc[r] = "done" => \A e \in options[r] : e > since[r]

DomInv == DomTyped /\ \A r \in Requests : Observes(r)

LEMMA DomPart ==
  [Next]_vars => part' = part /\ (part = "dom" => [Dom!Next]_(Dom!vars))
  BY DEF Next, Rest, vars, OfDom, Dom!vars

LEMMA DomInit ==
  ASSUME DomConstants, Dom!Init
  PROVE  DomInv
<1>1. added \in Seq(1..MaxElements)
  BY EmptySeq DEF Dom!Init
<1> QED
  BY <1>1 DEF DomConstants, Dom!Init, DomInv, DomTyped, Observes

\* What is reported are elements of the list, the first ones of it.
LEMMA ReportedFirst ==
  ASSUME DomConstants, DomInv
  PROVE  \A e : e \in Dom!ToSet(Dom!Reported)
                  <=> \E i \in 1..Len(added) : i <= MaxReported /\ e = added[i]
<1> DEFINE n == Len(added)
           k == IF n < MaxReported THEN n ELSE MaxReported
<1>1. added \in Seq(1..MaxElements) /\ n \in Nat /\ k \in Nat /\ k <= n /\ MaxReported \in Nat
  BY LenProperties DEF DomConstants, DomInv, DomTyped
<1>2. \A i \in 1..k : added[i] \in 1..MaxElements
  <2>1. \A i \in 1..n : added[i] \in 1..MaxElements
    BY <1>1, ElementOfSeq
  <2> HIDE DEF k
  <2> QED
    BY <1>1, <2>1
<1>3. \A i \in 1..n : i <= MaxReported <=> i \in 1..k
  BY <1>1
<1>4. Dom!Reported = SubSeq(added, 1, k)
  BY DEF Dom!Reported
<1> HIDE DEF k
<1> DEFINE s == SubSeq(added, 1, k)
<1>5. /\ s \in Seq(1..MaxElements) /\ Len(s) = IF 1 <= k THEN k - 1 + 1 ELSE 0
      /\ \A i \in 1..k - 1 + 1 : s[i] = added[1 + i - 1]
  BY <1>1, <1>2, SubSeqProperties
<1> HIDE DEF s
<1>6. DOMAIN s = 1..Len(s)
  BY <1>5, LenProperties
<1>7. DOMAIN s = 1..k /\ \A i \in 1..k : s[i] = added[i]
  <2>1. k - 1 + 1 = k /\ Len(s) = k
    BY <1>1, <1>5
  <2>2. ASSUME NEW i \in 1..k
        PROVE  s[i] = added[i]
    <3>1. 1 + i - 1 = i
      BY <1>1
    <3> QED
      BY <1>5, <2>1, <3>1
  <2> QED
    BY <1>6, <2>1, <2>2
<1>8. Dom!ToSet(Dom!Reported) = {s[i] : i \in 1..k}
  BY <1>4, <1>7 DEF Dom!ToSet, s
<1>9. {s[i] : i \in 1..k} = {added[i] : i \in 1..k}
  BY <1>7
<1> HIDE DEF n
<1>10. \A e : e \in {added[i] : i \in 1..k} <=> \E i \in 1..n : i <= MaxReported /\ e = added[i]
  <2>1. \A i \in 1..k : i \in 1..n
    BY <1>1
  <2> QED
    BY <1>3, <2>1
<1> QED
  BY <1>8, <1>9, <1>10, Zenon DEF n

LEMMA DomStep ==
  ASSUME DomConstants, DomInv, [Dom!Next]_(Dom!vars)
  PROVE  DomInv'
<1> USE DEF Dom!Become
<1>0. /\ appeared \in 0..MaxElements /\ MaxElements \in Nat /\ since \in [Requests -> 0..MaxElements]
      /\ added \in Seq(1..MaxElements) /\ Len(added) \in Nat
      /\ DOMAIN pc = Requests /\ DOMAIN alone = Requests /\ DOMAIN options = Requests
  BY LenProperties DEF DomConstants, DomInv, DomTyped
<1>1. ASSUME NEW r \in Requests, Dom!Begin(r) \/ Dom!Trigger(r)
      PROVE  DomInv'
  <2>1. /\ \E place \in {"injecting", "error", "waiting"} :
             pc' = [pc EXCEPT ![r] = place] /\ (place = "waiting" => pc[r] = "triggering")
        /\ UNCHANGED <<observer, added, appeared, text, round, since, alone, options>>
    BY <1>1 DEF Dom!Begin, Dom!Trigger
  <2>2. \A q \in Requests : /\ pc'[q] \in {"triggering", "waiting"} => pc[q] \in {"triggering", "waiting"}
                            /\ pc'[q] = "done" => pc[q] = "done"
    BY <1>0, <2>1
  <2> QED
    BY <1>0, <2>1, <2>2 DEF DomInv, DomTyped, Observes
<1>2. ASSUME NEW r \in Requests, Dom!Inject(r)
      PROVE  DomInv'
  <2>1. /\ added' = <<>> /\ pc' = [pc EXCEPT ![r] = "starting"]
        /\ alone' = [q \in Requests |-> q = r /\ alone[q]]
        /\ UNCHANGED <<appeared, text, round, since, options>>
    BY <1>2 DEF Dom!Inject, Dom!Disturb
  <2>2. added' \in Seq(1..MaxElements) /\ Len(added') = 0
    BY <2>1, EmptySeq
  <2>3. \A q \in Requests : /\ pc'[q] \in {"triggering", "waiting"} => q # r /\ ~alone'[q]
                            /\ pc'[q] = "done" => pc[q] = "done"
    BY <1>0, <2>1
  <2> QED
    BY <1>0, <2>1, <2>2, <2>3 DEF DomInv, DomTyped, Observes
<1>3. ASSUME NEW r \in Requests, Dom!Start(r)
      PROVE  DomInv'
  <2>1. CASE observer = "lost"
    <3>1. /\ pc' = [pc EXCEPT ![r] = "error"]
          /\ UNCHANGED <<observer, added, appeared, since, alone, options>>
      BY <1>3, <2>1 DEF Dom!Start
    <3>2. \A q \in Requests : /\ pc'[q] \in {"triggering", "waiting"} => pc[q] \in {"triggering", "waiting"}
                              /\ pc'[q] = "done" => pc[q] = "done"
      BY <1>0, <3>1
    <3> QED
      BY <1>0, <3>1, <3>2 DEF DomInv, DomTyped, Observes
  <2>2. CASE observer # "lost"
    <3>1. /\ observer' = "on" /\ added' = <<>> /\ since' = [since EXCEPT ![r] = appeared]
          /\ alone' = [q \in Requests |-> q = r] /\ pc' = [pc EXCEPT ![r] = "triggering"]
          /\ UNCHANGED <<appeared, options>>
      BY <1>3, <2>2 DEF Dom!Start, Dom!Emptied
    <3>2. added' \in Seq(1..MaxElements) /\ Len(added') = 0
      BY <3>1, EmptySeq
    <3>3. since' \in [Requests -> 0..MaxElements] /\ since'[r] = appeared
      BY <1>0, <3>1
    <3>4. \A q \in Requests \ {r} : since'[q] = since[q] /\ pc'[q] = pc[q] /\ ~alone'[q]
      BY <1>0, <3>1
    <3>5. pc'[r] = "triggering" /\ appeared - since'[r] = 0
      BY <1>0, <3>1, <3>3
    <3>6. DomTyped'
      BY <1>0, <3>1, <3>2, <3>3 DEF DomTyped
    <3>7. Observes(r)'
      BY <1>0, <3>1, <3>2, <3>3, <3>5 DEF Observes
    <3>8. ASSUME NEW q \in Requests \ {r}
          PROVE  Observes(q)'
      BY <1>0, <3>1, <3>2, <3>4 DEF DomInv, Observes
    <3> QED
      BY <3>6, <3>7, <3>8 DEF DomInv
  <2> QED
    BY <2>1, <2>2
<1>4. ASSUME NEW r \in Requests, Dom!Stop(r)
      PROVE  DomInv'
  <2>1. pc[r] = "waiting" /\ UNCHANGED <<added, appeared, since>>
    BY <1>4 DEF Dom!Stop
  <2>2. CASE observer = "lost"
    <3>1. pc' = [pc EXCEPT ![r] = "error"] /\ UNCHANGED <<observer, alone, options>>
      BY <1>4, <2>2 DEF Dom!Stop
    <3>2. \A q \in Requests : /\ pc'[q] \in {"triggering", "waiting"} => pc[q] \in {"triggering", "waiting"}
                              /\ pc'[q] = "done" => pc[q] = "done"
      BY <1>0, <3>1
    <3> QED
      BY <1>0, <2>1, <3>1, <3>2 DEF DomInv, DomTyped, Observes
  <2>3. CASE observer # "lost"
    <3>1. /\ alone' = [q \in Requests |-> q = r /\ alone[q]]
          /\ \/ pc' = [pc EXCEPT ![r] = "injecting"] /\ UNCHANGED options
             \/ /\ pc' = [pc EXCEPT ![r] = "done"]
                /\ options' = [options EXCEPT ![r] = Dom!ToSet(Dom!Reported) \cap Usable]
      BY <1>4, <2>3 DEF Dom!Stop, Dom!Disturb
    <3>2. pc'[r] \notin {"triggering", "waiting"}
      BY <1>0, <3>1
    <3>3. pc'[r] = "done" => \A e \in options'[r] : e > since[r]
      <4>1. \A e \in Dom!ToSet(Dom!Reported) : e > since[r]
        BY <2>1, ReportedFirst DEF DomInv, Observes
      <4> QED
        BY <1>0, <3>1, <4>1
    <3>4. \A q \in Requests \ {r} : pc'[q] = pc[q] /\ ~alone'[q] /\ options'[q] = options[q]
      BY <1>0, <3>1
    <3>5. DomTyped'
      BY <1>0, <2>1, <3>1 DEF DomTyped
    <3>6. Observes(r)'
      BY <2>1, <3>2, <3>3 DEF DomInv, Observes
    <3>7. ASSUME NEW q \in Requests \ {r}
          PROVE  Observes(q)'
      BY <2>1, <3>4 DEF DomInv, Observes
    <3> QED
      BY <3>5, <3>6, <3>7 DEF DomInv
  <2> QED
    BY <2>2, <2>3
<1>5. CASE Dom!Appear
  <2>1. /\ appeared < MaxElements /\ appeared' = appeared + 1
        /\ added' = IF observer = "on" THEN Append(added, appeared + 1) ELSE added
        /\ UNCHANGED <<observer, text, pc, round, since, alone, options>>
    BY <1>5 DEF Dom!Appear
  <2>2. CASE observer = "on"
    <3> DEFINE e == appeared + 1
               N == 1..MaxElements
    <3>1. e \in N
      BY <1>0, <2>1
    <3>2. /\ added' \in Seq(N) /\ Len(added') = Len(added) + 1 /\ added'[Len(added) + 1] = e
          /\ \A i \in 1..Len(added) : added'[i] = added[i]
      <4>1. added \in Seq(N) /\ added' = Append(added, e)
        BY <1>0, <2>1, <2>2
      <4> HIDE DEF e, N
      <4> QED
        BY <3>1, <4>1, AppendProperties
    <3>3. DomTyped'
      BY <1>0, <2>1, <3>2 DEF DomTyped
    <3>4. ASSUME NEW r \in Requests
          PROVE  Observes(r)'
      <4>1. Observes(r) /\ since[r] \in Nat
        BY <1>0 DEF DomInv
      <4>2. since[r] <= appeared' /\ (pc[r] = "done" => \A x \in options[r] : x > since[r])
        BY <1>0, <2>1, <4>1 DEF Observes
      <4>3. ASSUME pc[r] \in {"triggering", "waiting"}, NEW i \in 1..Len(added')
            PROVE  added'[i] > since[r]
        BY <1>0, <3>2, <4>1, <4>3 DEF Observes
      <4>4. ASSUME pc[r] \in {"triggering", "waiting"}, alone[r]
            PROVE  /\ Len(added') = appeared' - since[r]
                   /\ \A i \in 1..Len(added') : added'[i] = since[r] + i
        <5>1. Len(added) = appeared - since[r] /\ \A i \in 1..Len(added) : added[i] = since[r] + i
          BY <4>1, <4>4 DEF Observes
        <5> QED
          BY <1>0, <2>1, <3>2, <4>1, <5>1
      <4> QED
        BY <2>1, <2>2, <4>2, <4>3, <4>4 DEF Observes
    <3> QED
      BY <3>3, <3>4 DEF DomInv
  <2>3. CASE observer # "on"
    <3>1. DomTyped'
      BY <1>0, <2>1, <2>3 DEF DomTyped
    <3>2. ASSUME NEW r \in Requests
          PROVE  Observes(r)'
      <4>1. Observes(r) /\ since[r] <= appeared'
        BY <1>0, <2>1 DEF DomInv, Observes
      <4> QED
        BY <2>1, <2>3, <4>1 DEF Observes
    <3> QED
      BY <3>1, <3>2 DEF DomInv
  <2> QED
    BY <2>2, <2>3
<1>6. CASE Dom!Navigate
  <2>1. /\ added' = <<>> /\ alone' = [r \in Requests |-> FALSE]
        /\ UNCHANGED <<appeared, text, pc, round, since, options>>
    BY <1>6 DEF Dom!Navigate
  <2>2. added' \in Seq(1..MaxElements) /\ Len(added') = 0 /\ \A q \in Requests : ~alone'[q]
    BY <2>1, EmptySeq
  <2> QED
    BY <1>0, <2>1, <2>2 DEF DomInv, DomTyped, Observes
<1>7. CASE UNCHANGED Dom!vars
  BY <1>7 DEF Dom!vars, DomInv, DomTyped, Observes
<1> QED
  BY <1>1, <1>2, <1>3, <1>4, <1>5, <1>6, <1>7 DEF Dom!Next

LEMMA ReportsAll ==
  ASSUME DomConstants, DomInv, [Dom!Next]_(Dom!vars)
  PROVE  Dom!ReportsWhatAppeared
<1>1. SUFFICES ASSUME NEW r \in Requests, pc[r] = "waiting", pc'[r] = "done", alone[r],
                      NEW e \in Usable, since[r] < e, e <= appeared, e <= since[r] + MaxReported
               PROVE  e \in options'[r]
  BY DEF Dom!ReportsWhatAppeared
<1>2. /\ appeared \in Nat /\ since[r] \in Nat /\ e \in Nat /\ MaxReported \in Nat
      /\ DOMAIN pc = Requests /\ DOMAIN options = Requests
      /\ Len(added) = appeared - since[r] /\ \A i \in 1..Len(added) : added[i] = since[r] + i
  BY <1>1 DEF DomConstants, DomInv, DomTyped, Observes
<1>3. e \in Dom!ToSet(Dom!Reported)
  <2>1. e - since[r] \in 1..Len(added) /\ e - since[r] <= MaxReported /\ since[r] + (e - since[r]) = e
    BY <1>1, <1>2
  <2>2. e = added[e - since[r]]
    BY <1>2, <2>1
  <2> QED
    BY <2>1, <2>2, ReportedFirst
<1>4. ASSUME NEW q \in Requests, Dom!Stop(q)
      PROVE  e \in options'[r]
  <2>1. q = r
    BY <1>1, <1>2, <1>4 DEF Dom!Stop, Dom!Become
  <2>2. options' = [options EXCEPT ![r] = Dom!ToSet(Dom!Reported) \cap Usable]
    BY <1>1, <1>2, <1>4, <2>1 DEF Dom!Stop, Dom!Become
  <2> QED
    BY <1>2, <1>3, <2>2
<1>5. ASSUME NEW q \in Requests, Dom!Begin(q) \/ Dom!Inject(q) \/ Dom!Start(q) \/ Dom!Trigger(q)
      PROVE  FALSE
  BY <1>1, <1>2, <1>5 DEF Dom!Begin, Dom!Inject, Dom!Start, Dom!Trigger, Dom!Become
<1>6. CASE Dom!Appear \/ Dom!Navigate \/ UNCHANGED Dom!vars
  BY <1>1, <1>6 DEF Dom!Appear, Dom!Navigate, Dom!vars
<1> QED
  BY <1>4, <1>5, <1>6 DEF Dom!Next

\* Other discoveries of the page and navigations may take the observer away: the
\* options a discovery returns appeared after its last observation began, and one
\* that nothing disturbed misses none it may report.
THEOREM DiscoveriesTellNew == Spec => DiscoveriesReportNew
<1> USE PagesAssumption
<1> DEFINE Held == part = "dom" => DomInv
           News == part = "dom" => Dom!OptionsAreNew
           Reports == part = "dom" => Dom!ReportsWhatAppeared
<1>1. Init => Held
  BY DomInit DEF Init
<1>2. Held /\ [Next]_vars => Held'
  BY DomPart, DomStep
<1>3. Held /\ [Next]_vars => [Reports]_vars
  BY DomPart, ReportsAll
<1>4. Held => News
  BY DEF DomInv, Observes, Dom!OptionsAreNew
<1> HIDE DEF Held, News, Reports
<1>5. Spec => []News /\ [][Reports]_vars
  BY <1>1, <1>2, <1>3, <1>4, PTL DEF Spec
<1> QED
  BY <1>5 DEF DiscoveriesReportNew, News, Reports

-----------------------------------------------------------------------------
(* Types: what the type invariants say beyond the invariants above *)

\* Actions, bounds and flags of the page actions.
LEMMA ActionsTypes ==
  ASSUME ActionsConstants
  PROVE  /\ Actions!Init => Actions!TypeOK
         /\ ActionsInv /\ Actions!TypeOK /\ [Actions!Next]_(Actions!vars) => Actions!TypeOK'
<1>1. Actions!Init => Actions!TypeOK
  <2> SUFFICES ASSUME Actions!Init
               PROVE  Actions!TypeOK
    OBVIOUS
  <2>1. closed \in BOOLEAN
    BY Zenon DEF Actions!Init
  <2> QED
    BY <2>1 DEF Actions!Init, Actions!TypeOK, ActionsConstants
<1>2. ASSUME ActionsInv, Actions!TypeOK, [Actions!Next]_(Actions!vars)
      PROVE  Actions!TypeOK'
  <2>1. ActionsInv'
    BY <1>2, ActionsStep
  <2>2. tried' \in [Requests -> 0..3]
    <3>1. tried' \in [Requests -> Nat] /\ \A r \in Requests : limit'[r] \in {1, 3} /\ tried'[r] <= limit'[r]
      BY <2>1 DEF ActionsInv, ActionsTyped, DismissalOf
    <3> QED
      BY <3>1
  <2>3. /\ action' = action
        /\ shown' \in {shown, shown + 1} /\ (shown' = shown + 1 => shown < MaxBlockers \/ shown' = shown)
    <3>1. CASE Actions!Shows
      BY <3>1 DEF Actions!Shows
    <3>2. CASE ~Actions!Shows
      BY <1>2, <3>2 DEF Actions!Next, Actions!vars, Actions!Execute, Actions!Detect, Actions!Dismiss,
         Actions!Check, Actions!Call, Actions!Complete, Actions!Vanishes
    <3> QED
      BY <3>1, <3>2
  <2>4. closed' \in BOOLEAN
    <3>1. closed \in BOOLEAN
      BY <1>2, Zenon DEF Actions!TypeOK
    <3>2. ASSUME NEW r \in Requests, Actions!Call(r)
          PROVE  closed' \in BOOLEAN
      BY <3>1, <3>2, Zenon DEF Actions!Call
    <3>3. CASE closed' = closed
      BY <3>1, <3>3, Zenon
    <3> QED
      BY <1>2, <3>2, <3>3, Zenon DEF Actions!Next, Actions!vars, Actions!Execute, Actions!Detect, Actions!Dismiss,
         Actions!Check, Actions!Complete, Actions!Vanishes, Actions!Shows
  <2>5. shown' \in 0..MaxBlockers
    BY <1>2, <2>3 DEF ActionsConstants, Actions!TypeOK
  <2> QED
    BY <1>2, <2>1, <2>2, <2>3, <2>4, <2>5 DEF Actions!TypeOK, ActionsInv, ActionsTyped
<1> QED
  BY <1>1, <1>2

\* Fields hold what a request put there, nothing, or what they made up.
LEMMA FillTypes ==
  ASSUME FillConstants
  PROVE  /\ Fill!Init => Fill!TypeOK
         /\ FillInv /\ Fill!TypeOK /\ [Fill!Next]_(Fill!vars) => Fill!TypeOK'
<1>0. DOMAIN Fields = 1..Len(Fields) /\ Len(Fields) \in Nat
  BY LenProperties DEF FillConstants
<1>1. ASSUME FillInv
      PROVE  /\ pc \in [Requests -> Fill!Places] /\ by \in [Requests -> {"service", "adapter"}]
             /\ at \in [Requests -> DOMAIN Fields] /\ DOMAIN value = Fill!Names
             /\ \A r \in Requests : Len(results[r]) <= Len(Fields) /\ Fill!Field(r) \in Fill!Names
  <2>1. FillTyped
    BY <1>1 DEF FillInv
  <2>2. ASSUME NEW r \in Requests
        PROVE  Len(results[r]) <= Len(Fields) /\ Fill!Field(r) \in Fill!Names
    <3>1. at[r] \in 1..Len(Fields) /\ ResultsInOrder(r)
      BY <1>1, <2>1 DEF FillInv, FillTyped
    <3>2. Len(results[r]) <= Len(Fields)
      BY <1>0, <3>1 DEF ResultsInOrder
    <3> QED
      BY <3>1, <3>2, ElementOfSeq DEF FillConstants, Fill!Field
  <2> QED
    BY <1>0, <2>1, <2>2 DEF FillTyped
<1>2. ASSUME Fill!Init
      PROVE  Fill!TypeOK
  <2>1. FillInv
    BY <1>2, FillInit
  <2> QED
    BY <1>1, <1>2, <2>1 DEF Fill!Init, Fill!TypeOK, Fill!Values
<1>3. ASSUME FillInv, Fill!TypeOK, [Fill!Next]_(Fill!vars)
      PROVE  Fill!TypeOK'
  <2>1. FillInv'
    BY <1>3, FillStep
  <2>2. /\ pc' \in [Requests -> Fill!Places] /\ by' \in [Requests -> {"service", "adapter"}]
        /\ at' \in [Requests -> DOMAIN Fields]
        /\ \A r \in Requests : Len(results'[r]) <= Len(Fields)
    <3>1. FillTyped' /\ \A r \in Requests : ResultsInOrder(r)'
      BY <2>1 DEF FillInv
    <3>2. ASSUME NEW r \in Requests
          PROVE  Len(results'[r]) <= Len(Fields)
      BY <1>0, <3>1 DEF ResultsInOrder, FillTyped
    <3> QED
      BY <1>0, <3>1, <3>2 DEF FillTyped
  <2>3. kind' \in [Fill!Names -> FieldKinds] /\ value' \in [Fill!Names -> Fill!Values]
        /\ focus' \in Fill!Names \cup {"none"}
    <3> USE DEF Fill!TypeOK, Fill!Values
    <3>1. CASE UNCHANGED Fill!vars
      BY <1>3, <3>1 DEF Fill!vars
    <3>2. ASSUME NEW r \in Requests, Fill!SetChecked(r) \/ Fill!ReadCurrent(r)
          PROVE  /\ kind' = kind /\ focus' = focus
                 /\ value' = value \/ value' = [value EXCEPT ![Fill!Field(r)] = r]
      BY <3>2 DEF Fill!SetChecked, Fill!ReadCurrent
    <3>3. ASSUME NEW r \in Requests, Fill!Fill(r)
          PROVE  /\ kind' = kind /\ focus' \in {focus, Fill!Field(r)}
                 /\ \/ value' = value
                    \/ \E v \in {r, -1} : value' = [value EXCEPT ![Fill!Field(r)] = v]
      BY <3>3 DEF Fill!Fill, Fill!Filled
    <3>4. ASSUME NEW r \in Requests, Fill!Click(r) \/ Fill!Verify(r)
          PROVE  kind' = kind /\ focus' \in {focus, Fill!Field(r)} /\ value' = value
      BY <3>4 DEF Fill!Click, Fill!Verify
    <3>5. ASSUME NEW r \in Requests, Fill!TypeText(r)
          PROVE  /\ kind' = kind /\ focus' = focus
                 /\ \E v \in {value[focus], r, -1} : value' = [value EXCEPT ![focus] = v]
      BY <3>5 DEF Fill!TypeText, Fill!Typed
    <3>6. ASSUME NEW r \in Requests, Fill!Clear(r) \/ Fill!Retype(r)
          PROVE  /\ kind' = kind /\ focus' \in {focus, Fill!Field(r)}
                 /\ \/ value' = value
                    \/ \E v \in {0, r, -1} : value' = [value EXCEPT ![Fill!Field(r)] = v]
      BY <3>6 DEF Fill!Clear, Fill!Retype, Fill!Typed
    <3>7. \A r \in Requests : Fill!Field(r) \in Fill!Names
      BY <1>1, <1>3
    <3>8. ASSUME NEW r \in Requests, Fill!TypeText(r)
          PROVE  value' \in [Fill!Names -> Fill!Values]
      <4>1. PICK v \in {value[focus], r, -1} : value' = [value EXCEPT ![focus] = v]
        BY <3>5, <3>8
      <4>2. CASE focus \in Fill!Names
        BY <1>3, <4>1, <4>2
      <4>3. CASE focus \notin Fill!Names
        BY <1>3, <4>1, <4>3
      <4> QED
        BY <4>2, <4>3
    <3>9. ASSUME NEW r \in Requests, ~Fill!TypeText(r),
                  \/ Fill!SetChecked(r) \/ Fill!ReadCurrent(r) \/ Fill!Fill(r) \/ Fill!Click(r)
                  \/ Fill!Verify(r) \/ Fill!Clear(r) \/ Fill!Retype(r)
           PROVE  /\ kind' = kind /\ focus' \in {focus, Fill!Field(r)}
                  /\ \/ value' = value
                     \/ \E v \in Fill!Values : value' = [value EXCEPT ![Fill!Field(r)] = v]
      BY <3>2, <3>3, <3>4, <3>6, <3>9
    <3>10. ASSUME NEW r \in Requests, NEW v \in Fill!Values
           PROVE  [value EXCEPT ![Fill!Field(r)] = v] \in [Fill!Names -> Fill!Values]
      BY <1>3, <3>7
    <3> QED
      BY <1>3, <3>1, <3>5, <3>7, <3>8, <3>9, <3>10 DEF Fill!Next
  <2> QED
    BY <2>2, <2>3 DEF Fill!TypeOK
<1> QED
  BY <1>2, <1>3

\* Outcomes, ids and messages of the page's activity.
LEMMA ActivityTypes ==
  ASSUME ActivityConstants
  PROVE  /\ ActivityInv /\ said \in 0..MaxMessages => Activity!TypeOK
         /\ Activity!Init => said \in 0..MaxMessages
         /\ said \in 0..MaxMessages /\ [Activity!Next]_(Activity!vars) => said' \in 0..MaxMessages
<1>1. ASSUME ActivityInv, said \in 0..MaxMessages
      PROVE  Activity!TypeOK
  <2> USE DEF ActivityConstants
  <2>1. ActivityTyped /\ IdsInOrder /\ NewestInOrder
    BY <1>1 DEF ActivityInv
  <2>2. outcome \in UNION {[1..n -> Activity!Outcomes] : n \in 0..MaxSent}
    <3>1. outcome \in [1..Len(outcome) -> Activity!Outcomes] /\ Len(outcome) \in 0..MaxSent
      BY <2>1, LenProperties DEF ActivityTyped
    <3> QED
      BY <3>1
  <2>3. nextId \in 0..MaxSent /\ Len(outcome) \in Nat
    BY <2>1, LenProperties DEF ActivityTyped, IdsInOrder
  <2>4. seen \in [1..MaxSent -> 0..MaxSent]
    <3>1. ASSUME NEW r \in 1..MaxSent
          PROVE  seen[r] \in 0..MaxSent
      <4> DEFINE n == Len(outcome)
      <4>1. /\ n \in Nat /\ n <= MaxSent /\ (n = nextId \/ n = nextId + 1) /\ nextId \in Nat
            /\ seen[r] = IF r <= n THEN r - (n - nextId) ELSE 0
        BY <2>1, <2>3 DEF IdsInOrder, ActivityTyped
      <4> HIDE DEF n
      <4>2. CASE n = nextId
        BY <4>1, <4>2
      <4>3. CASE n = nextId + 1
        BY <4>1, <4>3
      <4> QED
        BY <4>1, <4>2, <4>3
    <3> QED
      BY <2>1, <3>1 DEF ActivityTyped
  <2>5. Len(records) <= MaxRequests /\ Len(console) <= MaxConsole
    BY <2>1 DEF NewestInOrder, Smaller, ActivityTyped
  <2>6. Activity!ToSet(records) \subseteq [id : 1..MaxSent, end : Activity!Outcomes]
    <3>1. DOMAIN records = 1..Len(records) /\ Len(records) \in Nat
      BY <2>1, LenProperties DEF ActivityTyped
    <3>2. ASSUME NEW i \in 1..Len(records)
          PROVE  records[i] \in [id : 1..MaxSent, end : Activity!Outcomes]
      <4>1. records[i] \in Record
        BY <2>1, ElementOfSeq DEF ActivityTyped
      <4>2. records[i].id = nextId - Len(records) + i /\ Len(records) <= nextId
        BY <2>1, <2>3, <3>1 DEF NewestInOrder, Smaller
      <4>3. records[i].id \in 1..MaxSent
        BY <2>3, <3>1, <4>2
      <4> QED
        BY <4>1, <4>3 DEF Record
    <3> QED
      BY <3>1, <3>2 DEF Activity!ToSet
  <2> QED
    BY <1>1, <2>2, <2>3, <2>4, <2>5, <2>6 DEF Activity!TypeOK
<1>2. Activity!Init => said \in 0..MaxMessages
  BY DEF Activity!Init, ActivityConstants
<1>3. ASSUME said \in 0..MaxMessages, [Activity!Next]_(Activity!vars)
      PROVE  said' \in 0..MaxMessages
  BY <1>3 DEF Activity!Next, Activity!vars, Activity!Request, Activity!Ended, Activity!Console, ActivityConstants
<1> QED
  BY <1>1, <1>2, <1>3

\* Labels are drawn for at most as many refs as a request asks for.
WithinAsked == \A r \in Requests : body[r].kind = "labels" => boxes[r] <= body[r].max
PicturesTyped == shot \in [Requests -> Requests \cup {None}] /\ WithinAsked

LEMMA ShotsTypes ==
  ASSUME ShotsConstants
  PROVE  /\ ShotsInv /\ PicturesTyped => Shots!TypeOK
         /\ Shots!Init => PicturesTyped
         /\ ShotsInv /\ PicturesTyped /\ [Shots!Next]_(Shots!vars) => PicturesTyped'
<1>1. ASSUME ShotsInv, PicturesTyped
      PROVE  Shots!TypeOK
  BY <1>1 DEF ShotsInv, ShotsTyped, LabelsOwned, PicturesTyped, WithinAsked, Shots!TypeOK
<1>2. Shots!Init => PicturesTyped
  BY BodyKinds DEF Shots!Init, PicturesTyped, WithinAsked
<1>3. ASSUME ShotsInv, PicturesTyped, [Shots!Next]_(Shots!vars)
      PROVE  PicturesTyped'
  <2>0. ShotsTyped /\ overlay \in Requests \cup {None}
    BY <1>3 DEF ShotsInv, LabelsOwned
  <2>1. shot' \in [Requests -> Requests \cup {None}]
    <3>1. ASSUME NEW r \in Requests, Shots!Plain(r) \/ Shots!Shoot(r)
          PROVE  shot' = shot \/ shot' = [shot EXCEPT ![r] = overlay]
      BY <3>1, Zenon DEF Shots!Plain, Shots!Shoot
    <3>2. ASSUME NEW r \in Requests,
                 Shots!Begin(r) \/ Shots!Look(r) \/ Shots!Label(r) \/ Shots!Fails(r) \/ Shots!Clean(r)
          PROVE  shot' = shot
      BY <3>2, Zenon DEF Shots!Begin, Shots!Look, Shots!Label, Shots!Fails, Shots!Clean
    <3>3. ASSUME Shots!Navigate \/ UNCHANGED Shots!vars
          PROVE  shot' = shot
      BY <3>3, Zenon DEF Shots!Navigate, Shots!vars
    <3>4. shot' = shot \/ \E r \in Requests : shot' = [shot EXCEPT ![r] = overlay]
      BY <1>3, <3>1, <3>2, <3>3 DEF Shots!Next
    <3> QED
      BY <1>3, <2>0, <3>4 DEF PicturesTyped
  <2>2. ASSUME NEW r \in Requests, Shots!Plain(r)
        PROVE  WithinAsked'
    <3>1. boxes' = boxes /\ \A q \in Requests : body'[q] = body[q] \/ body'[q].kind = "plain"
      BY <2>0, <2>2 DEF Shots!Plain, ShotsTyped
    <3> QED
      BY <1>3, <3>1 DEF PicturesTyped, WithinAsked
  <2>3. ASSUME NEW r \in Requests, Shots!Begin(r)
        PROVE  WithinAsked'
    <3>1. /\ boxes' = boxes /\ boxes[r] = 0 /\ \A q \in Requests \ {r} : body'[q] = body[q]
          /\ body'[r].max \in Nat
      BY <1>3, <2>0, <2>3 DEF Shots!Begin, ShotsTyped, ShotsInv, RefsCounted, ShotsConstants
    <3> QED
      BY <1>3, <3>1 DEF PicturesTyped, WithinAsked
  <2>4. ASSUME NEW r \in Requests, Shots!Look(r)
        PROVE  WithinAsked'
    <3>1. body' = body /\ boxes' = [boxes EXCEPT ![r] = boxes[r] + (IF Shots!Shows(r) THEN 1 ELSE 0)]
      BY <2>4 DEF Shots!Look
    <3>2. body[r] \in LabelBodies /\ boxes[r] \in Nat
      BY <1>3, <2>0, <2>4 DEF Shots!Look, ShotsTyped, ShotsInv, RefsCounted
    <3>3. boxes'[r] <= body[r].max /\ \A q \in Requests \ {r} : boxes'[q] = boxes[q]
      <4>1. /\ boxes[r] <= body[r].max /\ body[r].max \in Nat
            /\ boxes'[r] = boxes[r] + (IF Shots!Shows(r) THEN 1 ELSE 0)
            /\ \A q \in Requests \ {r} : boxes'[q] = boxes[q]
        BY <1>3, <2>0, <3>1, <3>2, BodyKinds DEF PicturesTyped, WithinAsked, ShotsTyped
      <4>2. Shots!Shows(r) => ~(boxes[r] >= body[r].max)
        BY DEF Shots!Shows, Shots!Full
      <4> QED
        BY <3>2, <4>1, <4>2
    <3> QED
      BY <1>3, <3>1, <3>3 DEF PicturesTyped, WithinAsked
  <2>5. ASSUME body' = body, boxes' = boxes
        PROVE  WithinAsked'
    BY <1>3, <2>5, Zenon DEF PicturesTyped, WithinAsked
  <2>6. ASSUME NEW r \in Requests,
               Shots!Label(r) \/ Shots!Fails(r) \/ Shots!Shoot(r) \/ Shots!Clean(r)
        PROVE  body' = body /\ boxes' = boxes
    BY <2>6, Zenon DEF Shots!Label, Shots!Fails, Shots!Shoot, Shots!Clean
  <2>7. ASSUME Shots!Navigate \/ UNCHANGED Shots!vars
        PROVE  WithinAsked'
    <3>1. body' = body /\ boxes' = boxes
      BY <2>7, Zenon DEF Shots!Navigate, Shots!vars
    <3> QED
      BY <2>5, <3>1
  <2>8. WithinAsked'
    BY <1>3, <2>2, <2>3, <2>4, <2>5, <2>6, <2>7 DEF Shots!Next
  <2> QED
    BY <2>1, <2>8 DEF PicturesTyped
<1> QED
  BY <1>1, <1>2, <1>3

\* The elements of the list are in the order in which they appeared.
ListInOrder ==
  /\ \A i \in 1..Len(added) : added[i] <= appeared
  /\ \A i, j \in 1..Len(added) : i < j => added[i] < added[j]

\* A report holds at most as many options as a discovery may report.
LEMMA ReportedFew ==
  ASSUME DomConstants, DomInv
  PROVE  LET reported == Dom!ToSet(Dom!Reported) \cap Usable
         IN  reported \subseteq Usable /\ Dom!Cardinality(reported) <= MaxReported
<1> DEFINE n == Len(added)
           k == IF n < MaxReported THEN n ELSE MaxReported
           all == Dom!ToSet(Dom!Reported)
           f == [i \in 1..k |-> added[i]]
<1>1. n \in Nat /\ k \in Nat /\ k <= n /\ k <= MaxReported /\ MaxReported \in Nat
  BY LenProperties DEF DomConstants, DomInv, DomTyped
<1>2. \A i \in 1..n : i <= MaxReported <=> i \in 1..k
  BY <1>1
<1>3. \A e : e \in all <=> \E i \in 1..n : i <= MaxReported /\ e = added[i]
  BY ReportedFirst
<1>4. \A i \in 1..k : i \in 1..n
  BY <1>1
<1> HIDE DEF n, all
<1>5. \A e : e \in all <=> \E i \in 1..k : e = added[i]
  BY <1>2, <1>3, <1>4
<1> HIDE DEF k
<1>6. f \in Surjection(1..k, all)
  BY <1>5 DEF Surjection
<1>7. IsFiniteSet(1..k) /\ Cardinality(1..k) <= MaxReported
  <2>1. 1 \in Int /\ k \in Int
    BY <1>1
  <2>2. IsFiniteSet(1..k) /\ Cardinality(1..k) = IF 1 > k THEN 0 ELSE k - 1 + 1
    BY <2>1, FS_Interval
  <2>3. (IF 1 > k THEN 0 ELSE k - 1 + 1) <= MaxReported
    BY <1>1
  <2> QED
    BY <2>2, <2>3
<1>8. IsFiniteSet(all) /\ Cardinality(all) <= Cardinality(1..k)
  BY <1>6, <1>7, FS_Surjection
<1>9. Cardinality(all \cap Usable) <= MaxReported
  <2>1. /\ IsFiniteSet(all \cap Usable) /\ Cardinality(all \cap Usable) <= Cardinality(all)
    BY <1>8, FS_Intersection
  <2>2. Cardinality(all \cap Usable) \in Nat /\ Cardinality(all) \in Nat /\ Cardinality(1..k) \in Nat
    BY <1>7, <1>8, <2>1, FS_CardinalityType
  <2> QED
    BY <1>1, <1>7, <1>8, <2>1, <2>2
<1>10. Dom!Cardinality(all \cap Usable) = Cardinality(all \cap Usable)
  BY DEF Dom!Cardinality, Dom!IsFiniteSet, Cardinality, IsFiniteSet
<1> QED
  BY <1>9, <1>10 DEF all

\* The list of added elements, and the options of each discovery.
LEMMA DomTypes ==
  ASSUME DomConstants
  PROVE  /\ Dom!Init => Dom!TypeOK /\ ListInOrder
         /\ DomInv /\ Dom!TypeOK /\ ListInOrder /\ [Dom!Next]_(Dom!vars) => Dom!TypeOK' /\ ListInOrder'
<1>1. ASSUME Dom!Init
      PROVE  Dom!TypeOK /\ ListInOrder
  <2>1. Dom!Cardinality({}) = 0
    BY FS_EmptySet DEF Dom!Cardinality, Dom!IsFiniteSet, Cardinality, IsFiniteSet
  <2>2. DOMAIN added = {} /\ Len(added) = 0
    BY <1>1, EmptySeq DEF Dom!Init
  <2> QED
    BY <1>1, <2>1, <2>2 DEF Dom!Init, Dom!TypeOK, Dom!IsStrictlyIncreasing, ListInOrder, DomConstants
<1>2. ASSUME DomInv, Dom!TypeOK, ListInOrder, [Dom!Next]_(Dom!vars)
      PROVE  Dom!TypeOK' /\ ListInOrder'
  <2>0. /\ appeared \in 0..MaxElements /\ MaxElements \in Nat
        /\ added \in Seq(1..MaxElements) /\ Len(added) \in Nat
    BY <1>2, LenProperties DEF DomConstants, DomInv, DomTyped
  <2>1. DomInv'
    BY <1>2, DomStep
  <2>2. \/ appeared' = appeared /\ added' \in {added, <<>>}
        \/ appeared' = appeared + 1 /\ added' \in {added, Append(added, appeared + 1)}
    <3>1. ASSUME NEW r \in Requests,
                 Dom!Begin(r) \/ Dom!Inject(r) \/ Dom!Start(r) \/ Dom!Trigger(r) \/ Dom!Stop(r)
          PROVE  appeared' = appeared /\ added' \in {added, <<>>}
      BY <3>1 DEF Dom!Begin, Dom!Inject, Dom!Start, Dom!Trigger, Dom!Stop, Dom!Emptied
    <3>2. ASSUME Dom!Navigate \/ UNCHANGED Dom!vars
          PROVE  appeared' = appeared /\ added' \in {added, <<>>}
      BY <3>2 DEF Dom!Navigate, Dom!vars
    <3>3. ASSUME Dom!Appear
          PROVE  appeared' = appeared + 1 /\ added' \in {added, Append(added, appeared + 1)}
      BY <3>3 DEF Dom!Appear
    <3> QED
      BY <1>2, <3>1, <3>2, <3>3 DEF Dom!Next
  <2>3. ListInOrder'
    <3>1. CASE added' = added
      BY <1>2, <2>0, <2>2, <3>1 DEF ListInOrder
    <3>2. CASE added' = <<>>
      BY <3>2, EmptySeq DEF ListInOrder
    <3>3. CASE appeared' = appeared + 1 /\ added' = Append(added, appeared + 1)
      <4>1. /\ Len(added') = Len(added) + 1 /\ added'[Len(added) + 1] = appeared + 1
            /\ \A i \in 1..Len(added) : added'[i] = added[i] /\ added[i] \in Nat
        <5>1. added \in Seq(Nat) /\ appeared + 1 \in Nat
          BY <2>0
        <5> QED
          BY <3>3, <5>1, AppendProperties, ElementOfSeq
      <4> DEFINE n == Len(added)
      <4>2. n \in Nat /\ appeared \in Nat
        BY <2>0
      <4>3. \A i \in 1..n : added[i] <= appeared /\ added[i] \in Nat
        BY <1>2, <4>1 DEF ListInOrder
      <4>4. \A i \in 1..n + 1 : i \in 1..n \/ i = n + 1
        BY <4>2
      <4>5. \A i, j \in 1..n : i < j => added[i] < added[j]
        BY <1>2 DEF ListInOrder
      <4> HIDE DEF n
      <4>6. Len(added') = n + 1 /\ added'[n + 1] = appeared + 1 /\ \A i \in 1..n : added'[i] = added[i]
        BY <4>1 DEF n
      <4>7. \A i \in 1..n + 1 : added'[i] <= appeared + 1
        BY <4>2, <4>3, <4>4, <4>6
      <4>8. ASSUME NEW i \in 1..n + 1, NEW j \in 1..n + 1, i < j
            PROVE  added'[i] < added'[j]
        <5>1. i \in 1..n
          BY <4>2, <4>8
        <5>2. CASE j = n + 1
          BY <4>2, <4>3, <4>6, <5>1, <5>2
        <5>3. CASE j \in 1..n
          BY <4>5, <4>6, <4>8, <5>1, <5>3
        <5> QED
          BY <4>4, <5>2, <5>3
      <4> QED
        BY <3>3, <4>6, <4>7, <4>8 DEF ListInOrder
    <3> QED
      BY <2>2, <3>1, <3>2, <3>3
  <2>4. Dom!IsStrictlyIncreasing(added)'
    <3>1. DOMAIN added' = 1..Len(added')
      BY <2>1, LenProperties DEF DomInv, DomTyped
    <3> QED
      BY <2>3, <3>1 DEF ListInOrder, Dom!IsStrictlyIncreasing
  <2>5. ASSUME NEW r \in Requests
        PROVE  options'[r] \subseteq Usable /\ Dom!Cardinality(options'[r]) <= MaxReported
    <3>1. options'[r] \in {options[r], Dom!ToSet(Dom!Reported) \cap Usable}
      <4>1. DOMAIN options = Requests
        BY <1>2 DEF DomInv, DomTyped
      <4>2. ASSUME NEW q \in Requests, Dom!Stop(q)
            PROVE  options'[r] \in {options[r], Dom!ToSet(Dom!Reported) \cap Usable}
        BY <4>1, <4>2, Zenon DEF Dom!Stop
      <4>3. ASSUME NEW q \in Requests, Dom!Begin(q) \/ Dom!Inject(q) \/ Dom!Start(q) \/ Dom!Trigger(q)
            PROVE  options' = options
        BY <4>3, Zenon DEF Dom!Begin, Dom!Inject, Dom!Start, Dom!Trigger
      <4>4. ASSUME Dom!Appear \/ Dom!Navigate \/ UNCHANGED Dom!vars
            PROVE  options' = options
        BY <4>4, Zenon DEF Dom!Appear, Dom!Navigate, Dom!vars
      <4> QED
        BY <1>2, <4>2, <4>3, <4>4 DEF Dom!Next
    <3> QED
      BY <1>2, <3>1, ReportedFew, Zenon DEF Dom!TypeOK
  <2>6. /\ observer' \in {"lost", "injected", "on", "off"} /\ text' \in [Requests -> BOOLEAN]
        /\ pc' \in [Requests -> {"idle", "injecting", "starting", "triggering", "waiting", "done", "error"}]
        /\ round' \in [Requests -> 1..3]
    <3> USE DEF Dom!Become
    <3>1. ASSUME NEW r \in Requests, Dom!Begin(r) \/ Dom!Inject(r) \/ Dom!Start(r) \/ Dom!Trigger(r)
          PROVE  /\ observer' \in {observer, "injected", "on"} /\ UNCHANGED <<text, round>>
                 /\ \E place \in {"injecting", "starting", "triggering", "waiting", "error"} :
                      pc' = [pc EXCEPT ![r] = place]
      BY <3>1 DEF Dom!Begin, Dom!Inject, Dom!Start, Dom!Trigger
    <3>2. ASSUME NEW r \in Requests, Dom!Stop(r)
          PROVE  /\ observer' \in {observer, "off"} /\ UNCHANGED text
                 /\ \E place \in {"injecting", "done", "error"} : pc' = [pc EXCEPT ![r] = place]
                 /\ \/ round' = round
                    \/ round[r] \in 1..2 /\ round' = [round EXCEPT ![r] = round[r] + 1]
      BY <3>2 DEF Dom!Stop, Dom!TriesNext
    <3>3. ASSUME Dom!Appear \/ Dom!Navigate \/ UNCHANGED Dom!vars
          PROVE  observer' \in {observer, "lost"} /\ UNCHANGED <<text, pc, round>>
      BY <3>3 DEF Dom!Appear, Dom!Navigate, Dom!vars
    <3>4. ASSUME NEW r \in Requests, NEW place \in {"injecting", "starting", "triggering", "waiting", "done", "error"}
          PROVE  [pc EXCEPT ![r] = place] \in
                   [Requests -> {"idle", "injecting", "starting", "triggering", "waiting", "done", "error"}]
      BY <1>2 DEF Dom!TypeOK
    <3>5. ASSUME NEW r \in Requests, round[r] \in 1..2
          PROVE  [round EXCEPT ![r] = round[r] + 1] \in [Requests -> 1..3]
      BY <1>2, <3>5 DEF Dom!TypeOK
    <3> QED
      BY <1>2, <3>1, <3>2, <3>3, <3>4, <3>5 DEF Dom!Next, Dom!TypeOK
  <2>7. alone' \in [Requests -> BOOLEAN]
    <3>1. ASSUME NEW r \in Requests, Dom!Inject(r) \/ Dom!Start(r) \/ Dom!Stop(r)
          PROVE  \/ alone' = alone
                 \/ alone' = [q \in Requests |-> q = r /\ alone[q]]
                 \/ alone' = [q \in Requests |-> q = r]
      BY <3>1, Zenon DEF Dom!Inject, Dom!Start, Dom!Stop, Dom!Disturb
    <3>2. ASSUME NEW r \in Requests, Dom!Begin(r) \/ Dom!Trigger(r)
          PROVE  alone' = alone
      BY <3>2, Zenon DEF Dom!Begin, Dom!Trigger
    <3>3. ASSUME Dom!Appear \/ Dom!Navigate \/ UNCHANGED Dom!vars
          PROVE  alone' = alone \/ alone' = [q \in Requests |-> FALSE]
      BY <3>3, Zenon DEF Dom!Appear, Dom!Navigate, Dom!vars
    <3> QED
      BY <1>2, <3>1, <3>2, <3>3, Zenon DEF Dom!Next, Dom!TypeOK
  <2>8. appeared' \in 0..MaxElements /\ since' \in [Requests -> 0..MaxElements]
    BY <2>1 DEF DomInv, DomTyped
  <2> QED
    BY <2>3, <2>4, <2>5, <2>6, <2>7, <2>8 DEF Dom!TypeOK
<1> QED
  BY <1>1, <1>2

\* Remembering a key and forgetting one leaves no key twice in the cache, and the
\* cache within its limit.
LEMMA CacheStaysDistinct ==
  ASSUME SessionsConstants, SessionsTyped, NEW t \in Targets,
         Sessions!IsInjective(cache), Len(cache) <= MaxCache,
         NEW s, s \in {Sessions!Remembered(t), Sessions!Forgotten(t)}
  PROVE  Sessions!IsInjective(s) /\ Len(s) <= MaxCache
<1> DEFINE n == Len(cache)
           all == IF t \in Sessions!ToSet(cache) THEN cache ELSE Append(cache, t)
           Apart(q) == \A i, j \in 1..Len(q) : q[i] = q[j] => i = j
<1>1. /\ cache \in Seq(Targets) /\ n \in Nat /\ n <= MaxCache /\ MaxCache \in Nat
      /\ DOMAIN cache = 1..n /\ \A i \in 1..n : cache[i] \in Targets
  BY LenProperties, ElementOfSeq DEF SessionsTyped, SessionsConstants
<1>2. Apart(cache)
  BY <1>1 DEF Sessions!IsInjective
<1>3. ASSUME NEW q \in Seq(Targets), Apart(q)
      PROVE  Sessions!IsInjective(q)
  BY <1>3, LenProperties DEF Sessions!IsInjective
<1>4. ASSUME s = Sessions!Remembered(t)
      PROVE  s \in Seq(Targets) /\ Apart(s) /\ Len(s) <= MaxCache
  <2>1. all \in Seq(Targets) /\ Apart(all) /\ Len(all) \in Nat /\ Len(all) <= MaxCache + 1
    <3>1. CASE t \in Sessions!ToSet(cache)
      BY <1>1, <1>2, <3>1
    <3>2. CASE t \notin Sessions!ToSet(cache)
      <4>1. /\ all \in Seq(Targets) /\ Len(all) = n + 1 /\ all[n + 1] = t
            /\ \A i \in 1..n : all[i] = cache[i]
        BY <1>1, <3>2, AppendProperties
      <4>2. \A i \in 1..n : cache[i] # t
        BY <1>1, <3>2 DEF Sessions!ToSet
      <4>3. \A i, j \in 1..n : cache[i] = cache[j] => i = j
        BY <1>2
      <4> HIDE DEF n, all
      <4>4. \A i \in 1..n + 1 : i \in 1..n \/ i = n + 1
        BY <1>1
      <4>5. ASSUME NEW i \in 1..n + 1, NEW j \in 1..n + 1, all[i] = all[j]
            PROVE  i = j
        BY <4>1, <4>2, <4>3, <4>4, <4>5
      <4> QED
        BY <1>1, <4>1, <4>5
    <3> QED
      BY <3>1, <3>2
  <2>2. s = IF Len(all) > MaxCache THEN Tail(all) ELSE all
    BY <1>4 DEF Sessions!Remembered
  <2> HIDE DEF all
  <2>3. CASE Len(all) > MaxCache
    <3>1. Len(all) = MaxCache + 1 /\ all # <<>>
      BY <1>1, <2>1, <2>3, EmptySeq
    <3>2. /\ s \in Seq(Targets) /\ Len(s) = Len(all) - 1
          /\ \A i \in 1..Len(s) : s[i] = all[i + 1]
      BY <2>1, <2>2, <2>3, <3>1, HeadTailProperties
    <3>3. Len(s) = MaxCache
      BY <1>1, <3>1, <3>2
    <3>4. ASSUME NEW i \in 1..Len(s), NEW j \in 1..Len(s), s[i] = s[j]
          PROVE  i = j
      <4>1. i + 1 \in 1..Len(all) /\ j + 1 \in 1..Len(all) /\ i \in Nat /\ j \in Nat
        BY <1>1, <3>1, <3>3
      <4>2. all[i + 1] = all[j + 1]
        BY <3>2, <3>4
      <4>3. i + 1 = j + 1
        BY <2>1, <4>1, <4>2
      <4> QED
        BY <4>1, <4>3
    <3> QED
      BY <1>1, <3>2, <3>3, <3>4
  <2>4. CASE ~(Len(all) > MaxCache)
    BY <1>1, <2>1, <2>2, <2>4
  <2> QED
    BY <2>3, <2>4
<1>5. ASSUME s = Sessions!Forgotten(t), t \in Sessions!ToSet(cache)
      PROVE  s \in Seq(Targets) /\ Apart(s) /\ Len(s) <= MaxCache
  <2>1. PICK k \in 1..n : /\ s \in Seq(Targets) /\ Len(s) = n - 1
                          /\ \A i \in 1..n - 1 : s[i] = IF i < k THEN cache[i] ELSE cache[i + 1]
    BY <1>1, <1>5, OneRemoved
  <2> HIDE DEF n
  <2>2. ASSUME NEW i \in 1..Len(s), NEW j \in 1..Len(s), s[i] = s[j]
        PROVE  i = j
    <3>1. /\ i \in 1..n /\ j \in 1..n /\ i + 1 \in 1..n /\ j + 1 \in 1..n
      BY <1>1, <2>1
    <3>2. \A a, b \in 1..n : cache[a] = cache[b] => a = b
      BY <1>2 DEF n
    <3>3. s[i] = (IF i < k THEN cache[i] ELSE cache[i + 1]) /\ s[j] = (IF j < k THEN cache[j] ELSE cache[j + 1])
      BY <2>1
    <3>4. CASE i < k /\ j < k
      BY <2>2, <3>1, <3>2, <3>3, <3>4
    <3>5. CASE ~(i < k) /\ ~(j < k)
      <4>1. i + 1 = j + 1
        BY <2>2, <3>1, <3>2, <3>3, <3>5
      <4> QED
        BY <3>1, <4>1
    <3>6. CASE i < k /\ ~(j < k)
      <4>1. i = j + 1
        BY <2>2, <3>1, <3>2, <3>3, <3>6
      <4> QED
        BY <3>1, <3>6, <4>1
    <3>7. CASE ~(i < k) /\ j < k
      <4>1. i + 1 = j
        BY <2>2, <3>1, <3>2, <3>3, <3>7
      <4> QED
        BY <3>1, <3>7, <4>1
    <3> QED
      BY <3>4, <3>5, <3>6, <3>7
  <2> QED
    BY <1>1, <2>1, <2>2
<1>6. ASSUME s = Sessions!Forgotten(t), t \notin Sessions!ToSet(cache)
      PROVE  s = cache
  BY <1>6 DEF Sessions!Forgotten
<1> QED
  BY <1>1, <1>2, <1>3, <1>4, <1>5, <1>6

\* Refs restored to a page state or a session are refs of a snapshot taken.
LEMMA RestoredInRange ==
  ASSUME Sessions!TypeOK, NEW t \in Targets, NEW c \in Sessions!Connections,
         NEW found \in [conn : 0..MaxConnections, refs : Sessions!Refs]
  PROVE  /\ Sessions!PageRefsRestored(t, c) \in [Targets \X Sessions!Connections -> Sessions!Refs]
         /\ Sessions!EntityRefs(t, found) \in Sessions!Refs
<1> DEFINE R == Sessions!Refs
           C == Sessions!Connections
<1>1. /\ cacheRefs[t] \in R /\ store[t] \in R /\ found.refs \in R
      /\ pageRefs \in [Targets \X C -> R] /\ <<t, c>> \in Targets \X C
  BY DEF Sessions!TypeOK
<1> HIDE DEF R, C
<1>2. \A n \in R : [pageRefs EXCEPT ![<<t, c>>] = n] \in [Targets \X C -> R]
  BY <1>1
<1>3. [pageRefs EXCEPT ![<<t, c>>] = IF @ = 0 THEN cacheRefs[t] ELSE @] \in [Targets \X C -> R]
  BY <1>1
<1>4. Sessions!PageRefsRestored(t, c) \in [Targets \X C -> R]
  BY <1>1, <1>2, <1>3 DEF Sessions!PageRefsRestored
<1>5. Sessions!EntityRefs(t, found) \in R
  BY <1>1 DEF Sessions!EntityRefs
<1> QED
  BY <1>4, <1>5 DEF R, C

SessionPlaces == {"idle", "paging", "capturing", "acting", "closing", "ok", "error", "unknown"}

LEMMA ProceedsTyped ==
  ASSUME Sessions!TypeOK, NEW r \in SessionRequests, NEW c \in Sessions!Connections,
         NEW found \in [conn : 0..MaxConnections, refs : Sessions!Refs],
         Sessions!Proceed(r, found, c)
  PROVE  /\ pc' \in [SessionRequests -> SessionPlaces]
         /\ sess' \in [Targets -> [conn : 0..MaxConnections, refs : Sessions!Refs]]
         /\ pageRefs' \in [Targets \X Sessions!Connections -> Sessions!Refs]
         /\ refs' \in [SessionRequests -> Sessions!Refs]
<1> DEFINE R == Sessions!Refs
           C == Sessions!Connections
           S == [conn : 0..MaxConnections, refs : R]
           restored == Sessions!PageRefsRestored(tgt[r], c)
           e == Sessions!EntityRefs(tgt[r], found)
           again == [found EXCEPT !.refs = e]
<1>1. /\ tgt[r] \in Targets /\ pc \in [SessionRequests -> SessionPlaces] /\ sess \in [Targets -> S]
      /\ pageRefs \in [Targets \X C -> R] /\ refs \in [SessionRequests -> R] /\ found \in S
  BY DEF Sessions!TypeOK, SessionPlaces
<1>2. restored \in [Targets \X C -> R] /\ e \in R
  BY <1>1, RestoredInRange
<1>3. again \in S
  BY <1>1, <1>2
<1>4. PICK s2 \in S, place \in SessionPlaces :
        /\ sess' = [sess EXCEPT ![tgt[r]] = s2] /\ pc' = [pc EXCEPT ![r] = place]
        /\ pageRefs' \in {pageRefs, restored}
        /\ refs' = refs \/ refs' = [refs EXCEPT ![r] = e]
  <2> USE DEF Sessions!Proceed, Sessions!Become, SessionPlaces
  <2>1. CASE op[r] = "snapshot"
    BY <1>1, <2>1
  <2>2. CASE op[r] = "hook"
    BY <1>1, <2>2
  <2>3. CASE op[r] = "query"
    BY <1>3, <2>3
  <2>4. CASE op[r] \notin {"snapshot", "hook", "query"}
    BY <1>3, <2>4
  <2> QED
    BY <2>1, <2>2, <2>3, <2>4
<1> HIDE DEF R, C, S, restored, e
<1>5. sess' \in [Targets -> S] /\ pc' \in [SessionRequests -> SessionPlaces]
  BY <1>1, <1>4
<1>6. pageRefs' \in [Targets \X C -> R] /\ refs' \in [SessionRequests -> R]
  BY <1>1, <1>2, <1>4
<1> QED
  BY <1>5, <1>6 DEF R, C, S

\* Refs that are stored go to the cache, which stays within its limit.
LEMMA StoredTyped ==
  ASSUME SessionsConstants, SessionsInv, Sessions!TypeOK, NEW r \in SessionRequests,
         NEW n \in Sessions!Refs, Sessions!StoreRoleRefs(r, n)
  PROVE  /\ pc' \in [SessionRequests -> SessionPlaces]
         /\ sess' \in [Targets -> [conn : 0..MaxConnections, refs : Sessions!Refs]]
         /\ Sessions!IsInjective(cache') /\ Len(cache') <= MaxCache
         /\ cacheRefs' \in [Targets -> Sessions!Refs] /\ store' \in [Targets -> Sessions!Refs]
<1> DEFINE t == tgt[r]
           R == Sessions!Refs
           S == [conn : 0..MaxConnections, refs : R]
<1>1. /\ SessionsTyped /\ t \in Targets /\ pc \in [SessionRequests -> SessionPlaces]
      /\ sess \in [Targets -> S] /\ Sessions!IsInjective(cache) /\ Len(cache) <= MaxCache
      /\ cacheRefs \in [Targets -> R] /\ store \in [Targets -> R] /\ n \in R
  BY DEF SessionsInv, Sessions!TypeOK, SessionPlaces
<1>2. CASE sess[t].conn = 0
  <2>1. pc' = [pc EXCEPT ![r] = "error"] /\ UNCHANGED <<sess, cache, cacheRefs, store>>
    BY <1>2 DEF Sessions!StoreRoleRefs, Sessions!Become
  <2> QED
    BY <1>1, <2>1 DEF SessionPlaces, Sessions!IsInjective
<1>3. CASE sess[t].conn # 0
  <2>1. /\ pc' = [pc EXCEPT ![r] = "ok"] /\ sess' = [sess EXCEPT ![t] = [sess[t] EXCEPT !.refs = n]]
        /\ cache' = Sessions!Remembered(t) /\ cacheRefs' = [cacheRefs EXCEPT ![t] = n]
        /\ store' = [store EXCEPT ![t] = n]
    BY <1>3 DEF Sessions!StoreRoleRefs, Sessions!Become, Sessions!Stored
  <2>2. Sessions!IsInjective(cache') /\ Len(cache') <= MaxCache
    BY <1>1, <2>1, CacheStaysDistinct
  <2>3. [sess[t] EXCEPT !.refs = n] \in S
    BY <1>1
  <2> HIDE DEF R, S, t
  <2>4. sess' \in [Targets -> S] /\ cacheRefs' \in [Targets -> R] /\ store' \in [Targets -> R]
    BY <1>1, <2>1, <2>3
  <2>5. pc' \in [SessionRequests -> SessionPlaces]
    BY <1>1, <2>1 DEF SessionPlaces
  <2> QED
    BY <2>2, <2>4, <2>5 DEF R, S, t
<1> QED
  BY <1>2, <1>3

\* What TypeOK says of the requests and of the rest, apart.
RequestsTyped ==
  /\ pc \in [SessionRequests -> SessionPlaces]
  /\ op \in [SessionRequests -> Sessions!Ops] /\ tgt \in [SessionRequests -> Targets]
  /\ held \in [SessionRequests -> 0..MaxConnections]
  /\ refs \in [SessionRequests -> Sessions!Refs] /\ seen \in [SessionRequests -> Sessions!Refs]

TablesTyped ==
  /\ live \in 0..MaxConnections /\ made \in 0..MaxConnections /\ open \subseteq Targets
  /\ sess \in [Targets -> [conn : 0..MaxConnections, refs : Sessions!Refs]]
  /\ pageRefs \in [Targets \X Sessions!Connections -> Sessions!Refs]
  /\ cacheRefs \in [Targets -> Sessions!Refs] /\ store \in [Targets -> Sessions!Refs]
  /\ snaps \in Sessions!Refs

CacheTyped == Sessions!IsInjective(cache) /\ Len(cache) <= MaxCache

LEMMA SessionsTypedParts ==
  ASSUME SessionsInv
  PROVE  Sessions!TypeOK <=> RequestsTyped /\ TablesTyped /\ CacheTyped
<1>1. Sessions!ToSet(cache) \subseteq Targets
  BY ElementOfSeq, LenProperties DEF SessionsInv, SessionsTyped, Sessions!ToSet
<1> QED
  BY <1>1 DEF Sessions!TypeOK, RequestsTyped, TablesTyped, CacheTyped, SessionPlaces

LEMMA SessionsTypes ==
  ASSUME SessionsConstants
  PROVE  /\ Sessions!Init => Sessions!TypeOK
         /\ SessionsInv /\ Sessions!TypeOK /\ [Sessions!Next]_(Sessions!vars) => Sessions!TypeOK'
<1>1. ASSUME Sessions!Init
      PROVE  Sessions!TypeOK
  <2>1. 0 \in Sessions!Refs /\ 0 \in 0..MaxConnections /\ MaxCache \in Nat
    BY DEF SessionsConstants, Sessions!Refs
  <2>2. CacheTyped
    BY <1>1, <2>1, EmptySeq DEF Sessions!Init, CacheTyped, Sessions!IsInjective
  <2>3. RequestsTyped
    BY <1>1, <2>1 DEF Sessions!Init, RequestsTyped, SessionPlaces
  <2>4. TablesTyped
    BY <1>1, <2>1 DEF Sessions!Init, TablesTyped, Sessions!NoSession
  <2> QED
    BY <1>1, <2>2, <2>3, <2>4, SessionsInit, SessionsTypedParts
<1>2. ASSUME SessionsInv, Sessions!TypeOK, [Sessions!Next]_(Sessions!vars)
      PROVE  Sessions!TypeOK'
  <2>1. SessionsInv /\ SessionsInv' /\ RequestsTyped /\ TablesTyped /\ CacheTyped
    BY <1>2, SessionsStep, SessionsTypedParts
  <2>2. SUFFICES RequestsTyped' /\ TablesTyped' /\ CacheTyped'
    <3>1. Sessions!ToSet(cache') \subseteq Targets
      BY <2>1, ElementOfSeq, LenProperties DEF SessionsInv, SessionsTyped, Sessions!ToSet
    <3> QED
      BY <3>1 DEF Sessions!TypeOK, Sessions!ToSet, RequestsTyped, TablesTyped, CacheTyped, SessionPlaces
  <2> USE <2>1
  <2>3. ASSUME NEW r \in SessionRequests, Sessions!Begin(r)
        PROVE  RequestsTyped' /\ TablesTyped' /\ CacheTyped'
    <3>1. /\ UNCHANGED <<live, made, open, sess, pageRefs, cache, cacheRefs, store, snaps, op, tgt, refs, seen>>
          /\ held' = held \/ held' = [held EXCEPT ![r] = sess[tgt[r]].conn]
          /\ \E place \in SessionPlaces : pc' = [pc EXCEPT ![r] = place]
      BY <2>3 DEF Sessions!Begin, Sessions!Become, Sessions!refvars, SessionPlaces
    <3>2. sess[tgt[r]].conn \in 0..MaxConnections
      BY DEF RequestsTyped, TablesTyped
    <3> QED
      BY <3>1, <3>2 DEF RequestsTyped, TablesTyped, CacheTyped, Sessions!IsInjective
  <2>4. ASSUME NEW r \in SessionRequests, Sessions!PageFound(r)
        PROVE  RequestsTyped' /\ TablesTyped' /\ CacheTyped'
    <3> DEFINE t == tgt[r]
               S == [conn : 0..MaxConnections, refs : Sessions!Refs]
    <3>1. /\ UNCHANGED <<open, cache, cacheRefs, store, snaps, op, tgt>> /\ t \in Targets
          /\ seen' = [seen EXCEPT ![r] = store[t]] /\ store[t] \in Sessions!Refs /\ sess[t] \in S
      BY <2>4 DEF Sessions!PageFound, RequestsTyped, TablesTyped
    <3>2. \/ /\ pc' = [pc EXCEPT ![r] = "error"] /\ UNCHANGED <<sess, pageRefs, refs, live, made>>
             /\ held' = held \/ held' = [held EXCEPT ![r] = sess[t].conn]
          \/ \E c \in Sessions!Connections, found \in S :
               /\ Sessions!Proceed(r, found, c) /\ held' = [held EXCEPT ![r] = c]
               /\ live' \in {live, c} /\ made' \in {made, c}
      <4>1. CASE held[r] # 0 /\ sess[t].conn = 0
        BY <2>4, <4>1 DEF Sessions!PageFound, Sessions!Become
      <4>2. CASE held[r] # 0 /\ sess[t].conn # 0
        <5>1. sess[t].conn \in Sessions!Connections
          BY <3>1, <4>2 DEF SessionsConstants, Sessions!Connections
        <5> QED
          BY <2>4, <3>1, <4>2, <5>1 DEF Sessions!PageFound
      <4>3. CASE held[r] = 0 /\ t \notin open
        BY <2>4, <4>3 DEF Sessions!PageFound, Sessions!Become
      <4>4. CASE held[r] = 0 /\ t \in open
        <5> DEFINE c == IF live # 0 THEN live ELSE made + 1
        <5>1. /\ c \in Sessions!Connections /\ live' = c /\ made' \in {made, c} /\ held' = [held EXCEPT ![r] = c]
              /\ Sessions!Proceed(r, [conn |-> c, refs |-> 0], c)
          BY <2>4, <4>4 DEF Sessions!PageFound
        <5> HIDE DEF c
        <5>2. [conn |-> c, refs |-> 0] \in S
          BY <5>1 DEF SessionsConstants, Sessions!Connections, Sessions!Refs
        <5> QED
          BY <5>1, <5>2
      <4> QED
        BY <4>1, <4>2, <4>3, <4>4
    <3>3. CASE /\ pc' = [pc EXCEPT ![r] = "error"] /\ UNCHANGED <<sess, pageRefs, refs, live, made>>
               /\ held' = held \/ held' = [held EXCEPT ![r] = sess[t].conn]
      BY <3>1, <3>3 DEF RequestsTyped, TablesTyped, CacheTyped, SessionPlaces, Sessions!IsInjective
    <3>4. ASSUME NEW c \in Sessions!Connections, NEW found \in S,
                 Sessions!Proceed(r, found, c), held' = [held EXCEPT ![r] = c],
                 live' \in {live, c}, made' \in {made, c}
          PROVE  RequestsTyped' /\ TablesTyped' /\ CacheTyped'
      <4>1. /\ pc' \in [SessionRequests -> SessionPlaces] /\ sess' \in [Targets -> S]
            /\ pageRefs' \in [Targets \X Sessions!Connections -> Sessions!Refs]
            /\ refs' \in [SessionRequests -> Sessions!Refs]
        BY <1>2, <3>4, ProceedsTyped
      <4>2. c \in 0..MaxConnections
        BY <3>4 DEF SessionsConstants, Sessions!Connections
      <4> QED
        BY <3>1, <3>4, <4>1, <4>2 DEF RequestsTyped, TablesTyped, CacheTyped, Sessions!IsInjective
    <3> QED
      BY <3>2, <3>3, <3>4
  <2>5. ASSUME NEW r \in SessionRequests, Sessions!CaptureReturns(r)
        PROVE  RequestsTyped' /\ TablesTyped' /\ CacheTyped'
    <3>1. UNCHANGED <<live, made, open, pageRefs, op, tgt, held, refs, seen>>
      BY <2>5 DEF Sessions!CaptureReturns
    <3>2. CASE Sessions!Become(r, "error") /\ UNCHANGED <<sess, cache, cacheRefs, store, snaps>>
      BY <3>1, <3>2 DEF Sessions!Become, RequestsTyped, TablesTyped, CacheTyped, SessionPlaces, Sessions!IsInjective
    <3>3. CASE snaps < MaxSnapshots /\ snaps' = snaps + 1 /\ Sessions!StoreRoleRefs(r, snaps + 1)
      <4>1. snaps + 1 \in Sessions!Refs
        BY <3>3 DEF TablesTyped, SessionsConstants, Sessions!Refs
      <4> DEFINE n == snaps + 1
      <4> HIDE DEF n
      <4>2. n \in Sessions!Refs /\ Sessions!StoreRoleRefs(r, n)
        BY <3>3, <4>1 DEF n
      <4>3. /\ pc' \in [SessionRequests -> SessionPlaces]
            /\ sess' \in [Targets -> [conn : 0..MaxConnections, refs : Sessions!Refs]]
            /\ CacheTyped'
            /\ cacheRefs' \in [Targets -> Sessions!Refs] /\ store' \in [Targets -> Sessions!Refs]
        BY <1>2, <4>2, StoredTyped DEF CacheTyped, Sessions!IsInjective
      <4> QED
        BY <3>1, <3>3, <4>1, <4>3 DEF RequestsTyped, TablesTyped
    <3> QED
      BY <2>5, <3>2, <3>3 DEF Sessions!CaptureReturns
  <2>6. ASSUME NEW r \in SessionRequests, Sessions!ActReturns(r)
        PROVE  RequestsTyped' /\ TablesTyped' /\ CacheTyped'
    <3>1. UNCHANGED <<live, made, open, pageRefs, snaps, op, tgt, held, refs, seen>>
      BY <2>6 DEF Sessions!ActReturns
    <3>2. CASE (\E place \in {"ok", "error"} : Sessions!Become(r, place)) /\ UNCHANGED <<sess, cache, cacheRefs, store>>
      BY <3>1, <3>2 DEF Sessions!Become, RequestsTyped, TablesTyped, CacheTyped, SessionPlaces, Sessions!IsInjective
    <3>3. CASE Sessions!StoreRoleRefs(r, refs[r])
      <4>1. refs[r] \in Sessions!Refs
        BY DEF RequestsTyped
      <4>2. /\ pc' \in [SessionRequests -> SessionPlaces]
            /\ sess' \in [Targets -> [conn : 0..MaxConnections, refs : Sessions!Refs]]
            /\ CacheTyped'
            /\ cacheRefs' \in [Targets -> Sessions!Refs] /\ store' \in [Targets -> Sessions!Refs]
        BY <1>2, <3>3, <4>1, StoredTyped DEF CacheTyped, Sessions!IsInjective
      <4> QED
        BY <3>1, <4>2 DEF RequestsTyped, TablesTyped
    <3> QED
      BY <2>6, <3>2, <3>3 DEF Sessions!ActReturns
  <2>7. ASSUME NEW r \in SessionRequests, Sessions!PageCloses(r)
        PROVE  RequestsTyped' /\ TablesTyped' /\ CacheTyped'
    BY <2>7 DEF Sessions!PageCloses, Sessions!refvars, RequestsTyped, TablesTyped, CacheTyped, Sessions!IsInjective
  <2>8. ASSUME NEW r \in SessionRequests, Sessions!ForgetSession(r)
        PROVE  RequestsTyped' /\ TablesTyped' /\ CacheTyped'
    <3> DEFINE t == tgt[r]
    <3>1. /\ pc' = [pc EXCEPT ![r] = "ok"] /\ t \in Targets
          /\ UNCHANGED <<live, made, open, cacheRefs, store, snaps, op, tgt, held, refs, seen>>
      BY <2>8 DEF Sessions!ForgetSession, Sessions!Become, RequestsTyped
    <3>2. CASE UNCHANGED <<sess, pageRefs, cache>>
      BY <3>1, <3>2 DEF RequestsTyped, TablesTyped, CacheTyped, SessionPlaces, Sessions!IsInjective
    <3>3. CASE /\ sess' = [sess EXCEPT ![t] = Sessions!NoSession]
               /\ pageRefs' = [pageRefs EXCEPT ![<<t, sess[t].conn>>] = 0] /\ cache' = Sessions!Forgotten(t)
      <4>1. CacheTyped'
        BY <3>1, <3>3, CacheStaysDistinct DEF SessionsInv, CacheTyped, Sessions!IsInjective
      <4>2. 0 \in Sessions!Refs /\ 0 \in 0..MaxConnections
        BY DEF SessionsConstants, Sessions!Refs
      <4> QED
        BY <3>1, <3>3, <4>1, <4>2 DEF RequestsTyped, TablesTyped, SessionPlaces, Sessions!NoSession
    <3> QED
      BY <2>8, <3>2, <3>3 DEF Sessions!ForgetSession
  <2>9. CASE Sessions!ConnectionDrops
    BY <2>9 DEF Sessions!ConnectionDrops, Sessions!refvars, SessionsConstants, RequestsTyped, TablesTyped, CacheTyped,
                Sessions!IsInjective
  <2>10. CASE UNCHANGED Sessions!vars
    BY <2>10 DEF Sessions!vars, Sessions!refvars, RequestsTyped, TablesTyped, CacheTyped, Sessions!IsInjective
  <2> QED
    BY <1>2, <2>3, <2>4, <2>5, <2>6, <2>7, <2>8, <2>9, <2>10 DEF Sessions!Next
<1> QED
  BY <1>1, <1>2

\* The state of whichever part runs: its invariant, and what its types add.
PagesTyped ==
  /\ part = "hooks" => HooksInv
  /\ part = "sessions" => SessionsInv /\ Sessions!TypeOK
  /\ part = "actions" => ActionsInv /\ Actions!TypeOK
  /\ part = "fill" => FillInv /\ Fill!TypeOK
  /\ part = "dom" => DomInv /\ Dom!TypeOK /\ ListInOrder
  /\ part = "activity" => ActivityInv /\ said \in 0..MaxMessages
  /\ part = "shots" => ShotsInv /\ PicturesTyped

\* On the page side every table, list and counter stays in its range: the refs cache
\* holds each target once and within its limit, the reported options and the kept
\* records and messages stay within theirs, and pictures are of requests that asked.
THEOREM PagesTypes == Spec => []TypeOK
<1> USE PagesAssumption
<1>1. Init => PagesTyped
  BY HooksInit, SessionsInit, SessionsTypes, ActionsInit, ActionsTypes, FillInit, FillTypes,
     DomInit, DomTypes, ActivityInit, ActivityTypes, ShotsInit, ShotsTypes DEF Init, PagesTyped
<1>2. PagesTyped /\ [Next]_vars => PagesTyped'
  <2> SUFFICES ASSUME PagesTyped, [Next]_vars PROVE PagesTyped'
    OBVIOUS
  <2>1. part' = part
    BY HooksPart
  <2>2. (part = "hooks" => HooksInv)'
    BY <2>1, HooksPart, HooksStep DEF PagesTyped
  <2>3. (part = "sessions" => SessionsInv /\ Sessions!TypeOK)'
    BY <2>1, SessionsPart, SessionsStep, SessionsTypes DEF PagesTyped
  <2>4. (part = "actions" => ActionsInv /\ Actions!TypeOK)'
    BY <2>1, ActionsPart, ActionsStep, ActionsTypes DEF PagesTyped
  <2>5. (part = "fill" => FillInv /\ Fill!TypeOK)'
    BY <2>1, FillPart, FillStep, FillTypes DEF PagesTyped
  <2>6. (part = "dom" => DomInv /\ Dom!TypeOK /\ ListInOrder)'
    BY <2>1, DomPart, DomStep, DomTypes DEF PagesTyped
  <2>7. (part = "activity" => ActivityInv /\ said \in 0..MaxMessages)'
    BY <2>1, ActivityPart, ActivityStep, ActivityTypes DEF PagesTyped
  <2>8. (part = "shots" => ShotsInv /\ PicturesTyped)'
    BY <2>1, ShotsPart, ShotsStep, ShotsTypes DEF PagesTyped
  <2> QED
    BY <2>2, <2>3, <2>4, <2>5, <2>6, <2>7, <2>8 DEF PagesTyped
<1>3. PagesTyped => TypeOK
  BY HooksTypes, ActivityTypes, ShotsTypes DEF PagesTyped, TypeOK
<1> QED
  BY <1>1, <1>2, <1>3, PTL DEF Spec
=============================================================================
