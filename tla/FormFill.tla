-------------------------------- MODULE FormFill --------------------------------
(***************************************************************************)
(* Filling form fields: handleFill of core/services/interaction.service.ts *)
(* ("service"), which goes through the fields of a request and falls back  *)
(* to the keyboard, and fill of                                            *)
(* adapters/playwright/playwright.interactions.adapter.ts ("adapter"),     *)
(* which checks one field and types it again when it does not hold the     *)
(* value.  The keyboard types into the field that has the focus, which     *)
(* concurrent fills of the page share.  A field is plain, masked (it       *)
(* changes what is filled but takes typing), stubborn (it changes both),   *)
(* locked (it cannot be filled, only typed into), gone or a checkbox; a    *)
(* value is its request, 0 for empty and -1 for one the field made up.     *)
(***************************************************************************)
EXTENDS Integers, SequencesExt

CONSTANTS
  Requests,  \* numbers
  Fields,    \* the fields of every request, a sequence of names
  Kinds      \* kinds of fields that occur

VARIABLES
  kind,      \* the kind of each field
  by,        \* who fills: "service" or "adapter"
  value,     \* what the fields hold
  focus,     \* the field with the focus, or "none"
  pc, at,    \* a request's place and its field, an index of Fields
  results    \* its results: the field, whether it matched, whether it was warned of

vars == <<kind, by, value, focus, pc, at, results>>

Names == ToSet(Fields)
Values == Requests \cup {0, -1}
Places == {"reading", "filling", "verifying", "clicking", "typing", "clearing", "retyping", "ok", "error"}

TypeOK ==
  /\ kind \in [Names -> Kinds] /\ by \in [Requests -> {"service", "adapter"}]
  /\ value \in [Names -> Values] /\ focus \in Names \cup {"none"}
  /\ pc \in [Requests -> Places] /\ at \in [Requests -> DOMAIN Fields]
  /\ \A r \in Requests : Len(results[r]) <= Len(Fields)

Init ==
  /\ kind \in [Names -> Kinds] /\ by \in [Requests -> {"service", "adapter"}]
  /\ value = [f \in Names |-> 0] /\ focus = "none"
  /\ pc = [r \in Requests |-> IF by[r] = "service" THEN "filling" ELSE "reading"]
  /\ at = [r \in Requests |-> 1]
  /\ results = [r \in Requests |-> <<>>]

Field(r) == Fields[at[r]]
Goto(r, place) == pc' = [pc EXCEPT ![r] = place]

\* What a field holds when it is filled, or typed into, with v.
Filled(f, v) == IF kind[f] \in {"masked", "stubborn"} THEN -1 ELSE v
Typed(f, v) == IF kind[f] = "stubborn" THEN -1 ELSE v

\* The service goes on with the next field, if there is one.
GoesOn(r, matched) == by[r] = "service" /\ at[r] < Len(Fields)

\* A result is pushed.
Push(r, matched, warned) ==
  /\ results' = [results EXCEPT ![r] =
                   Append(@, [field |-> Field(r), matched |-> matched, warned |-> warned])]
  /\ IF GoesOn(r, matched) THEN at' = [at EXCEPT ![r] = @ + 1] /\ Goto(r, "filling")
     ELSE UNCHANGED at /\ Goto(r, "ok")

\* A checkbox: setChecked, whose failure is a result, not an error.
SetChecked(r) ==
  /\ pc[r] = "filling" /\ by[r] = "service" /\ kind[Field(r)] = "checkbox"
  /\ \/ value' = [value EXCEPT ![Field(r)] = r] /\ Push(r, TRUE, FALSE)
     \/ Push(r, FALSE, FALSE) /\ UNCHANGED value
  /\ UNCHANGED <<kind, by, focus>>

\* adapter: the current value is read, and nothing done when it is the wanted one.
ReadCurrent(r) ==
  /\ pc[r] = "reading"
  /\ IF value[Field(r)] = r THEN Push(r, TRUE, FALSE)
     ELSE Goto(r, "filling") /\ UNCHANGED <<at, results>>
  /\ UNCHANGED <<kind, by, value, focus>>

\* The service's fill falls back to the keyboard, the adapter's gives up.
Fill(r) ==
  LET f == Field(r) IN
  /\ pc[r] = "filling" /\ ~(by[r] = "service" /\ kind[f] = "checkbox")
  /\ IF kind[f] \in {"locked", "gone", "checkbox"}
     THEN /\ UNCHANGED <<value, focus>>
          /\ IF by[r] = "service" THEN Goto(r, "clicking") /\ UNCHANGED <<at, results>>
             ELSE Push(r, FALSE, TRUE)
     ELSE /\ value' = [value EXCEPT ![f] = Filled(f, r)] /\ focus' = f
          /\ Goto(r, "verifying") /\ UNCHANGED <<at, results>>
  /\ UNCHANGED <<kind, by>>

\* The click (and selectText) before the keyboard types: it ends the request when
\* it fails.
Click(r) ==
  /\ pc[r] = "clicking"
  /\ IF kind[Field(r)] = "gone" THEN Goto(r, "error") /\ UNCHANGED focus
     ELSE Goto(r, "typing") /\ focus' = Field(r)
  /\ UNCHANGED <<kind, by, value, at, results>>

\* page.keyboard.type: into the field that has the focus now.
TypeText(r) ==
  /\ pc[r] = "typing"
  /\ value' = [value EXCEPT ![focus] = IF kind[focus] = "checkbox" THEN @ ELSE Typed(focus, r)]
  /\ Goto(r, "verifying") /\ UNCHANGED <<kind, by, focus, at, results>>

\* Mutant: filling is taken to have worked.
HoldsAlways(r) == TRUE

\* The field is found to hold what was asked for.
Holds(r) == value[Field(r)] = r

\* inputValue, and the comparison.
Verify(r) ==
  /\ pc[r] = "verifying"
  /\ IF by[r] = "service" \/ Holds(r) THEN Push(r, Holds(r), FALSE)
     ELSE Goto(r, "clearing") /\ UNCHANGED <<at, results>>
  /\ UNCHANGED <<kind, by, value, focus>>

\* adapter: the field is emptied, which may fail, and typed into.
Clear(r) ==
  /\ pc[r] = "clearing"
  /\ \/ /\ value' = [value EXCEPT ![Field(r)] = 0] /\ focus' = Field(r)
        /\ Goto(r, "retyping") /\ UNCHANGED <<at, results>>
     \/ Push(r, FALSE, TRUE) /\ UNCHANGED <<value, focus>>
  /\ UNCHANGED <<kind, by>>

\* Whether the field is warned of after it was typed again.
WarnedAfter(r, matched) == ~matched

\* pressSequentially, and the value read back; typing may fail half way.
Retype(r) ==
  LET f == Field(r) typed == Typed(f, r) IN
  /\ pc[r] = "retyping"
  /\ \/ /\ value' = [value EXCEPT ![f] = typed]
        /\ Push(r, typed = r, WarnedAfter(r, typed = r))
     \/ /\ value' = [value EXCEPT ![f] = -1] /\ Push(r, FALSE, TRUE)
  /\ UNCHANGED <<kind, by, focus>>

Next ==
  \E r \in Requests :
    \/ SetChecked(r) \/ ReadCurrent(r) \/ Fill(r) \/ Click(r) \/ TypeText(r)
    \/ Verify(r) \/ Clear(r) \/ Retype(r)

Spec == Init /\ [][Next]_vars

-----------------------------------------------------------------------------
\* A fill that is answered reports on every field, in order: neither a checkbox
\* that cannot be set nor a field that holds something else ends it.
EveryFieldReported ==
  \A r \in Requests : pc[r] = "ok" /\ by[r] = "service" =>
    [i \in DOMAIN results[r] |-> results[r][i].field] = Fields

\* A text field is reported as matched only while it holds the value, although
\* other fills may have taken the focus and typed or filled meanwhile.
ReportsHeldFields ==
  \A r \in Requests :
    results'[r] # results[r] /\ Last(results'[r]).matched =>
      value'[Last(results'[r]).field] = r
===============================================================================
