------------------------------- MODULE ActRequests -------------------------------
(***************************************************************************)
(* POST /act up to the page: the gate of ActionCompatController, which     *)
(* trims and converts, and the validator behind it                         *)
(* (api/validators/action.validator.ts), which does neither.  A request    *)
(* passes both.  Some handlers validate before their try block: what the   *)
(* validator throws there rejects a promise nobody awaits, and main.ts     *)
(* ends the process on an unhandled rejection.                             *)
(***************************************************************************)
EXTENDS Naturals

\* What the JSON value of a field may be.  A padded text has spaces around one of
\* the names the field knows (an enumerated one); other is a value of another type.
Texts == {"absent", "blank", "word", "padded", "enum", "other"}
Numbers == {"absent", "blank", "word", "numeral", "zero", "number", "other"}
Lists == {"absent", "empty", "strings", "enums", "mixed", "other"}

\* The fields of each kind of action that its handling tells apart.
TextFields == [
  click |-> {"ref", "button"}, type |-> {"ref", "text"}, press |-> {"key"}, hover |-> {"ref"},
  navigate |-> {"url"}, fill |-> {}, select |-> {"ref"}, drag |-> {"startRef", "endRef"},
  resize |-> {}, wait |-> {"text", "loadState", "fn"}, evaluate |-> {"fn", "ref"}, close |-> {},
  query_state |-> {"ref"}, scrollIntoView |-> {"ref"}, discover_dropdown |-> {"ref", "searchText"},
  close_dropdown |-> {"ref"}, detect_blocker |-> {"ref"}, dismiss_blocker |-> {"targetRef", "strategy"}]

Kinds == DOMAIN TextFields
NumberFields(k) == IF k = "resize" THEN {"width", "height"} ELSE IF k = "wait" THEN {"timeMs"} ELSE {}
ListFields(k) ==
  CASE k = "click" -> {"modifiers"} [] k = "select" -> {"values"}
    [] k = "fill" -> {"fields"} [] k = "query_state" -> {"refs"} [] OTHER -> {}

Given(k) ==
  {g \in [TextFields[k] \cup NumberFields(k) \cup ListFields(k) -> Texts \cup Numbers \cup Lists] :
     /\ \A f \in TextFields[k] : g[f] \in Texts
     /\ \A f \in NumberFields(k) : g[f] \in Numbers
     /\ \A f \in ListFields(k) : g[f] \in Lists}

VARIABLES
  kind, given,
  runGiven,         \* run_id is there
  selectorGiven,    \* so is a selector
  evaluateEnabled,  \* browser.evaluateEnabled
  place             \* arrived, gated, handed to the page's services, an HTTP status, or exited

vars == <<kind, given, runGiven, selectorGiven, evaluateEnabled, place>>

TypeOK ==
  /\ kind \in Kinds /\ {runGiven, selectorGiven, evaluateEnabled} \subseteq BOOLEAN
  /\ place \in {"arrived", "gated", "handed", "400", "403", "exited"}

Init ==
  /\ kind \in Kinds /\ given \in Given(kind)
  /\ runGiven \in BOOLEAN /\ selectorGiven \in BOOLEAN /\ evaluateEnabled \in BOOLEAN
  /\ place = "arrived"

\* toStringOrEmpty gives something
NonBlank(v) == v \in {"word", "padded", "enum"}

\* toNumber and coerceNumber: a blank text is the number 0
IsNumber(v) == v \in {"blank", "numeral", "zero", "number"}

\* The texts that a kind of action cannot go without.
Required == [k \in Kinds |->
  CASE k = "drag" -> {"startRef", "endRef"} [] k = "press" -> {"key"} [] k = "navigate" -> {"url"}
    [] k = "evaluate" -> {"fn"} [] k = "dismiss_blocker" -> {"targetRef"}
    [] k \in {"wait", "query_state"} -> {} [] OTHER -> TextFields[k] \cap {"ref"}]

\* parseClickButton and parseClickModifiers
GateClick(g) == g.button \in Texts \ {"word"} /\ g.modifiers \notin {"strings", "mixed"}

GateWait(g) ==
  IsNumber(g.timeMs) \/ NonBlank(g.text) \/ g.loadState \in {"padded", "enum"} \/ NonBlank(g.fn)

\* The conditions of handleAct beyond the required texts.
GateRest(k, g) ==
  /\ k = "click" => GateClick(g)
  /\ k = "type" => g.text \notin {"absent", "other"}
  /\ k = "fill" => g.fields \in {"enums", "mixed"}
  /\ k = "select" => g.values \in {"strings", "enums", "mixed"}
  /\ k = "resize" => {g.width, g.height} \subseteq {"numeral", "number"}
  /\ k = "wait" => GateWait(g)
  /\ k = "query_state" => NonBlank(g.ref) \/ g.refs \in {"strings", "enums", "mixed"}

\* Mutant: a text is there when the field is.
GatePassesPresent(k, g) == (\A f \in Required[k] : g[f] \notin {"absent", "other"}) /\ GateRest(k, g)
GatePasses(k, g) == (\A f \in Required[k] : NonBlank(g[f])) /\ GateRest(k, g)

\* A wait for a function is refused where evaluation is off.
Refused(k, g) == k = "wait" /\ NonBlank(g.fn) /\ ~evaluateEnabled

\* handleAct
Gate ==
  /\ place = "arrived"
  /\ place' = IF ~runGiven \/ (selectorGiven /\ kind # "wait") THEN "400"
              ELSE IF Refused(kind, given) THEN "403"
              ELSE IF GatePasses(kind, given) THEN "gated" ELSE "400"
  /\ UNCHANGED <<kind, given, runGiven, selectorGiven, evaluateEnabled>>

\* The schemas.  The text of a wait or a dismissal may be missing but not be another
\* value; a number that does not parse counts as missing.  Fills are not validated.
SchemaWait(g) ==
  /\ "other" \notin {g.text, g.loadState, g.fn}
  /\ \/ IsNumber(g.timeMs) \/ g.loadState = "enum"
     \/ {g.text, g.fn} \cap {"blank", "word", "padded", "enum"} # {}

SchemaPasses(k, g) ==
  /\ \A f \in TextFields[k] : g[f] # "other"
  /\ k = "click" => g.button \in {"absent", "enum"} /\ g.modifiers \in {"absent", "empty", "enums"}
  /\ k = "select" => g.values \in {"empty", "strings", "enums"}
  /\ k = "query_state" => g.refs \in {"absent", "empty", "strings", "enums"}
  /\ k = "wait" => SchemaWait(g)

\* A handler: its validator, then the action is handed on.
Handle(otherwise) ==
  /\ place = "gated"
  /\ place' = IF SchemaPasses(kind, given) THEN "handed" ELSE otherwise
  /\ UNCHANGED <<kind, given, runGiven, selectorGiven, evaluateEnabled>>

\* SimpleActionController validates inside its try block.
HandleSimple == kind \in {"click", "type", "press", "hover", "navigate"} /\ Handle("400")

\* FormActionController does not, and parses a fill by itself.
HandleForm ==
  \/ kind = "fill" /\ Handle("400")
  \/ kind \in {"select", "drag", "resize", "wait"} /\ Handle("exited")

\* AdvancedActionController does but for scrollIntoView; evaluation may be off.
HandleAdvanced ==
  \/ kind = "scrollIntoView" /\ Handle("exited")
  \/ /\ kind = "evaluate" /\ ~evaluateEnabled /\ place = "gated" /\ place' = "403"
     /\ UNCHANGED <<kind, given, runGiven, selectorGiven, evaluateEnabled>>
  \/ /\ \/ kind = "evaluate" /\ evaluateEnabled
        \/ kind \in {"close", "query_state", "discover_dropdown", "close_dropdown",
                    "detect_blocker", "dismiss_blocker"}
     /\ Handle("400")

Next == Gate \/ HandleSimple \/ HandleForm \/ HandleAdvanced

Spec == Init /\ [][Next]_vars

-----------------------------------------------------------------------------
\* What reaches the page can be carried out as the caller meant it: refs and keys
\* say something, lists hold texts only and a button is one the page knows,
\* although neither the gate nor the schemas check all of it.
HandedIsUsable ==
  place = "handed" =>
    /\ \A f \in DOMAIN given \cap {"startRef", "endRef", "targetRef", "key", "url"} : NonBlank(given[f])
    /\ kind \notin {"wait", "query_state", "evaluate"} =>
         \A f \in DOMAIN given \cap {"ref"} : NonBlank(given[f])
    /\ \A f \in DOMAIN given \cap {"values", "refs", "modifiers"} : given[f] \notin {"mixed", "other"} \/ kind = "fill"
    /\ kind = "click" => given.button # "padded"

\* With evaluation off no request makes the page run the caller's code, whichever
\* kind carries it (docs/api-reference/act.md:121 and :127).
NoCodeWhenDisabled ==
  place = "handed" /\ ~evaluateEnabled => kind # "evaluate" /\ ("fn" \in DOMAIN given => ~NonBlank(given.fn))
===============================================================================
