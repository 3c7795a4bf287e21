------------------------------ MODULE RoleSnapshots ------------------------------
(***************************************************************************)
(* A snapshot of a page: SnapshotService.captureSnapshot cuts the text     *)
(* that Playwright returns and reads the refs out of it                    *)
(* (buildRoleSnapshotFromAiSnapshot); buildRoleSnapshotFromAriaSnapshot    *)
(* numbers the elements of a text without refs itself.  A line is what     *)
(* the regular expressions of adapters/playwright/                         *)
(* playwright.role-snapshot.adapter.ts see of it.                          *)
(***************************************************************************)
EXTENDS Naturals, Sequences, FiniteSets

CONSTANTS MaxLines   \* bound: lines of a page

\* Roles of the three tables; url is a line that names no role.
Roles == {"button", "heading", "generic", "url"}
INTERACTIVE_ROLES == {"button"}
CONTENT_ROLES == {"heading"}
STRUCTURAL_ROLES == {"generic"}

\* A line of the page: its indentation, role and name.  Playwright gives every
\* element a ref, here the number of its line.
Lines == {l \in [depth : 0..1, role : Roles, name : {"", "Go"}] : l.role \in {"generic", "url"} => l.name = ""}

VARIABLES
  page,     \* the lines of the text
  options,  \* interactive, compact, maxDepth
  from,     \* the builder: ai or aria
  cut,      \* lines before maxChars cuts the text, and what is left of the next one
  text,     \* the lines of the answer
  refs,     \* its refs
  done

vars == <<page, options, from, cut, text, refs, done>>

Rests == {"none", "beforeRef", "inRef", "whole"}

TypeOK ==
  /\ page \in UNION {[1..n -> Lines] : n \in 1..MaxLines}
  /\ options \in [interactive : BOOLEAN, compact : BOOLEAN, maxDepth : 0..1]
  /\ from \in {"ai", "aria"} /\ done \in BOOLEAN
  /\ cut.lines \in 0..Len(page) /\ cut.rest \in Rests
  /\ text \subseteq 1..Len(page)
  /\ \A r \in refs : r.line \in 1..Len(page) /\ r.role \in Roles /\ r.nth \in 0..Len(page)

Init ==
  /\ page \in UNION {[1..n -> Lines] : n \in 1..MaxLines}
  /\ options \in [interactive : BOOLEAN, compact : BOOLEAN, maxDepth : 0..1]
  /\ from \in {"ai", "aria"}
  /\ cut \in [lines : 0..Len(page), rest : Rests]
  /\ from = "aria" => cut.lines = Len(page)
  /\ cut.lines = Len(page) => cut.rest = "none"
  /\ text = {} /\ refs = {} /\ done = FALSE

\* Mutant: a ref is taken although its closing bracket was cut off.
ShownRefsCutToo ==
  {i \in 1..Len(page) : page[i].role # "url" /\ (i <= cut.lines \/ (i = cut.lines + 1 /\ cut.rest \in {"inRef", "whole"}))}

\* The refs that the text shows, with the number of the line: a line that is cut shows
\* its ref only when nothing of it is missing.
ShownRefs == {i \in 1..Len(page) : page[i].role # "url" /\ (i <= cut.lines \/ (i = cut.lines + 1 /\ cut.rest = "whole"))}

\* Whether buildRoleSnapshotFromAiSnapshot looks at a line.
Kept(l) ==
  /\ l.depth <= options.maxDepth
  /\ options.interactive => l.role \in INTERACTIVE_ROLES
  /\ ~options.interactive /\ options.compact => ~(l.role \in STRUCTURAL_ROLES /\ l.name = "")

RefOf(i, nth) == [line |-> i, role |-> page[i].role, name |-> page[i].name, nth |-> nth]

\* captureSnapshot: refs from the cut text; the text is what Playwright returned.
\* What the builder made of the text, its filters and compactTree, is not used.
CaptureSnapshot ==
  /\ from = "ai" /\ ~done /\ done' = TRUE
  /\ text' = 1..(cut.lines + (IF cut.rest = "none" THEN 0 ELSE 1))
  /\ refs' = {RefOf(i, 0) : i \in {j \in ShownRefs : Kept(page[j])}}
  /\ UNCHANGED <<page, options, from, cut>>

\* The lines that the other builder gives a ref: interactive ones, and content with a name.
HasRef(l) ==
  /\ l.depth <= options.maxDepth /\ l.role # "url"
  /\ l.role \in INTERACTIVE_ROLES \/ (~options.interactive /\ l.role \in CONTENT_ROLES /\ l.name # "")
Numbered == {i \in 1..Len(page) : HasRef(page[i])}
SameKey(i, j) == page[i].role = page[j].role /\ page[i].name = page[j].name

\* getNextIndex: how many lines with the same role and name came before.
NextIndex(i) == Cardinality({j \in Numbered : j < i /\ SameKey(i, j)})

\* compactTree: a line without a ref stays for its property or for a ref below it.
Relevant(i, lines) ==
  \/ i \in Numbered \/ page[i].role = "url"
  \/ \E j \in lines : /\ j > i /\ j \in Numbered
                      /\ \A k \in lines : i < k /\ k <= j => page[k].depth > page[i].depth

\* processLine keeps lines that get no ref, unless only interactive ones are asked for.
Processed ==
  {i \in 1..Len(page) :
     /\ page[i].depth <= options.maxDepth
     /\ IF options.interactive THEN i \in Numbered
        ELSE ~(options.compact /\ page[i].role \in STRUCTURAL_ROLES /\ page[i].name = "")}

AriaText == IF options.compact /\ ~options.interactive THEN {i \in Processed : Relevant(i, Processed)} ELSE Processed

\* buildRoleSnapshotFromAriaSnapshot: nth is dropped where role and name are unique.
BuildFromAria ==
  /\ from = "aria" /\ ~done /\ done' = TRUE
  /\ text' = AriaText
  /\ refs' = {RefOf(i, NextIndex(i)) : i \in Numbered}
  /\ UNCHANGED <<page, options, from, cut>>

Next == CaptureSnapshot \/ BuildFromAria

Spec == Init /\ [][Next]_vars

-----------------------------------------------------------------------------
\* A ref of the answer can be read in the text of the answer: nothing that was cut
\* off, in whole or in part, has a ref.
RefsAreShown ==
  \A r \in refs : /\ r.line \in text
                  /\ r.line > cut.lines => r.line = cut.lines + 1 /\ cut.rest = "whole"

\* Refs answer the options: only actionable elements and none too deep.
RefsFollowOptions ==
  \A r \in refs : /\ options.interactive => r.role \in INTERACTIVE_ROLES
                  /\ page[r.line].depth <= options.maxDepth

\* Role, name and nth tell the elements of a snapshot apart: they are all that
\* resolveRefLocator has to find one by.
RoleRefsAreDistinct ==
  from = "aria" => \A r, s \in refs : [r EXCEPT !.line = 0] = [s EXCEPT !.line = 0] => r = s

\* docs/api-reference/snapshot.md:17 and :104: interactiveOnly reduces the tree to
\* interactive elements.
TextFollowsOptions ==
  done /\ options.interactive => \A i \in text : page[i].role \in INTERACTIVE_ROLES
===============================================================================
