------------------------------ MODULE PageActivity ------------------------------
(***************************************************************************)
(* What the session service records of a page's events                     *)
(* (initializePageState and setupPageObservers of                          *)
(* core/services/session.service.ts), in buffers of bounded length.        *)
(* Requests are numbered in the order the page sends them; request 1 may   *)
(* have been sent before the observers were there.  Console messages and   *)
(* page errors are kept like the requests and are not told apart from each *)
(* other.                                                                  *)
(***************************************************************************)
EXTENDS Naturals, SequencesExt

CONSTANTS
  MaxSent,       \* bound: requests a page sends
  MaxMessages,   \* bound: console messages
  MaxRequests,   \* MAX_NETWORK_REQUESTS
  MaxConsole     \* MAX_CONSOLE_MESSAGES

Outcomes == {"pending", "ok", "failed"}

VARIABLES
  outcome,    \* requests sent so far and how they ended
  seen,       \* requestIds: the id given to a request, 0 for none
  nextId,     \* nextRequestId
  records,    \* requests: the records kept, oldest first
  said,       \* console messages so far
  console     \* the messages kept

vars == <<outcome, seen, nextId, records, said, console>>

Sent == 1..Len(outcome)

TypeOK ==
  /\ outcome \in UNION {[1..n -> Outcomes] : n \in 0..MaxSent}
  /\ seen \in [1..MaxSent -> 0..MaxSent] /\ nextId \in 0..MaxSent
  /\ Len(records) <= MaxRequests
  /\ ToSet(records) \subseteq [id : 1..MaxSent, end : Outcomes]
  /\ said \in 0..MaxMessages /\ Len(console) <= MaxConsole

Init ==
  /\ outcome \in {<<>>, <<"pending">>}
  /\ seen = [r \in 1..MaxSent |-> 0] /\ nextId = 0 /\ records = <<>>
  /\ said = 0 /\ console = <<>>

\* push, and shift when the buffer is over its limit.
Kept(buffer, entry, limit) ==
  LET all == Append(buffer, entry) IN IF Len(all) > limit THEN Tail(all) ELSE all

Request ==
  /\ Len(outcome) < MaxSent
  /\ outcome' = Append(outcome, "pending")
  /\ nextId' = nextId + 1
  /\ seen' = [seen EXCEPT ![Len(outcome) + 1] = nextId + 1]
  /\ records' = Kept(records, [id |-> nextId + 1, end |-> "pending"], MaxRequests)
  /\ UNCHANGED <<said, console>>

\* Mutant: records are taken to be at their id's place.
IsRecordAt(i, r) == seen[r] # 0 /\ i = seen[r]

\* The record of request r: the last one with its id.
IsRecordOf(i, r) == seen[r] # 0 /\ records[i].id = seen[r]

\* 'response' and 'requestfailed' of request r.
Ended(r, end) ==
  /\ outcome[r] = "pending"
  /\ outcome' = [outcome EXCEPT ![r] = end]
  /\ records' = [i \in DOMAIN records |->
                   IF IsRecordOf(i, r) THEN [records[i] EXCEPT !.end = end] ELSE records[i]]
  /\ UNCHANGED <<seen, nextId, said, console>>

Console ==
  /\ said < MaxMessages
  /\ said' = said + 1 /\ console' = Kept(console, said + 1, MaxConsole)
  /\ UNCHANGED <<outcome, seen, nextId, records>>

Next ==
  \/ Request \/ \E r \in Sent : Ended(r, "ok") \/ Ended(r, "failed")
  \/ Console

Spec == Init /\ [][Next]_vars

-----------------------------------------------------------------------------
\* Answers in any order, to requests whose records have been dropped and to
\* requests that were sent before the observers: a record tells how its own
\* request ended, and the records kept are those of the newest requests.
RecordsTellTheirRequest ==
  \A r \in Sent : seen[r] # 0 =>
    IF seen[r] + MaxRequests <= nextId
    THEN \A rec \in ToSet(records) : rec.id # seen[r]
    ELSE \E rec \in ToSet(records) : rec = [id |-> seen[r], end |-> outcome[r]]

\* Of the console messages, too, exactly the newest are kept.
NewestMessagesKept == \A m \in 1..said : m \in ToSet(console) <=> m + MaxConsole > said
===============================================================================
