---------------------------- MODULE CommandReplies ----------------------------
(***************************************************************************)
(* What the extension relay promises to a CDP client about its commands:   *)
(* each is settled at most once, and a result is that of the command's own *)
(* execution in the browser.                                               *)
(***************************************************************************)
CONSTANTS Commands, None

VARIABLES
  status,  \* of each command
  result   \* the command whose result was returned for it

vars == <<status, result>>

Init ==
  /\ status = [c \in Commands |-> "unsent"]
  /\ result = [c \in Commands |-> None]

Submit(c) ==
  /\ status[c] = "unsent"
  /\ status' = [status EXCEPT ![c] = "pending"]
  /\ UNCHANGED result

\* An answer, an error, or nothing because the client has gone; some commands
\* are settled as they arrive.
Settle(c) ==
  /\ status[c] \in {"unsent", "pending"}
  /\ \/ /\ status' = [status EXCEPT ![c] = "answered"]
        /\ result' = [result EXCEPT ![c] = c]
     \/ /\ \E outcome \in {"failed", "dropped"} : status' = [status EXCEPT ![c] = outcome]
        /\ UNCHANGED result

\* The extension disconnects: everything pending ends at once.
Disconnect ==
  /\ status' = [c \in Commands |-> IF status[c] = "pending" THEN "dropped" ELSE status[c]]
  /\ UNCHANGED result

Next == Disconnect \/ \E c \in Commands : Submit(c) \/ Settle(c)

Spec == Init /\ [][Next]_vars
===============================================================================
