--------------------------- MODULE ControlTokens ---------------------------
(***************************************************************************)
(* Control tokens (shared/utils/control-token.ts): issued for a run with a *)
(* lifetime, verified once by GET /control and again by the upgrade of     *)
(* /control/live while the clock moves.  A token is the record of what     *)
(* verifyControlToken reads of it; encoding and HMAC are the field signed. *)
(***************************************************************************)
EXTENDS Integers

CONSTANTS
  MinLife, DefaultLife,  \* seconds: 30 and 900 in the code
  Asked,                 \* the lifetimes callers ask for
  Horizon,               \* bound: the clock stops here
  None

VARIABLES
  now,
  token,     \* the token in the caller's hands, or None
  issuedAt,  \* when this service issued it, None for another issuer's token
  told,      \* the lifetime its issuer was told
  phase      \* "minted", "checked" by /control, "live" or "refused"

vars == <<now, token, issuedAt, told, phase>>

Tri == {"absent", "ours", "other"}
Tokens ==
  [signed : BOOLEAN, hs256 : BOOLEAN, exp : {None} \union 0..Horizon, nbf : {None} \union 0..Horizon,
   iss : Tri, aud : Tri, scoped : BOOLEAN, ourType : BOOLEAN, run : BOOLEAN]

TypeOK ==
  /\ now \in 0..Horizon
  /\ token = None \/ DOMAIN token = {"signed", "hs256", "exp", "nbf", "iss", "aud", "scoped", "ourType", "run"}
  /\ issuedAt \in {None} \union 0..now
  /\ told \in {None} \union Asked \union {MinLife, DefaultLife}
  /\ phase \in {"none", "minted", "checked", "live", "refused"}

Init == now = 0 /\ token = None /\ issuedAt = None /\ told = None /\ phase = "none"

\* A lifetime that is not given is the default; a short one is raised.
Floored(a) == IF a = None THEN DefaultLife ELSE IF a < MinLife THEN MinLife ELSE a

LifeClaimed(a) == Floored(a)

\* generate-control-token: a run id is required, then createControlToken.
Create(a) ==
  /\ token = None
  /\ token' = [signed |-> TRUE, hs256 |-> TRUE, exp |-> now + LifeClaimed(a), nbf |-> now,
               iss |-> "ours", aud |-> "ours", scoped |-> TRUE, ourType |-> TRUE, run |-> TRUE]
  /\ issuedAt' = now
  /\ told' = Floored(a)
  /\ phase' = "minted"
  /\ UNCHANGED now

\* A token from elsewhere: at most two of its claims differ from a good one.
Bring ==
  /\ token = None
  /\ \E e, n \in {None} \union 0..Horizon, i, a \in Tri, b \in BOOLEAN,
        f \in {"none", "signed", "hs256", "scoped", "ourType", "run"} :
       token' = [signed |-> f # "signed", hs256 |-> f # "hs256", exp |-> e, nbf |-> n, iss |-> i,
                 aud |-> a, scoped |-> b /\ f # "scoped", ourType |-> f # "ourType", run |-> f # "run"]
  /\ phase' = "minted"
  /\ UNCHANGED <<now, issuedAt, told>>

\* exp is the first second at which the token is refused.
Expired(t) == t.exp = None \/ t.exp = 0 \/ t.exp <= now

\* Mutant: the comparison the other way round.
NotActiveSwapped(t) == t.nbf # None /\ t.nbf < now

\* The token is not valid yet.
NotActive(t) == t.nbf # None /\ t.nbf > now

\* verifyControlToken accepts t.
Verified(t) ==
  /\ t.hs256 /\ t.signed
  /\ ~Expired(t) /\ ~NotActive(t)
  /\ t.iss # "other" /\ t.aud # "other"
  /\ t.scoped /\ t.ourType

\* GET /control answers with the address of the socket, or 401.
Control ==
  /\ phase = "minted"
  /\ phase' = IF Verified(token) THEN "checked" ELSE "refused"
  /\ UNCHANGED <<now, token, issuedAt, told>>

\* The upgrade verifies the token again.
Live ==
  /\ phase \in {"minted", "checked"}
  /\ phase' = IF Verified(token) THEN "live" ELSE "refused"
  /\ UNCHANGED <<now, token, issuedAt, told>>

Tick == now < Horizon /\ now' = now + 1 /\ UNCHANGED <<token, issuedAt, told, phase>>

Next == (\E a \in Asked \union {None} : Create(a)) \/ Bring \/ Control \/ Live \/ Tick

Spec == Init /\ [][Next]_vars

-----------------------------------------------------------------------------
\* A token this service issued is accepted from the second it was issued and
\* for exactly the lifetime its issuer was told, not a second less or more.
IssuedTokensLast ==
  issuedAt # None => (Verified(token) <=> now < issuedAt + told)

\* Verifying the token twice can only fail the second time because the token
\* expired in between: the socket address that /control gave stays good.
CheckedStaysGood ==
  phase = "checked" => Verified(token) \/ token.exp <= now
============================================================================
