--------------------------- MODULE ChromeLauncher ---------------------------
(***************************************************************************)
(* Launching and stopping local Chromes on one debugging port              *)
(* (adapters/chrome/chrome-launcher.adapter.ts and                         *)
(* adapters/browser/local.browser-runtime.adapter.ts).                     *)
(*                                                                         *)
(* A caller launches a Chrome, uses it and releases it.  A Chrome that     *)
(* starts while another one owns the profile directory exits at once: both *)
(* would have the same directory, as it is named after profile and port.   *)
(***************************************************************************)
EXTENDS Naturals, FiniteSets

CONSTANTS
  Callers,
  Chromes,       \* processes the launcher may spawn
  MaxAttempts,   \* readiness attempts: 30 in the code
  MaxWaits,      \* rounds a stop waits: 25 of 100 ms in the code
  None

VARIABLES
  proc,      \* each process: "none", "starting", "serving", "hung", "dying" (SIGTERM), "dead"
  killed,    \* process.killed: a signal was delivered to it
  running,   \* the launcher's entry for the port
  at,        \* where each caller is
  chrome,    \* the process a caller launched or stops
  tries,     \* readiness attempts, or rounds of a stop
  sigkilled  \* processes that were sent SIGKILL

vars == <<proc, killed, running, at, chrome, tries, sigkilled>>

Alive(c) == proc[c] \in {"starting", "serving", "hung", "dying"}

\* isReachable: some Chrome answers on the port within the time limit.
Reachable == \E c \in Chromes : proc[c] = "serving"

TypeOK ==
  /\ proc \in [Chromes -> {"none", "starting", "serving", "hung", "dying", "dead"}]
  /\ killed \subseteq Chromes /\ sigkilled \subseteq killed
  /\ running \in Chromes \union {None}
  /\ at \in [Callers -> {"idle", "waiting", "failed", "using", "stopping"}]
  /\ chrome \in [Callers -> Chromes \union {None}]
  /\ tries \in [Callers -> 0..MaxAttempts + MaxWaits]

Init ==
  /\ proc = [c \in Chromes |-> "none"] /\ killed = {} /\ sigkilled = {}
  /\ running = None
  /\ at = [u \in Callers |-> "idle"] /\ chrome = [u \in Callers |-> None]
  /\ tries = [u \in Callers |-> 0]

\* launch: spawn, and the entry of the port is set before Chrome is ready.
Launch(u, c) ==
  /\ at[u] = "idle" /\ proc[c] = "none"
  /\ proc' = [proc EXCEPT ![c] = "starting"]
  /\ running' = c
  /\ at' = [at EXCEPT ![u] = "waiting"]
  /\ chrome' = [chrome EXCEPT ![u] = c]
  /\ tries' = [tries EXCEPT ![u] = 0]
  /\ UNCHANGED <<killed, sigkilled>>

\* Whether the readiness check gives up.
OutOfAttempts(u) == tries[u] + 1 >= MaxAttempts

\* waitForChromeReady: one attempt. A launch that fails leaves the process and
\* its entry behind.
Attempt(u) ==
  /\ at[u] = "waiting"
  /\ IF Reachable THEN at' = [at EXCEPT ![u] = "using"] /\ UNCHANGED tries
     ELSE IF OutOfAttempts(u) THEN at' = [at EXCEPT ![u] = "failed"] /\ UNCHANGED tries
     ELSE tries' = [tries EXCEPT ![u] = (tries[u] + 1) % MaxAttempts] /\ UNCHANGED at
  /\ UNCHANGED <<proc, killed, running, chrome, sigkilled>>

\* The caller of a launch that failed gets the error; it may try again.
GivesUp(u) ==
  /\ at[u] = "failed"
  /\ at' = [at EXCEPT ![u] = "idle"] /\ chrome' = [chrome EXCEPT ![u] = None]
  /\ UNCHANGED <<proc, killed, running, tries, sigkilled>>

\* isAvailable says no: the session launches again on its port.
Relaunch(u) ==
  /\ at[u] = "using" /\ ~Reachable
  /\ at' = [at EXCEPT ![u] = "idle"] /\ chrome' = [chrome EXCEPT ![u] = None]
  /\ UNCHANGED <<proc, killed, running, tries, sigkilled>>

\* SIGTERM reaches a live process only.
Terminated(c) == IF Alive(c) THEN [proc EXCEPT ![c] = "dying"] ELSE proc

\* releaseBrowser: the entry of the port, whoever launched it, is stopped.
Release(u) ==
  /\ at[u] = "using"
  /\ \/ /\ running = None \/ running \in killed
        /\ at' = [at EXCEPT ![u] = "idle"] /\ chrome' = [chrome EXCEPT ![u] = None]
        /\ UNCHANGED <<proc, killed, tries>>
     \/ /\ running # None /\ running \notin killed
        /\ proc' = Terminated(running)
        /\ killed' = IF Alive(running) THEN killed \union {running} ELSE killed
        /\ at' = [at EXCEPT ![u] = "stopping"] /\ chrome' = [chrome EXCEPT ![u] = running]
        /\ tries' = [tries EXCEPT ![u] = 0]
  /\ UNCHANGED <<running, sigkilled>>

\* The wait is over: the signal was delivered, as process.killed tells, the
\* port is quiet, or time is up.
StopGoesOn(u) == chrome[u] \notin killed /\ Reachable /\ tries[u] < MaxWaits

StopWaits(u) ==
  /\ at[u] = "stopping" /\ StopGoesOn(u)
  /\ tries' = [tries EXCEPT ![u] = tries[u] + 1]
  /\ UNCHANGED <<proc, killed, running, at, chrome, sigkilled>>

\* Mutant: a stop that trusts the first signal.
ForcedNever(u) == FALSE

\* SIGKILL, unless the signal found no process and the port is quiet.
Forced(u) == chrome[u] \in killed \/ Reachable
StopEnds(u) ==
  /\ at[u] = "stopping" /\ ~StopGoesOn(u)
  /\ LET c == chrome[u] hit == Forced(u) /\ Alive(c) IN
       /\ proc' = IF hit THEN [proc EXCEPT ![c] = "dead"] ELSE proc
       /\ sigkilled' = IF hit THEN sigkilled \union {c} ELSE sigkilled
       /\ killed' = IF hit THEN killed \union {c} ELSE killed
  /\ running' = None
  /\ at' = [at EXCEPT ![u] = "idle"] /\ chrome' = [chrome EXCEPT ![u] = None]
  /\ UNCHANGED tries

\* Chrome gets ready, or finds its directory taken and exits.
ChromeStarts(c) ==
  /\ proc[c] = "starting"
  /\ proc' = [proc EXCEPT ![c] = IF \E d \in Chromes \ {c} : proc[d] \in {"serving", "hung", "dying"} THEN "dead" ELSE "serving"]
  /\ UNCHANGED <<killed, running, at, chrome, tries, sigkilled>>

\* Chrome hangs, crashes, or a dying one is gone.
ChromeFails(c) ==
  /\ \/ proc[c] \in {"starting", "serving"} /\ \E s \in {"hung", "dead"} : proc' = [proc EXCEPT ![c] = s]
     \/ proc[c] = "dying" /\ proc' = [proc EXCEPT ![c] = "dead"]
  /\ UNCHANGED <<killed, running, at, chrome, tries, sigkilled>>

CallerStep(u) == Attempt(u) \/ GivesUp(u) \/ StopWaits(u) \/ StopEnds(u)
Next ==
  \/ \E u \in Callers :
       \/ \E c \in Chromes : Launch(u, c)
       \/ CallerStep(u) \/ Relaunch(u) \/ Release(u)
  \/ \E c \in Chromes : ChromeStarts(c) \/ ChromeFails(c)

\* Attempts are bounded by a timer, and so are the rounds of a stop.
Fairness == \A u \in Callers : WF_vars(CallerStep(u))

Spec == Init /\ [][Next]_vars /\ Fairness

-----------------------------------------------------------------------------
\* A stop returns only when its Chrome is gone, also one that ignores SIGTERM
\* or hangs without answering on its port.
StopLeaves ==
  \A u \in Callers : at[u] = "stopping" /\ at'[u] = "idle" => proc'[chrome[u]] = "dead"
\* A launch and a stop always come to an end, whatever Chrome does.
InCall(u) == at[u] \in {"waiting", "stopping"}
=============================================================================
