------------------------------ MODULE StartUp ------------------------------
(***************************************************************************)
(* Start-up of service instances over one ECS cluster (main.ts, the server *)
(* adapter, the allocator factory, and reconcileOrphans of                 *)
(* ecs-browserless-allocator.adapter.ts).  An instance listens first, then *)
(* stops the tasks that other owners of its scope left behind, while it    *)
(* already serves requests, which start tasks.  Each start of a process is *)
(* an owner of its own: its number stands for process id and time.         *)
(***************************************************************************)
EXTENDS Naturals, FiniteSets

CONSTANTS
  Instances, Tasks,
  MaxStarts       \* bound: processes started, over all instances

Foreign == 0      \* a task without this service's tags

VARIABLES
  starts,       \* processes started so far
  phase,        \* where each instance's main is
  owner,        \* the owner id of its process
  task,         \* each ECS task: none, asked for, live or stopped, and its owner
  listed,       \* reconcileOrphans: the tasks it still has to look at
  orphans,      \* history: tasks live at start-up whose process was dead
  refused,      \* history: AWS refused one of its StopTasks
  stoppedBy     \* history: the process that stopped a task that was no orphan

vars == <<starts, phase, owner, task, listed, orphans, refused, stoppedBy>>

Phases == {"down", "listing", "describing", "stopping", "ready"}
Serving(i) == phase[i] # "down"
OwnerAlive(o) == \E i \in Instances : Serving(i) /\ owner[i] = o
Live(t) == task[t].state = "live"

TypeOK ==
  /\ starts \in 0..MaxStarts
  /\ phase \in [Instances -> Phases]
  /\ owner \in [Instances -> 0..MaxStarts]
  /\ \A i, j \in Instances : Serving(i) /\ Serving(j) /\ owner[i] = owner[j] => i = j
  /\ task \in [Tasks -> [state : {"none", "asked", "live", "stopped"}, owner : 0..MaxStarts]]
  /\ listed \in [Instances -> SUBSET Tasks] /\ orphans \in [Instances -> SUBSET Tasks]
  /\ refused \in [Instances -> BOOLEAN] /\ stoppedBy \in [Tasks -> 0..MaxStarts]

Init ==
  /\ starts = 0
  /\ phase = [i \in Instances |-> "down"] /\ owner = [i \in Instances |-> 0]
  /\ task \in [Tasks -> {[state |-> "none", owner |-> Foreign], [state |-> "live", owner |-> Foreign]}]
  /\ listed = [i \in Instances |-> {}] /\ orphans = [i \in Instances |-> {}]
  /\ refused = [i \in Instances |-> FALSE] /\ stoppedBy = [t \in Tasks |-> 0]

\* main up to the reconciliation: the configuration is valid, the allocator is
\* made with a new owner id, the server listens and the state is set. A start
\* that fails before this exits the process and changes nothing.
Start(i) ==
  /\ phase[i] = "down" /\ starts < MaxStarts
  /\ starts' = starts + 1
  /\ owner' = [owner EXCEPT ![i] = starts + 1]
  /\ phase' = [phase EXCEPT ![i] = "listing"]
  /\ orphans' = [orphans EXCEPT ![i] = {t \in Tasks : Live(t) /\ task[t].owner # Foreign /\ ~OwnerAlive(task[t].owner)}]
  /\ refused' = [refused EXCEPT ![i] = FALSE]
  /\ UNCHANGED <<task, listed, stoppedBy>>

\* A request of a serving instance asks ECS for a task with its owner's tags.
RunTask(i, t) ==
  /\ Serving(i) /\ task[t].state = "none"
  /\ task' = [task EXCEPT ![t] = [state |-> "asked", owner |-> owner[i]]]
  /\ UNCHANGED <<starts, phase, owner, listed, orphans, refused, stoppedBy>>

\* ECS starts it, whatever became of who asked, or refuses.
TaskAppears(t) ==
  /\ task[t].state = "asked"
  /\ \E s \in {"live", "none"} : task' = [task EXCEPT ![t].state = s]
  /\ UNCHANGED <<starts, phase, owner, listed, orphans, refused, stoppedBy>>

\* listTasks, then describeTasks: what is live at each of the two calls.
ListTasks(i) ==
  /\ phase[i] = "listing"
  /\ phase' = [phase EXCEPT ![i] = "describing"]
  /\ listed' = [listed EXCEPT ![i] = {t \in Tasks : Live(t)}]
  /\ UNCHANGED <<starts, owner, task, orphans, refused, stoppedBy>>

\* Mutant: a check of the scope only.
ToStopAnyOwner(i) == {t \in listed[i] : task[t].owner # Foreign}

\* The tasks to stop: tagged with the service's scope, by another owner.
ToStop(i) == {t \in listed[i] : task[t].owner # Foreign /\ task[t].owner # owner[i]}

DescribeTasks(i) ==
  /\ phase[i] = "describing"
  /\ phase' = [phase EXCEPT ![i] = "stopping"]
  /\ listed' = [listed EXCEPT ![i] = {t \in ToStop(i) : Live(t)}]
  /\ UNCHANGED <<starts, owner, task, orphans, refused, stoppedBy>>

\* A list or describe call rejects: main rejects, and the process exits.
ReconcileFails(i) ==
  /\ phase[i] \in {"listing", "describing"}
  /\ phase' = [phase EXCEPT ![i] = "down"]
  /\ listed' = [listed EXCEPT ![i] = {}]
  /\ UNCHANGED <<starts, owner, task, orphans, refused, stoppedBy>>

\* StopTask of one of them; a refusal is logged and the loop goes on.
StopTask(i, t) ==
  /\ phase[i] = "stopping" /\ t \in listed[i]
  /\ listed' = [listed EXCEPT ![i] = @ \ {t}]
  /\ \/ /\ task' = [task EXCEPT ![t].state = "stopped"]
        /\ stoppedBy' = IF Live(t) /\ (task[t].owner = Foreign \/ OwnerAlive(task[t].owner))
                        THEN [stoppedBy EXCEPT ![t] = owner[i]] ELSE stoppedBy
        /\ UNCHANGED refused
     \/ refused' = [refused EXCEPT ![i] = TRUE] /\ UNCHANGED <<task, stoppedBy>>
  /\ UNCHANGED <<starts, phase, owner, orphans>>

\* Every StopTask was awaited.
Awaited(i) == listed[i] = {}

\* The WebSocket server is installed once every task was handled.
Ready(i) ==
  /\ phase[i] = "stopping" /\ Awaited(i)
  /\ phase' = [phase EXCEPT ![i] = "ready"]
  /\ listed' = [listed EXCEPT ![i] = {}]
  /\ UNCHANGED <<starts, owner, task, orphans, refused, stoppedBy>>

\* The process dies; its tasks go on.
Crash(i) ==
  /\ Serving(i)
  /\ phase' = [phase EXCEPT ![i] = "down"]
  /\ listed' = [listed EXCEPT ![i] = {}]
  /\ UNCHANGED <<starts, owner, task, orphans, refused, stoppedBy>>

Next ==
  \/ \E i \in Instances :
       \/ Start(i) \/ ListTasks(i) \/ DescribeTasks(i) \/ ReconcileFails(i) \/ Ready(i) \/ Crash(i)
       \/ \E t \in Tasks : RunTask(i, t) \/ StopTask(i, t)
  \/ \E t \in Tasks : TaskAppears(t)

Spec == Init /\ [][Next]_vars

-----------------------------------------------------------------------------
\* A process that started with tasks of dead processes around, and was refused
\* no StopTask, is ready only when all of them are stopped.
ReadyMeansClean ==
  \A i \in Instances : phase[i] = "ready" /\ ~refused[i] => \A t \in orphans[i] : ~Live(t)

\* No process stops a task it started itself, also when requests start tasks
\* while it reconciles, and none stops a task of another service.
OwnTasksSurvive ==
  \A t \in Tasks : stoppedBy[t] # 0 => task[t].owner \notin {Foreign, stoppedBy[t]}
============================================================================
