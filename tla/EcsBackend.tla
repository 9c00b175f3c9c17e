----------------------------- MODULE EcsBackend -----------------------------
(***************************************************************************)
(* The container lifecycle of the ECS backend (backends/ecs): API calls,   *)
(* the goroutines they leave behind (pollTaskExit, launchAfterStdin) and   *)
(* clients in docker wait, over maps that a restart of the backend loses   *)
(* and tasks that it does not.                                             *)
(*                                                                         *)
(* A step ends where the code calls ECS or waits: everything it does to    *)
(* its maps between two such points is one step.  Containers are outside   *)
(* any pod (PodDeferredStart lets them pass), references are full ids, and *)
(* the id of a container is never reused.                                  *)
(***************************************************************************)
EXTENDS Naturals, FiniteSets, FiniteSetsExt

CONSTANTS Containers,   \* container ids
          Interactive,  \* those created with OpenStdin
          Calls,        \* API calls that may be in flight at a time
          Launchers,    \* launchAfterStdin goroutines
          Waiters,      \* clients in docker wait
          None,         \* no container
          MaxTasks,     \* bounds: tasks ever run,
          MaxChs,       \*   wait channels made between two restarts,
          MaxCrashes    \*   restarts of the backend

ASSUME EcsAssumption == /\ Interactive \subseteq Containers
                        /\ None \notin Containers
                        /\ MaxTasks \in Nat /\ MaxChs \in Nat
                        /\ MaxCrashes \in Nat

Tasks == 1 .. MaxTasks
Chs == 1 .. MaxChs

VARIABLES
  \* the cloud
  owner,      \* owner[t]: the sockerless-container-id tag of task t
  status,     \* status[t]: its LastStatus; FAILED is STOPPED without exit code,
              \*   GONE a task that ECS has dropped
  told,       \* the tasks that StopTask has told to stop and that still run
  \* memory of the backend
  pending,    \* pending[c]: State.Status of c in PendingCreates, or "none"
  ecs,        \* ecs[c]: the entry of c in the ECS state store
  registry,   \* registry[t]: the entry of t in the ResourceRegistry
  waitCh,     \* waitCh[c]: the channel of c in Store.WaitChs, 0 for none
  closed,     \* the wait channels that are closed
  pipe,       \* the containers with a pipe in stdinPipes
  \* goroutines
  call,       \* call[a]: where API call a is, and what it holds
  launch,     \* launch[l]: where launcher l is, and what it holds
  pollers,    \* the pollTaskExit goroutines
  wait,       \* wait[w]: where docker wait w is
  \* counters and history
  tasks, chs, crashes,  \* tasks run, channels made, restarts
  life,       \* life[c]: "new", "made", "removed" or "pruned"
  erased,     \* tasks of removed containers that the removal's listings gave
  loose,      \* tasks that no call of ContainerStart saw to RUNNING or its end,
              \*   or that a failed cloud call kept from being stopped
  past        \* past[c]: what c went through, see Past

cloud == <<owner, status, told>>
memory == <<pending, ecs, registry, waitCh, closed, pipe>>
goroutines == <<call, launch, pollers, wait>>
counters == <<tasks, chs, crashes>>
history == <<life, erased, loose, past>>
vars == <<cloud, memory, goroutines, counters, history>>

-----------------------------------------------------------------------------
\* Types.

LastStatus == {"none", "PENDING", "RUNNING", "STOPPING", "STOPPED", "FAILED",
               "GONE"}
DockerStatus == {"created", "running", "unknown", "exited"}
Entry == [known : BOOLEAN, stdin : BOOLEAN, task : 0 .. MaxTasks]
At == {"idle", "start", "run", "await", "stop", "kill", "restart", "remove",
       "prune", "stdin"}
Frame == [at : At, c : Containers \cup {None}, ch : 0 .. MaxChs,
          t : 0 .. MaxTasks]
\* Calls on the container overlapped; docker restarts of it did; ECS dropped a
\* task that stood for it, or all of them before a restart of the backend.
Past == {"overlap", "restarts", "expired"}
Poller == [c : Containers, t : Tasks, ch : Chs, saw : BOOLEAN]
WaitFrame == [at : {"idle", "chan", "poll"}, c : Containers \cup {None},
              ch : 0 .. MaxChs]

Idle == [at |-> "idle", c |-> None, ch |-> 0, t |-> 0]
WaitIdle == [at |-> "idle", c |-> None, ch |-> 0]
Absent == [known |-> FALSE, stdin |-> FALSE, task |-> 0]

-----------------------------------------------------------------------------
\* What the backend reads from the cloud.

\* Mutant: no default case, the status of ECS shows through.
mapTaskStatus_NoDefault(s) ==
    CASE s = "PENDING" -> "created"
      [] s = "RUNNING" -> "running"
      [] s = "STOPPING" -> "unknown"
      [] OTHER -> s

\* mapTaskStatus: DEPROVISIONING counts as STOPPED, the statuses between
\* RUNNING and it are unknown.
mapTaskStatus(s) ==
    CASE s = "PENDING" -> "created"
      [] s = "RUNNING" -> "running"
      [] s = "STOPPING" -> "unknown"
      [] OTHER -> "exited"

\* DescribeTasks shows the task as STOPPED; or does not know it any more.
Ended(t) == status[t] \in {"STOPPED", "FAILED"}
Over(t) == Ended(t) \/ status[t] = "GONE"
TasksOf(c) == {t \in Tasks : owner[t] = c}

\* ListTasks: a stopped task is listed for about an hour.
Listed(c) == {t \in TasksOf(c) : status[t] # "GONE"}

\* The two listings, by DesiredStatus.
DesiredStatus == {"RUNNING", "STOPPED"}
Desired(t) == IF status[t] \in {"PENDING", "RUNNING"} /\ t \notin told
              THEN "RUNNING" ELSE "STOPPED"

\* queryTasks skips the tasks that the registry has as cleaned up.  No task
\* carries the sockerless-removed tag: nothing writes it.
Visible(c) == {t \in Listed(c) : registry[t] # "cleaned"}

\* One task stands for the container: a running one, else the latest.
Chosen(c) == LET run == {t \in Visible(c) : status[t] = "RUNNING"}
             IN Max(IF run # {} THEN run ELSE Visible(c))

GetContainer(c) ==
    IF Visible(c) = {} THEN "none" ELSE mapTaskStatus(status[Chosen(c)])

\* ResolveContainerAuto: PendingCreates first.
Resolve(c) == IF pending[c] # "none" THEN pending[c] ELSE GetContainer(c)

\* resolveTaskState: the cached task, or the first listed one with the tag of
\* the container.  The tasks that are meant to run are listed first, but either
\* listing may fail, and so may DescribeTasks; 0 when nothing is found.
ResolvedTasks(c) ==
    IF ecs[c].task # 0 THEN {ecs[c].task} ELSE {0} \cup Listed(c)

\* Those that are meant to run; and those of them that a failed listing keeps
\* from being found, when t is found instead.
Meant(c) == {t \in Listed(c) : Desired(t) = "RUNNING"}
Missed(c, t) == IF ecs[c].task # 0 \/ t \in Meant(c) THEN {} ELSE Meant(c)

-----------------------------------------------------------------------------
\* Steps on the maps.

\* ECS.Update: does nothing without an entry.
UpdateEcs(c, t) == ecs' = [ecs EXCEPT ![c].task = IF ecs[c].known THEN t ELSE 0]

\* Registry.MarkCleanedUp: does nothing without an entry, or without a task.
MarkCleanedUp(t) == [u \in Tasks |-> IF u = t /\ registry[u] # "unknown"
                                     THEN "cleaned" ELSE registry[u]]

\* LoadAndDelete on WaitChs and close.
CloseWaitCh(c) ==
    /\ waitCh' = [waitCh EXCEPT ![c] = 0]
    /\ closed' = closed \cup ({waitCh[c]} \ {0})

\* markRunning: the channel that is there, or a new one.
MarkRunning(c) ==
    IF waitCh[c] # 0 THEN UNCHANGED <<waitCh, chs>>
    ELSE /\ chs < MaxChs
         /\ chs' = chs + 1
         /\ waitCh' = [waitCh EXCEPT ![c] = chs + 1]

NewTask == tasks + 1

\* runECSTask succeeds: the task exists and the registry has it.
runECSTask(c) ==
    /\ tasks < MaxTasks
    /\ tasks' = NewTask
    /\ owner' = [owner EXCEPT ![NewTask] = c]
    /\ status' = [status EXCEPT ![NewTask] = "PENDING"]
    /\ registry' = [registry EXCEPT ![NewTask] = "active"]
    /\ UNCHANGED told

\* StopTask on a task: nothing changes when it has ended.
Tell(t) == told' = told \cup {u \in {t} : Desired(u) = "RUNNING"}

\* StopTask on the task that was found for c, if any; accepted or refused.
StopTask(c, t) ==
    \/ /\ t # 0 /\ Tell(t)
       /\ loose' = loose \cup Missed(c, t)
    \/ /\ loose' = loose \cup Missed(c, t) \cup (Meant(c) \cap {t})
       /\ UNCHANGED told

Return(a) == call' = [call EXCEPT ![a] = Idle]

\* A new call on c, with others in flight or not.  A docker restart is between
\* its two steps at "restart".
Arrives(a, c, at) ==
    LET others == {b \in Calls : call[b].c = c} IN
    /\ call[a] = Idle
    /\ past' = [past EXCEPT ![c] = @
          \cup {x \in {"overlap"} : others # {}}
          \cup {x \in {"restarts"} :
                  at = "restart" /\ \E b \in others : call[b].at = "restart"}]

Goto(a, at, c, ch, t) ==
    call' = [call EXCEPT ![a] = [at |-> at, c |-> c, ch |-> ch, t |-> t]]

-----------------------------------------------------------------------------
Init ==
    /\ owner = [t \in Tasks |-> None]
    /\ status = [t \in Tasks |-> "none"]
    /\ told = {}
    /\ pending = [c \in Containers |-> "none"]
    /\ ecs = [c \in Containers |-> Absent]
    /\ registry = [t \in Tasks |-> "unknown"]
    /\ waitCh = [c \in Containers |-> 0]
    /\ closed = {}
    /\ pipe = {}
    /\ call = [a \in Calls |-> Idle]
    /\ launch = [l \in Launchers |-> Idle]
    /\ pollers = {}
    /\ wait = [w \in Waiters |-> WaitIdle]
    /\ tasks = 0 /\ chs = 0 /\ crashes = 0
    /\ life = [c \in Containers |-> "new"]
    /\ erased = {}
    /\ loose = {}
    /\ past = [c \in Containers |-> {}]

\* ContainerCreate: nothing reaches the cloud until the start.
ContainerCreate(c) ==
    /\ life[c] = "new"
    /\ life' = [life EXCEPT ![c] = "made"]
    /\ pending' = [pending EXCEPT ![c] = "created"]
    /\ ecs' = [ecs EXCEPT ![c] =
          [known |-> TRUE, stdin |-> c \in Interactive, task |-> 0]]
    /\ UNCHANGED <<cloud, registry, waitCh, closed, pipe, goroutines, counters,
                   erased, loose, past>>

\* The attach driver gets or makes the pipe of an OpenStdin container.  The
\* pipe counts as open from then on, also after EOF.
Attach(c) ==
    /\ Resolve(c) # "none"
    /\ ecs[c].stdin
    /\ pipe' = pipe \cup {c}
    /\ UNCHANGED <<cloud, pending, ecs, registry, waitCh, closed, goroutines,
                   counters, history>>

-----------------------------------------------------------------------------
\* ContainerStart.

\* A call of docker start, or the end of docker restart.
Starts(a, c) ==
    \/ Arrives(a, c, "start") /\ Resolve(c) # "none"
    \/ call[a].at = "start" /\ call[a].c = c /\ UNCHANGED past

\* Up to the first call of RunTask.  What was resolved from the cloud is put
\* into PendingCreates, also when the container turns out to be running.
StartResolve(a, c) ==
    LET cur == Resolve(c) IN
    /\ Starts(a, c)
    /\ \/ /\ cur = "none"                     \* 404: removed during a restart
          /\ Return(a)
          /\ UNCHANGED <<pending, waitCh, chs, launch>>
       \/ /\ cur # "none"
          /\ pending' = [pending EXCEPT ![c] = cur]
          /\ \/ /\ cur = "running"            \* NotModified
                /\ Return(a)
                /\ UNCHANGED <<waitCh, chs, launch>>
             \/ /\ cur # "running"            \* left to launchAfterStdin
                /\ ecs[c].stdin /\ c \in pipe
                /\ MarkRunning(c)
                /\ \E l \in Launchers :
                      /\ launch[l] = Idle
                      /\ launch' = [launch EXCEPT ![l] =
                            [at |-> "stdin", c |-> c, ch |-> waitCh'[c], t |-> 0]]
                /\ Return(a)
             \/ /\ cur # "running"
                /\ ~(ecs[c].stdin /\ c \in pipe)
                /\ UNCHANGED launch
                /\ \/ /\ Return(a)            \* no task definition
                      /\ UNCHANGED <<waitCh, chs>>
                   \/ /\ chs < MaxChs         \* a new channel, whatever was there
                      /\ chs' = chs + 1
                      /\ waitCh' = [waitCh EXCEPT ![c] = chs + 1]
                      /\ Goto(a, "run", c, chs + 1, 0)
    /\ UNCHANGED <<cloud, ecs, registry, closed, pipe, pollers, wait, tasks,
                   crashes, life, erased, loose>>

\* RunTask.  After a failure the channel is deleted, not closed.
StartRunTask(a) ==
    LET c == call[a].c IN
    /\ call[a].at = "run"
    /\ \/ /\ runECSTask(c)
          /\ MarkRunning(c)
          /\ UpdateEcs(c, NewTask)
          /\ Goto(a, "await", c, call[a].ch, NewTask)
       \/ /\ waitCh' = [waitCh EXCEPT ![c] = 0]
          /\ Return(a)
          /\ UNCHANGED <<cloud, registry, ecs, tasks, chs>>
    /\ UNCHANGED <<pending, closed, pipe, launch, pollers, wait, crashes, history>>

\* Mutant: a task that ended before it was seen running is left to a poller
\* that nobody starts.
Awaited_FastExit(c, t, ch) ==
    \/ /\ status[t] = "RUNNING"
       /\ pending' = [pending EXCEPT ![c] = "none"]
       /\ pollers' = pollers \cup {[c |-> c, t |-> t, ch |-> ch, saw |-> FALSE]}
       /\ UNCHANGED <<waitCh, closed, loose>>
    \/ /\ Ended(t)
       /\ pending' = [pending EXCEPT ![c] = "none"]
       /\ UNCHANGED <<waitCh, closed, pollers, loose>>

\* What follows waitForTaskRunning: the task runs and is polled, or it has
\* ended with an exit code, or it failed or did not run in five minutes.
Awaited(c, t, ch) ==
    \/ /\ status[t] = "RUNNING"
       /\ pending' = [pending EXCEPT ![c] = "none"]
       /\ pollers' = pollers \cup {[c |-> c, t |-> t, ch |-> ch, saw |-> FALSE]}
       /\ UNCHANGED <<waitCh, closed, loose>>
    \/ /\ status[t] = "STOPPED"
       /\ pending' = [pending EXCEPT ![c] = "none"]
       /\ CloseWaitCh(c)
       /\ UNCHANGED <<pollers, loose>>
    \/ /\ CloseWaitCh(c)
       /\ loose' = IF Over(t) THEN loose ELSE loose \cup {t}
       /\ UNCHANGED <<pending, pollers>>

waitForTaskRunning(a) ==
    /\ call[a].at = "await"
    /\ Awaited(call[a].c, call[a].t, call[a].ch)
    /\ Return(a)
    /\ UNCHANGED <<cloud, ecs, registry, pipe, launch, wait, counters, life,
                   erased, past>>

\* launchAfterStdin: after EOF, the removal of the container or 30 s, the task.
LaunchRunTask(l) ==
    LET c == launch[l].c IN
    /\ launch[l].at = "stdin"
    /\ \/ /\ runECSTask(c)
          /\ UpdateEcs(c, NewTask)
          /\ launch' = [launch EXCEPT ![l].at = "await", ![l].t = NewTask]
          /\ loose' = loose \cup {NewTask}
          /\ UNCHANGED <<waitCh, closed, pipe>>
       \/ /\ CloseWaitCh(c)
          /\ pipe' = pipe \ {c}
          /\ launch' = [launch EXCEPT ![l] = Idle]
          /\ UNCHANGED <<cloud, registry, ecs, tasks, loose>>
    /\ UNCHANGED <<pending, call, pollers, wait, chs, crashes, life, erased, past>>

\* Its end deletes whatever pipe the container has by then.
LaunchAwait(l) ==
    LET c == launch[l].c IN
    /\ launch[l].at = "await"
    /\ Awaited(c, launch[l].t, launch[l].ch)
    /\ pipe' = pipe \ {c}
    /\ launch' = [launch EXCEPT ![l] = Idle]
    /\ UNCHANGED <<cloud, ecs, registry, call, wait, counters, life, erased, past>>

-----------------------------------------------------------------------------
\* pollTaskExit.

\* DescribeTasks answers STOPPED; an empty answer is passed over.  The select may
\* take the tick even when the channel is closed.
PollDescribe(p) ==
    /\ ~p.saw
    /\ Ended(p.t)
    /\ pollers' = (pollers \ {p}) \cup {[p EXCEPT !.saw = TRUE]}
    /\ UNCHANGED <<cloud, memory, call, launch, wait, counters, history>>

\* applyTaskStatus closes the channel the container has by then.
applyTaskStatus(p) ==
    /\ p.saw
    /\ CloseWaitCh(p.c)
    /\ pollers' = pollers \ {p}
    /\ UNCHANGED <<cloud, pending, ecs, registry, pipe, call, launch, wait,
                   counters, history>>

\* The poller's own channel was closed by someone else.
PollQuit(p) ==
    /\ ~p.saw /\ p.ch \in closed
    /\ pollers' = pollers \ {p}
    /\ UNCHANGED <<cloud, memory, call, launch, wait, counters, history>>

-----------------------------------------------------------------------------
\* ContainerStop, ContainerKill, ContainerRestart, ContainerRemove and
\* ContainerPrune: a first step up to StopTask, a second one on the maps.

StopBegin(a, c) ==
    /\ Arrives(a, c, "stop")
    /\ Resolve(c) = "running"
    /\ \E t \in ResolvedTasks(c) :
          \/ /\ t = 0                          \* task ARN unknown
             /\ UNCHANGED <<ecs, told, call, loose>>
          \/ /\ t # 0
             /\ UpdateEcs(c, t)
             /\ loose' = loose \cup Missed(c, t)
             /\ \/ Tell(t) /\ Goto(a, "stop", c, 0, t)
                \/ UNCHANGED <<told, call>>    \* StopTask failed
    /\ UNCHANGED <<owner, status, pending, registry, waitCh, closed, pipe,
                   launch, pollers, wait, counters, life, erased>>

\* waitForTaskStopped, to which a dropped task counts as stopped, or its deadline.
StopEnd(a) ==
    /\ call[a].at = "stop"
    /\ \/ Over(call[a].t) /\ CloseWaitCh(call[a].c)
       \/ ~Over(call[a].t) /\ UNCHANGED <<waitCh, closed>>
    /\ Return(a)
    /\ UNCHANGED <<cloud, pending, ecs, registry, pipe, launch, pollers, wait,
                   counters, history>>

KillBegin(a, c) ==
    /\ Arrives(a, c, "kill")
    /\ Resolve(c) = "running"
    /\ \E t \in ResolvedTasks(c) : UpdateEcs(c, t) /\ StopTask(c, t)
    /\ Goto(a, "kill", c, 0, 0)
    /\ UNCHANGED <<owner, status, pending, registry, waitCh, closed, pipe,
                   launch, pollers, wait, counters, life, erased>>

\* Mutant: the channel is closed and stays in the map.
KillEnd_Load(a) ==
    LET c == call[a].c IN
    /\ call[a].at = "kill"
    /\ closed' = closed \cup ({waitCh[c]} \ {0})
    /\ Return(a)
    /\ UNCHANGED <<cloud, pending, ecs, registry, waitCh, pipe, launch, pollers,
                   wait, counters, history>>

KillEnd(a) ==
    /\ call[a].at = "kill"
    /\ CloseWaitCh(call[a].c)
    /\ Return(a)
    /\ UNCHANGED <<cloud, pending, ecs, registry, pipe, launch, pollers, wait,
                   counters, history>>

\* Mutant: the task is forgotten without being stopped and hidden.
RestartBegin_NoStop(a, c) ==
    /\ Arrives(a, c, "restart")
    /\ Resolve(c) = "running"
    /\ ecs' = [ecs EXCEPT ![c] = [known |-> TRUE, stdin |-> @.stdin, task |-> 0]]
    /\ Goto(a, "restart", c, 0, 0)
    /\ UNCHANGED <<cloud, pending, registry, waitCh, closed, pipe, launch,
                   pollers, wait, counters, life, erased, loose>>

\* A running container: its task is cached, stopped and hidden.
RestartBegin(a, c) ==
    /\ Arrives(a, c, "restart")
    /\ Resolve(c) = "running"
    /\ \E t \in ResolvedTasks(c) :
          /\ ecs' = [ecs EXCEPT ![c] =
                [known |-> TRUE, stdin |-> @.stdin, task |-> t]]
          /\ StopTask(c, t)
          /\ registry' = MarkCleanedUp(t)
    /\ Goto(a, "restart", c, 0, 0)
    /\ UNCHANGED <<owner, status, pending, waitCh, closed, pipe, launch,
                   pollers, wait, counters, life, erased>>

\* Mutant: the container is not put back into PendingCreates.
RestartEnd_NoPut(a) ==
    LET c == call[a].c IN
    /\ call[a].at = "restart"
    /\ ecs' = [ecs EXCEPT ![c].task = 0]
    /\ CloseWaitCh(c)
    /\ Goto(a, "start", c, 0, 0)
    /\ UNCHANGED <<cloud, pending, registry, pipe, launch, pollers, wait,
                   counters, history>>

\* After the task definition is deregistered, the task is forgotten and the
\* container put back.
RestartEnd(a) ==
    LET c == call[a].c IN
    /\ call[a].at = "restart"
    /\ ecs' = [ecs EXCEPT ![c].task = 0]
    /\ CloseWaitCh(c)
    /\ pending' = [pending EXCEPT ![c] = "created"]
    /\ Goto(a, "start", c, 0, 0)
    /\ UNCHANGED <<cloud, registry, pipe, launch, pollers, wait, counters,
                   history>>

\* Any other container goes straight to ContainerStart.
RestartStopped(a, c) ==
    /\ Arrives(a, c, "start")
    /\ Resolve(c) \notin {"none", "running"}
    /\ ecs' = [ecs EXCEPT ![c].known = TRUE]
    /\ pending' = [pending EXCEPT ![c] = "created"]
    /\ Goto(a, "start", c, 0, 0)
    /\ UNCHANGED <<cloud, registry, waitCh, closed, pipe, launch, pollers, wait,
                   counters, life, erased, loose>>

RemoveBegin(a, c, force) ==
    /\ Arrives(a, c, "remove")
    /\ Resolve(c) # "none"
    /\ Resolve(c) = "running" => force
    /\ IF Resolve(c) = "running"
       THEN \E t \in ResolvedTasks(c) : UpdateEcs(c, t) /\ StopTask(c, t)
       ELSE UNCHANGED <<ecs, told, loose>>
    /\ Goto(a, "remove", c, 0, 0)
    /\ UNCHANGED <<owner, status, pending, registry, waitCh, closed, pipe,
                   launch, pollers, wait, counters, life, erased>>

\* markTasksRemoved, with the listings that were answered: what they show of the
\* container is registered, if need be, and hidden.
markTasksRemoved(c, answered, reg) ==
    [t \in Tasks |-> IF t \in Listed(c) /\ Desired(t) \in answered
                     THEN "cleaned" ELSE reg[t]]

\* The end of a removal, once its tasks are marked.
Removed(a, c) ==
    /\ pending' = [pending EXCEPT ![c] = "none"]
    /\ ecs' = [ecs EXCEPT ![c] = Absent]
    /\ pipe' = pipe \ {c}
    /\ CloseWaitCh(c)
    /\ life' = [life EXCEPT ![c] = "removed"]
    /\ Return(a)
    /\ UNCHANGED <<cloud, launch, pollers, wait, counters, loose, past>>

\* Mutant: only the task that the state store knows is hidden.
RemoveEnd_CachedOnly(a) ==
    LET c == call[a].c IN
    /\ call[a].at = "remove"
    /\ registry' = MarkCleanedUp(ecs[c].task)
    /\ erased' = erased \cup Listed(c)
    /\ Removed(a, c)

\* The cached or recovered task is hidden, and what the listings show.
RemoveEnd(a) ==
    LET c == call[a].c IN
    /\ call[a].at = "remove"
    /\ \E t \in ResolvedTasks(c), answered \in SUBSET DesiredStatus :
          /\ registry' = markTasksRemoved(c, answered, MarkCleanedUp(t))
          /\ erased' = erased \cup {u \in Listed(c) : Desired(u) \in answered}
    /\ Removed(a, c)

\* The list of exited containers is read once, before they are deleted.
PruneBegin(a, c) ==
    /\ Arrives(a, c, "prune")
    /\ GetContainer(c) = "exited"
    /\ Goto(a, "prune", c, 0, 0)
    /\ UNCHANGED <<cloud, memory, launch, pollers, wait, counters, life, erased,
                   loose>>

PruneEnd(a) ==
    LET c == call[a].c IN
    /\ call[a].at = "prune"
    /\ registry' = MarkCleanedUp(ecs[c].task)
    /\ ecs' = [ecs EXCEPT ![c] = Absent]
    /\ CloseWaitCh(c)
    /\ life' = [life EXCEPT ![c] = "pruned"]
    /\ Return(a)
    /\ UNCHANGED <<cloud, pending, pipe, launch, pollers, wait, counters,
                   erased, loose, past>>

-----------------------------------------------------------------------------
\* handleContainerWait.

\* Not yet exited: on the channel if there is one, else polling the cloud.
WaitBegin(w, c) ==
    /\ wait[w] = WaitIdle
    /\ Resolve(c) # "none"
    /\ GetContainer(c) # "exited"
    /\ wait' = [wait EXCEPT ![w] = [at |-> IF waitCh[c] # 0 THEN "chan" ELSE "poll",
                                    c |-> c, ch |-> waitCh[c]]]
    /\ UNCHANGED <<cloud, memory, call, launch, pollers, counters, history>>

WaitReturn(w) ==
    /\ \/ wait[w].at = "chan" /\ wait[w].ch \in closed
       \/ wait[w].at = "poll" /\ GetContainer(wait[w].c) = "exited"
    /\ wait' = [wait EXCEPT ![w] = WaitIdle]
    /\ UNCHANGED <<cloud, memory, call, launch, pollers, counters, history>>

-----------------------------------------------------------------------------
\* The cloud, and a restart of the backend.

TaskStep(t, from, to) ==
    /\ status[t] = from
    /\ status' = [status EXCEPT ![t] = to]
    /\ told' = IF to = "RUNNING" THEN told ELSE told \ {t}
    /\ UNCHANGED <<owner, memory, goroutines, counters, history>>

TaskRuns(t) == t \notin told /\ TaskStep(t, "PENDING", "RUNNING")
TaskFails(t) == TaskStep(t, "PENDING", "FAILED")
TaskEnds(t) == TaskStep(t, "RUNNING", "STOPPING")
TaskStops(t) == TaskStep(t, "STOPPING", "STOPPED")

\* ECS drops a stopped task after about an hour.
TaskExpires(t) ==
    /\ Ended(t)
    /\ status' = [status EXCEPT ![t] = "GONE"]
    /\ past' = [c \in Containers |->
          past[c] \cup {x \in {"expired"} : t \in Visible(c)}]
    /\ UNCHANGED <<owner, told, memory, goroutines, counters, life, erased, loose>>

\* ListTasks lists the tasks that are meant to run.
ScanOrphanedResources == {t \in Tasks : Desired(t) = "RUNNING"}

\* The maps and goroutines are gone; RecoverOnStartup registers the tasks that
\* are meant to run, and the connections of the clients break.
Restart ==
    /\ crashes < MaxCrashes
    /\ crashes' = crashes + 1
    /\ pending' = [c \in Containers |-> "none"]
    /\ ecs' = [c \in Containers |-> Absent]
    /\ registry' = [t \in Tasks |->
                      IF t \in ScanOrphanedResources THEN "active" ELSE "unknown"]
    /\ waitCh' = [c \in Containers |-> 0]
    /\ closed' = {} /\ chs' = 0
    /\ pipe' = {}
    /\ call' = [a \in Calls |-> Idle]
    /\ launch' = [l \in Launchers |-> Idle]
    /\ pollers' = {}
    /\ wait' = [w \in Waiters |-> WaitIdle]
    /\ erased' = {}
    /\ loose' = loose \cup {t \in ScanOrphanedResources : status[t] = "PENDING"}
    /\ past' = [c \in Containers |-> past[c] \cup
          {x \in {"expired"} : TasksOf(c) # {} /\ Listed(c) = {}}]
    /\ UNCHANGED <<cloud, tasks, life>>

CallStep(a) ==
    \/ \E c \in Containers : call[a] # Idle /\ StartResolve(a, c)
    \/ StartRunTask(a) \/ waitForTaskRunning(a)
    \/ StopEnd(a) \/ KillEnd(a) \/ RestartEnd(a) \/ RemoveEnd(a) \/ PruneEnd(a)

CallBegin(a) ==
    \E c \in Containers :
        \/ call[a] = Idle /\ StartResolve(a, c)
        \/ StopBegin(a, c) \/ KillBegin(a, c)
        \/ RestartBegin(a, c) \/ RestartStopped(a, c)
        \/ \E force \in BOOLEAN : RemoveBegin(a, c, force)
        \/ PruneBegin(a, c)

LaunchStep(l) == LaunchRunTask(l) \/ LaunchAwait(l)
PollStep(p) == PollDescribe(p) \/ applyTaskStatus(p) \/ PollQuit(p)
CloudStep(t) == TaskRuns(t) \/ TaskFails(t) \/ TaskEnds(t) \/ TaskStops(t)

Next ==
    \/ \E c \in Containers : ContainerCreate(c) \/ Attach(c)
    \/ \E a \in Calls : CallBegin(a) \/ CallStep(a)
    \/ \E l \in Launchers : LaunchStep(l)
    \/ \E p \in pollers : PollStep(p)
    \/ \E w \in Waiters : \/ \E c \in Containers : WaitBegin(w, c)
                          \/ WaitReturn(w)
    \/ \E t \in Tasks : CloudStep(t) \/ TaskExpires(t)
    \/ Restart

Spec == Init /\ [][Next]_vars

\* Goroutines that have begun go on: the scheduler is fair, every wait of a
\* call has a deadline, polls are repeated.  Nothing is asked of the cloud.
FairSpec ==
    /\ Spec
    /\ \A a \in Calls : WF_vars(CallStep(a))
    /\ \A l \in Launchers : WF_vars(LaunchStep(l))
    /\ \A p \in Poller : WF_vars(p \in pollers /\ PollStep(p))
    /\ \A w \in Waiters : WF_vars(WaitReturn(w))

-----------------------------------------------------------------------------
\* Every variable has its type: an entry of PendingCreates carries a status of
\* Docker, never one of ECS.
TypeOK ==
    /\ owner \in [Tasks -> Containers \cup {None}]
    /\ status \in [Tasks -> LastStatus]
    /\ told \subseteq Tasks
    /\ pending \in [Containers -> DockerStatus \cup {"none"}]
    /\ ecs \in [Containers -> Entry]
    /\ registry \in [Tasks -> {"unknown", "active", "cleaned"}]
    /\ waitCh \in [Containers -> 0 .. MaxChs]
    /\ closed \subseteq Chs
    /\ pipe \subseteq Containers
    /\ call \in [Calls -> Frame]
    /\ launch \in [Launchers -> Frame]
    /\ pollers \subseteq Poller
    /\ wait \in [Waiters -> WaitFrame]
    /\ tasks \in 0 .. MaxTasks /\ chs \in 0 .. MaxChs /\ crashes \in 0 .. MaxCrashes
    /\ life \in [Containers -> {"new", "made", "removed", "pruned"}]
    /\ erased \subseteq Tasks /\ loose \subseteq Tasks
    /\ past \in [Containers -> SUBSET Past]

\* No wait channel is closed twice, which would panic: start, stop, kill,
\* restart, remove, prune, the poller and the launcher all close whatever
\* channel WaitChs holds, and what it holds is open.
NoDoubleClose == \A c \in Containers : waitCh[c] # 0 => waitCh[c] \notin closed

\* A container that was started is found, in PendingCreates or in the cloud,
\* until it is removed or pruned: also while a task is pending, after a failed
\* start, with calls that overlap, and after a restart of the backend.  docker
\* restart has a window between hiding the old task and putting the container
\* back; it can be lost when two of them overlapped, and is when ECS dropped a
\* task that stood for it.
StartedIsFound ==
    \A c \in Containers :
        /\ life[c] = "made" /\ TasksOf(c) # {}
        /\ past[c] \cap {"restarts", "expired"} = {}
        /\ \A a \in Calls : call[a].c = c => call[a].at # "restart"
        => Resolve(c) # "none"

\* Once docker rm returned, no task of the container that ECS had under a
\* listing that was answered shows up again, whatever cycle it is from, as long
\* as the backend runs.
RemovedStaysHidden == \A c \in Containers : erased \cap Visible(c) = {}

Live(c) == Visible(c) \cap Meant(c)

\* As long as the calls on it do not overlap, start, stop, kill, restart in any
\* order never get two tasks of a container to run, over restarts of the backend
\* too, unless a start was given up or cut off, left to a launcher, or a cloud
\* call that should find or stop the task failed.
OneLiveTask ==
    \A c \in Containers :
        "overlap" \notin past[c] /\ TasksOf(c) \cap loose = {}
            => Cardinality(Live(c)) <= 1

\* What w waits on is still of use: its channel is closed or the container's.
Attended(w) ==
    wait[w].at = "chan" => wait[w].ch \in closed \cup {waitCh[wait[w].c]}

\* docker wait returns once the container is reported as exited, whichever of
\* its channel and the poll of the cloud it waits on, with the calls that end
\* the task overlapping.  A failed start deletes the channel, and with it the
\* wait, which then says nothing.
WaitEnds ==
    \A w \in Waiters, c \in Containers :
        wait[w].c = c /\ Attended(w) /\ GetContainer(c) = "exited"
            ~> wait[w] = WaitIdle \/ ~Attended(w) \/ GetContainer(c) # "exited"
=============================================================================
