-------------------------- MODULE EcsBackendProofs --------------------------
(***************************************************************************)
(* Theorems about EcsBackend, for any numbers of containers, calls,        *)
(* launchers, waiters, tasks, channels and restarts of the backend: the    *)
(* type invariant, the channels, what a removal hides, the one live task   *)
(* of a container, and that a started container is found.                  *)
(***************************************************************************)
EXTENDS EcsBackend, FiniteSetTheorems, WellFoundedInduction, TLAPS

\* mapTaskStatus only gives statuses of Docker.
LEMMA StatusType == ASSUME NEW s PROVE mapTaskStatus(s) \in DockerStatus
  BY DEF mapTaskStatus, DockerStatus

\* So does the resolution of a container, or nothing.
LEMMA ResolveType ==
  ASSUME TypeOK, NEW c \in Containers
  PROVE  Resolve(c) \in DockerStatus \cup {"none"}
  BY StatusType DEF Resolve, GetContainer, TypeOK

\* What a frame made by Goto is.
LEMMA FrameType ==
  ASSUME NEW at \in At, NEW c \in Containers, NEW ch \in 0 .. MaxChs,
         NEW t \in 0 .. MaxTasks
  PROVE  [at |-> at, c |-> c, ch |-> ch, t |-> t] \in Frame
  BY DEF Frame

LEMMA IdleType == Idle \in Frame /\ Absent \in Entry /\ WaitIdle \in WaitFrame
  BY EcsAssumption DEF Idle, Frame, At, Absent, Entry, WaitIdle, WaitFrame

\* The task that resolveTaskState finds, if any.
LEMMA ResolvedType ==
  ASSUME TypeOK, NEW c \in Containers, NEW t \in ResolvedTasks(c)
  PROVE  t \in 0 .. MaxTasks
  BY EcsAssumption DEF ResolvedTasks, Listed, TasksOf, TypeOK, Entry, Tasks

\* Closing keeps the types of channels.
LEMMA CloseType ==
  ASSUME TypeOK, NEW c \in Containers, CloseWaitCh(c)
  PROVE  waitCh' \in [Containers -> 0 .. MaxChs] /\ closed' \subseteq Chs
  <1>1. waitCh[c] \in 0 .. MaxChs
        BY DEF TypeOK
  <1>2. {waitCh[c]} \ {0} \subseteq Chs
        BY <1>1, EcsAssumption DEF Chs
  <1>3. closed' \subseteq Chs
        BY <1>2 DEF CloseWaitCh, TypeOK
  <1>4. waitCh' \in [Containers -> 0 .. MaxChs]
        BY EcsAssumption DEF CloseWaitCh, TypeOK
  <1> QED BY <1>3, <1>4

LEMMA MarkRunningType ==
  ASSUME TypeOK, NEW c \in Containers, MarkRunning(c)
  PROVE  /\ waitCh' \in [Containers -> 0 .. MaxChs] /\ chs' \in 0 .. MaxChs
         /\ waitCh'[c] \in Chs
  BY EcsAssumption DEF MarkRunning, TypeOK, Chs

LEMMA RunTaskType ==
  ASSUME TypeOK, NEW c \in Containers, runECSTask(c)
  PROVE  /\ owner' \in [Tasks -> Containers \cup {None}]
         /\ status' \in [Tasks -> LastStatus]
         /\ registry' \in [Tasks -> {"unknown", "active", "cleaned"}]
         /\ told' \subseteq Tasks /\ tasks' \in 0 .. MaxTasks
         /\ NewTask \in Tasks
  BY EcsAssumption DEF runECSTask, NewTask, TypeOK, Tasks, LastStatus

LEMMA UpdateType ==
  ASSUME TypeOK, NEW c \in Containers, NEW t \in 0 .. MaxTasks, UpdateEcs(c, t)
  PROVE  ecs' \in [Containers -> Entry]
  BY EcsAssumption DEF UpdateEcs, TypeOK, Entry

LEMMA MarkType ==
  ASSUME TypeOK, NEW t
  PROVE  MarkCleanedUp(t) \in [Tasks -> {"unknown", "active", "cleaned"}]
  BY DEF MarkCleanedUp, TypeOK

LEMMA StopTaskType ==
  ASSUME TypeOK, NEW c \in Containers, NEW t \in 0 .. MaxTasks, StopTask(c, t)
  PROVE  told' \subseteq Tasks /\ loose' \subseteq Tasks
  <1>1. t # 0 => t \in Tasks
        BY EcsAssumption DEF Tasks
  <1>2. Missed(c, t) \subseteq Tasks /\ Meant(c) \subseteq Tasks
        BY DEF Missed, Meant, Listed, TasksOf
  <1> QED BY <1>1, <1>2 DEF StopTask, Tell, TypeOK

LEMMA ArrivesType ==
  ASSUME TypeOK, NEW a, NEW c \in Containers, NEW at, Arrives(a, c, at)
  PROVE  past' \in [Containers -> SUBSET Past]
  BY DEF Arrives, TypeOK, Past

LEMMA AwaitedType ==
  ASSUME TypeOK, NEW c \in Containers, NEW t \in Tasks, NEW ch \in Chs,
         Awaited(c, t, ch)
  PROVE  /\ pending' \in [Containers -> DockerStatus \cup {"none"}]
         /\ pollers' \subseteq Poller
         /\ waitCh' \in [Containers -> 0 .. MaxChs] /\ closed' \subseteq Chs
         /\ loose' \subseteq Tasks
  <1>1. pending' \in [Containers -> DockerStatus \cup {"none"}]
        BY DEF Awaited, TypeOK
  <1>2. [c |-> c, t |-> t, ch |-> ch, saw |-> FALSE] \in Poller
        BY DEF Poller
  <1>3. pollers' \subseteq Poller
        BY <1>2 DEF Awaited, TypeOK
  <1>4. loose' \subseteq Tasks
        BY DEF Awaited, TypeOK
  <1>5. CloseWaitCh(c) \/ UNCHANGED <<waitCh, closed>>
        BY DEF Awaited
  <1>6. waitCh' \in [Containers -> 0 .. MaxChs] /\ closed' \subseteq Chs
        BY <1>5, CloseType DEF TypeOK
  <1> QED BY <1>1, <1>3, <1>4, <1>6

-----------------------------------------------------------------------------
\* The variables in groups, for the steps that leave most of them alone.
CloudOK == /\ owner \in [Tasks -> Containers \cup {None}]
           /\ status \in [Tasks -> LastStatus]
           /\ told \subseteq Tasks
           /\ registry \in [Tasks -> {"unknown", "active", "cleaned"}]
MemoryOK == /\ pending \in [Containers -> DockerStatus \cup {"none"}]
            /\ ecs \in [Containers -> Entry]
            /\ pipe \subseteq Containers
ChannelsOK == /\ waitCh \in [Containers -> 0 .. MaxChs]
              /\ closed \subseteq Chs
              /\ chs \in 0 .. MaxChs
GoroutinesOK == /\ call \in [Calls -> Frame]
                /\ launch \in [Launchers -> Frame]
                /\ pollers \subseteq Poller
                /\ wait \in [Waiters -> WaitFrame]
HistoryOK == /\ tasks \in 0 .. MaxTasks /\ crashes \in 0 .. MaxCrashes
             /\ life \in [Containers -> {"new", "made", "removed", "pruned"}]
             /\ erased \subseteq Tasks /\ loose \subseteq Tasks
             /\ past \in [Containers -> SUBSET Past]

LEMMA Groups ==
  TypeOK <=> CloudOK /\ MemoryOK /\ ChannelsOK /\ GoroutinesOK /\ HistoryOK
  BY DEF TypeOK, CloudOK, MemoryOK, ChannelsOK, GoroutinesOK, HistoryOK

\* What a goroutine holds where it is.
Placed(f) == /\ f.at # "idle" => f.c \in Containers
             /\ f.at \in {"run", "await", "stdin"} => f.ch \in Chs
             /\ f.at \in {"await", "stop"} => f.t \in Tasks
CallsPlaced == \A a \in Calls : Placed(call[a])
LaunchersPlaced == \A l \in Launchers : Placed(launch[l])
TypeInv == TypeOK /\ CallsPlaced /\ LaunchersPlaced

LEMMA ReturnType ==
  ASSUME TypeInv, NEW a \in Calls, Return(a)
  PROVE  call' \in [Calls -> Frame] /\ CallsPlaced'
  BY IdleType DEF TypeInv, TypeOK, Return, CallsPlaced, Placed, Idle

LEMMA GotoType ==
  ASSUME TypeInv, NEW a \in Calls, NEW at \in At, NEW c \in Containers,
         NEW ch \in 0 .. MaxChs, NEW t \in 0 .. MaxTasks, Goto(a, at, c, ch, t),
         at \in {"run", "await", "stdin"} => ch \in Chs,
         at \in {"await", "stop"} => t \in Tasks
  PROVE  call' \in [Calls -> Frame] /\ CallsPlaced'
  <1> DEFINE f == [at |-> at, c |-> c, ch |-> ch, t |-> t]
  <1>1. f \in Frame /\ Placed(f)
        BY FrameType DEF Placed
  <1>2. call' = [call EXCEPT ![a] = f]
        BY DEF Goto
  <1> HIDE DEF f
  <1> QED BY <1>1, <1>2 DEF TypeInv, TypeOK, CallsPlaced

\* Steps that move one call and touch nothing but maps.
LEMMA StepStartResolve ==
  ASSUME TypeInv, NEW a \in Calls, NEW c \in Containers, StartResolve(a, c)
  PROVE  TypeInv'
  <1> USE DEF TypeInv
  <1>1. pending' \in [Containers -> DockerStatus \cup {"none"}]
        BY ResolveType DEF StartResolve, TypeOK
  <1>2. ChannelsOK' /\ call' \in [Calls -> Frame] /\ CallsPlaced'
    <2>1. CASE Return(a) /\ UNCHANGED <<waitCh, chs>>
          BY <2>1, ReturnType DEF StartResolve, TypeOK, ChannelsOK
    <2>2. CASE Return(a) /\ MarkRunning(c)
          BY <2>2, ReturnType, MarkRunningType DEF StartResolve, TypeOK, ChannelsOK
    <2>3. CASE /\ chs < MaxChs /\ chs' = chs + 1
               /\ waitCh' = [waitCh EXCEPT ![c] = chs + 1]
               /\ Goto(a, "run", c, chs + 1, 0)
      <3>1. chs + 1 \in Chs /\ chs + 1 \in 0 .. MaxChs /\ 0 \in 0 .. MaxTasks
            BY <2>3, EcsAssumption DEF TypeOK, Chs
      <3>2. call' \in [Calls -> Frame] /\ CallsPlaced'
            BY <2>3, <3>1, GotoType DEF At
      <3>3. ChannelsOK'
            BY <2>3, <3>1 DEF StartResolve, TypeOK, ChannelsOK
      <3> QED BY <3>2, <3>3
    <2> QED BY <2>1, <2>2, <2>3 DEF StartResolve
  <1>3. launch' \in [Launchers -> Frame] /\ LaunchersPlaced'
    <2>1. CASE UNCHANGED launch
          BY <2>1 DEF TypeOK, LaunchersPlaced
    <2>2. CASE MarkRunning(c) /\ ~ UNCHANGED launch
      <3> DEFINE f == [at |-> "stdin", c |-> c, ch |-> waitCh'[c], t |-> 0]
      <3>1. PICK l \in Launchers : launch' = [launch EXCEPT ![l] = f]
            BY <2>2 DEF StartResolve
      <3>2. f \in Frame /\ Placed(f)
            BY <2>2, MarkRunningType, FrameType, EcsAssumption DEF Placed, At, Chs
      <3> HIDE DEF f
      <3> QED BY <3>1, <3>2 DEF TypeOK, LaunchersPlaced
    <2> QED BY <2>1, <2>2 DEF StartResolve
  <1>4. past' \in [Containers -> SUBSET Past]
        BY ArrivesType DEF StartResolve, Starts, TypeOK
  <1>5. CloudOK' /\ HistoryOK'
        BY <1>4 DEF StartResolve, cloud, TypeOK, CloudOK, HistoryOK
  <1>6. MemoryOK' /\ GoroutinesOK'
        BY <1>1, <1>2, <1>3 DEF StartResolve, TypeOK, MemoryOK, GoroutinesOK
  <1> QED BY <1>2, <1>3, <1>5, <1>6, Groups, PTL

\* The type invariant from its groups and the places of the goroutines.
LEMMA Regroup ==
  ASSUME CloudOK', MemoryOK', ChannelsOK', GoroutinesOK', HistoryOK',
         CallsPlaced', LaunchersPlaced'
  PROVE  TypeInv'
  BY Groups, PTL DEF TypeInv

LEMMA StepStartRunTask ==
  ASSUME TypeInv, NEW a \in Calls, StartRunTask(a)
  PROVE  TypeInv'
  <1> USE DEF TypeInv
  <1> DEFINE c == call[a].c
  <1>1. c \in Containers /\ call[a].ch \in Chs /\ call[a].ch \in 0 .. MaxChs
        BY EcsAssumption DEF StartRunTask, CallsPlaced, Placed, Chs
  <1> HIDE DEF c
  <1>2. CASE /\ runECSTask(c) /\ MarkRunning(c) /\ UpdateEcs(c, NewTask)
             /\ Goto(a, "await", c, call[a].ch, NewTask)
    <2>1. NewTask \in 0 .. MaxTasks /\ NewTask \in Tasks
          BY <1>1, <1>2, RunTaskType, EcsAssumption DEF Tasks
    <2>2. call' \in [Calls -> Frame] /\ CallsPlaced'
          BY <1>1, <1>2, <2>1, GotoType DEF At
    <2>3. ecs' \in [Containers -> Entry]
          BY <1>1, <1>2, <2>1, UpdateType
    <2>4. CloudOK' /\ HistoryOK'
          BY <1>1, <1>2, RunTaskType DEF StartRunTask, history, TypeOK, CloudOK,
             HistoryOK
    <2>5. ChannelsOK'
          BY <1>1, <1>2, MarkRunningType DEF StartRunTask, TypeOK, ChannelsOK
    <2> QED BY <2>2, <2>3, <2>4, <2>5, Regroup DEF StartRunTask, TypeOK,
            MemoryOK, GoroutinesOK, LaunchersPlaced
  <1>3. CASE /\ waitCh' = [waitCh EXCEPT ![c] = 0] /\ Return(a)
             /\ UNCHANGED <<cloud, registry, ecs, tasks, chs>>
    <2>1. call' \in [Calls -> Frame] /\ CallsPlaced'
          BY <1>3, ReturnType
    <2>2. ChannelsOK'
          BY <1>1, <1>3, EcsAssumption DEF StartRunTask, TypeOK, ChannelsOK
    <2> QED BY <1>3, <2>1, <2>2, Regroup DEF StartRunTask, TypeOK, CloudOK, cloud,
            MemoryOK, GoroutinesOK, HistoryOK, history, LaunchersPlaced
  <1> QED BY <1>2, <1>3 DEF StartRunTask, c

LEMMA StepWaitForTaskRunning ==
  ASSUME TypeInv, NEW a \in Calls, waitForTaskRunning(a)
  PROVE  TypeInv'
  <1> USE DEF TypeInv
  <1>1. call[a].c \in Containers /\ call[a].ch \in Chs /\ call[a].t \in Tasks
        BY DEF waitForTaskRunning, CallsPlaced, Placed
  <1>2. /\ pending' \in [Containers -> DockerStatus \cup {"none"}]
        /\ pollers' \subseteq Poller
        /\ waitCh' \in [Containers -> 0 .. MaxChs] /\ closed' \subseteq Chs
        /\ loose' \subseteq Tasks
        BY <1>1, AwaitedType DEF waitForTaskRunning
  <1>3. call' \in [Calls -> Frame] /\ CallsPlaced'
        BY ReturnType DEF waitForTaskRunning
  <1> QED BY <1>2, <1>3, Regroup DEF waitForTaskRunning, TypeOK, CloudOK, cloud,
          MemoryOK, ChannelsOK, GoroutinesOK, HistoryOK, counters, LaunchersPlaced

\* A launcher goes back to idle.
LEMMA LaunchIdle ==
  ASSUME TypeInv, NEW l \in Launchers, launch' = [launch EXCEPT ![l] = Idle]
  PROVE  launch' \in [Launchers -> Frame] /\ LaunchersPlaced'
  BY IdleType DEF TypeInv, TypeOK, LaunchersPlaced, Placed, Idle

\* A launcher's frame goes on to the wait for its task.
LEMMA AwaitFrame ==
  ASSUME NEW f \in Frame, f.c \in Containers, f.ch \in Chs, NEW t \in Tasks,
         t \in 0 .. MaxTasks
  PROVE  LET g == [f EXCEPT !.at = "await", !.t = t] IN g \in Frame /\ Placed(g)
  BY DEF Frame, At, Placed

LEMMA StepLaunchRunTask ==
  ASSUME TypeInv, NEW l \in Launchers, LaunchRunTask(l)
  PROVE  TypeInv'
  <1> USE DEF TypeInv
  <1> DEFINE c == launch[l].c
  <1>1. c \in Containers /\ launch[l].ch \in Chs
        BY DEF LaunchRunTask, LaunchersPlaced, Placed
  <1> HIDE DEF c
  <1>2. CASE /\ runECSTask(c) /\ UpdateEcs(c, NewTask)
             /\ launch' = [launch EXCEPT ![l].at = "await", ![l].t = NewTask]
             /\ loose' = loose \cup {NewTask} /\ UNCHANGED <<waitCh, closed, pipe>>
    <2>1. NewTask \in 0 .. MaxTasks /\ NewTask \in Tasks
          BY <1>1, <1>2, RunTaskType, EcsAssumption DEF Tasks
    <2>2. launch' \in [Launchers -> Frame] /\ LaunchersPlaced'
      <3> DEFINE g == [launch[l] EXCEPT !.at = "await", !.t = NewTask]
      <3>1. g \in Frame /\ Placed(g)
        <4>1. launch[l] \in Frame
              BY DEF TypeOK
        <4> QED BY <4>1, <1>1, <2>1, AwaitFrame DEF c
      <3>2. launch' = [launch EXCEPT ![l] = g]
            BY <1>2 DEF TypeOK
      <3> HIDE DEF g
      <3> QED BY <3>1, <3>2 DEF TypeOK, LaunchersPlaced
    <2>3. ecs' \in [Containers -> Entry]
          BY <1>1, <1>2, <2>1, UpdateType
    <2>4. CloudOK' /\ HistoryOK'
          BY <1>1, <1>2, <2>1, RunTaskType DEF LaunchRunTask, TypeOK, CloudOK,
             HistoryOK
    <2> QED BY <1>2, <2>2, <2>3, <2>4, Regroup DEF LaunchRunTask, TypeOK,
            MemoryOK, ChannelsOK, GoroutinesOK, CallsPlaced
  <1>3. CASE /\ CloseWaitCh(c) /\ pipe' = pipe \ {c}
             /\ launch' = [launch EXCEPT ![l] = Idle]
             /\ UNCHANGED <<cloud, registry, ecs, tasks, loose>>
    <2>1. launch' \in [Launchers -> Frame] /\ LaunchersPlaced'
          BY <1>3, LaunchIdle
    <2> QED BY <1>1, <1>3, <2>1, CloseType, Regroup DEF LaunchRunTask, TypeOK,
            CloudOK, cloud, MemoryOK, ChannelsOK, GoroutinesOK, HistoryOK, CallsPlaced
  <1> QED BY <1>2, <1>3 DEF LaunchRunTask, c

LEMMA StepLaunchAwait ==
  ASSUME TypeInv, NEW l \in Launchers, LaunchAwait(l)
  PROVE  TypeInv'
  <1> USE DEF TypeInv
  <1>1. launch[l].c \in Containers /\ launch[l].ch \in Chs /\ launch[l].t \in Tasks
        BY DEF LaunchAwait, LaunchersPlaced, Placed
  <1>2. /\ pending' \in [Containers -> DockerStatus \cup {"none"}]
        /\ pollers' \subseteq Poller
        /\ waitCh' \in [Containers -> 0 .. MaxChs] /\ closed' \subseteq Chs
        /\ loose' \subseteq Tasks
        BY <1>1, AwaitedType DEF LaunchAwait
  <1>3. launch' \in [Launchers -> Frame] /\ LaunchersPlaced'
        BY LaunchIdle DEF LaunchAwait
  <1> QED BY <1>2, <1>3, Regroup DEF LaunchAwait, TypeOK, CloudOK, cloud,
          MemoryOK, ChannelsOK, GoroutinesOK, HistoryOK, counters, CallsPlaced

LEMMA StepPoll ==
  ASSUME TypeInv, NEW p \in pollers, PollStep(p)
  PROVE  TypeInv'
  <1> USE DEF TypeInv
  <1>1. p \in Poller /\ [p EXCEPT !.saw = TRUE] \in Poller /\ p.c \in Containers
        BY DEF TypeOK, Poller
  <1>2. pollers' \subseteq Poller
        BY <1>1 DEF PollStep, PollDescribe, applyTaskStatus, PollQuit, TypeOK
  <1>3. CASE PollDescribe(p) \/ PollQuit(p)
        BY <1>2, <1>3, Regroup DEF PollDescribe, PollQuit, TypeOK, CloudOK, cloud,
           MemoryOK, memory, ChannelsOK, GoroutinesOK, HistoryOK, counters, history,
           CallsPlaced, LaunchersPlaced
  <1>4. CASE applyTaskStatus(p)
        BY <1>1, <1>2, <1>4, CloseType, Regroup DEF applyTaskStatus, TypeOK, CloudOK,
           cloud, MemoryOK, ChannelsOK, GoroutinesOK, HistoryOK, counters, history,
           CallsPlaced, LaunchersPlaced
  <1> QED BY <1>3, <1>4 DEF PollStep

\* The first steps of the calls that stop a task.
LEMMA StepStopBegin ==
  ASSUME TypeInv, NEW a \in Calls, NEW c \in Containers, StopBegin(a, c)
  PROVE  TypeInv'
  <1> USE DEF TypeInv
  <1>1. past' \in [Containers -> SUBSET Past]
        BY ArrivesType DEF StopBegin
  <1>2. CASE UNCHANGED <<ecs, told, call, loose>>
        BY <1>1, <1>2, Regroup DEF StopBegin, TypeOK, CloudOK, MemoryOK, ChannelsOK,
           GoroutinesOK, HistoryOK, counters, CallsPlaced, LaunchersPlaced
  <1>3. CASE ~UNCHANGED <<ecs, told, call, loose>>
    <2>1. PICK t \in ResolvedTasks(c) :
            /\ t # 0
            /\ UpdateEcs(c, t)
            /\ loose' = loose \cup Missed(c, t)
            /\ \/ Tell(t) /\ Goto(a, "stop", c, 0, t)
               \/ UNCHANGED <<told, call>>
          BY <1>3 DEF StopBegin
    <2>2. t \in Tasks /\ t \in 0 .. MaxTasks /\ 0 \in 0 .. MaxChs
          BY <2>1, ResolvedType, EcsAssumption DEF Tasks
    <2>3. Missed(c, t) \subseteq Tasks
          BY DEF Missed, Meant, Listed, TasksOf
    <2>4. ecs' \in [Containers -> Entry] /\ told' \subseteq Tasks
          BY <2>1, <2>2, UpdateType DEF TypeOK, Tell
    <2>5. call' \in [Calls -> Frame] /\ CallsPlaced'
          BY <2>1, <2>2, GotoType DEF At, TypeOK, CallsPlaced
    <2> QED BY <1>1, <2>1, <2>3, <2>4, <2>5, Regroup DEF StopBegin, TypeOK, CloudOK,
            MemoryOK, ChannelsOK, GoroutinesOK, HistoryOK, counters, LaunchersPlaced
  <1> QED BY <1>2, <1>3

LEMMA StepKillBegin ==
  ASSUME TypeInv, NEW a \in Calls, NEW c \in Containers, KillBegin(a, c)
  PROVE  TypeInv'
  <1> USE DEF TypeInv
  <1>1. PICK t \in ResolvedTasks(c) : UpdateEcs(c, t) /\ StopTask(c, t)
        BY DEF KillBegin
  <1>2. t \in 0 .. MaxTasks /\ 0 \in 0 .. MaxTasks /\ 0 \in 0 .. MaxChs
        BY ResolvedType, EcsAssumption
  <1>3. ecs' \in [Containers -> Entry] /\ told' \subseteq Tasks /\ loose' \subseteq Tasks
        BY <1>1, <1>2, UpdateType, StopTaskType
  <1>4. call' \in [Calls -> Frame] /\ CallsPlaced'
        BY <1>2, GotoType DEF At, KillBegin
  <1>5. past' \in [Containers -> SUBSET Past]
        BY ArrivesType DEF KillBegin
  <1> QED BY <1>3, <1>4, <1>5, Regroup DEF KillBegin, TypeOK, CloudOK, MemoryOK,
          ChannelsOK, GoroutinesOK, HistoryOK, counters, LaunchersPlaced

LEMMA StepRestartBegin ==
  ASSUME TypeInv, NEW a \in Calls, NEW c \in Containers, RestartBegin(a, c)
  PROVE  TypeInv'
  <1> USE DEF TypeInv
  <1>1. PICK t \in ResolvedTasks(c) :
          /\ ecs' = [ecs EXCEPT ![c] =
                [known |-> TRUE, stdin |-> ecs[c].stdin, task |-> t]]
          /\ StopTask(c, t) /\ registry' = MarkCleanedUp(t)
        BY DEF RestartBegin
  <1>2. t \in 0 .. MaxTasks /\ 0 \in 0 .. MaxChs /\ 0 \in 0 .. MaxTasks
        BY ResolvedType, EcsAssumption
  <1>3. /\ told' \subseteq Tasks /\ loose' \subseteq Tasks
        /\ registry' \in [Tasks -> {"unknown", "active", "cleaned"}]
        BY <1>1, <1>2, StopTaskType, MarkType
  <1>4. ecs' \in [Containers -> Entry]
    <2>1. [known |-> TRUE, stdin |-> ecs[c].stdin, task |-> t] \in Entry
          BY <1>2 DEF TypeOK, Entry
    <2> QED BY <1>1, <2>1 DEF TypeOK
  <1>5. call' \in [Calls -> Frame] /\ CallsPlaced'
        BY <1>2, GotoType DEF RestartBegin, At
  <1>6. past' \in [Containers -> SUBSET Past]
        BY ArrivesType DEF RestartBegin
  <1> QED BY <1>3, <1>4, <1>5, <1>6, Regroup DEF RestartBegin, TypeOK, CloudOK,
          MemoryOK, ChannelsOK, GoroutinesOK, HistoryOK, counters, LaunchersPlaced

LEMMA StepRestartStopped ==
  ASSUME TypeInv, NEW a \in Calls, NEW c \in Containers, RestartStopped(a, c)
  PROVE  TypeInv'
  <1> USE DEF TypeInv
  <1>1. 0 \in 0 .. MaxChs /\ 0 \in 0 .. MaxTasks
        BY EcsAssumption
  <1>2. call' \in [Calls -> Frame] /\ CallsPlaced'
        BY <1>1, GotoType DEF RestartStopped, At
  <1>3. MemoryOK'
        BY DEF RestartStopped, TypeOK, MemoryOK, Entry, DockerStatus
  <1>4. past' \in [Containers -> SUBSET Past]
        BY ArrivesType DEF RestartStopped
  <1> QED BY <1>2, <1>3, <1>4, Regroup DEF RestartStopped, TypeOK, CloudOK, cloud,
          ChannelsOK, GoroutinesOK, HistoryOK, counters, LaunchersPlaced

LEMMA StepRemoveBegin ==
  ASSUME TypeInv, NEW a \in Calls, NEW c \in Containers, NEW force \in BOOLEAN,
         RemoveBegin(a, c, force)
  PROVE  TypeInv'
  <1> USE DEF TypeInv
  <1>1. 0 \in 0 .. MaxChs /\ 0 \in 0 .. MaxTasks
        BY EcsAssumption
  <1>2. call' \in [Calls -> Frame] /\ CallsPlaced'
        BY <1>1, GotoType DEF RemoveBegin, At
  <1>3. ecs' \in [Containers -> Entry] /\ told' \subseteq Tasks /\ loose' \subseteq Tasks
    <2>1. CASE UNCHANGED <<ecs, told, loose>>
          BY <2>1 DEF TypeOK
    <2>2. CASE \E t \in ResolvedTasks(c) : UpdateEcs(c, t) /\ StopTask(c, t)
      <3>1. PICK t \in ResolvedTasks(c) : UpdateEcs(c, t) /\ StopTask(c, t)
            BY <2>2
      <3>2. t \in 0 .. MaxTasks
            BY ResolvedType
      <3> QED BY <3>1, <3>2, UpdateType, StopTaskType
    <2> QED BY <2>1, <2>2 DEF RemoveBegin
  <1>4. past' \in [Containers -> SUBSET Past]
        BY ArrivesType DEF RemoveBegin
  <1> QED BY <1>2, <1>3, <1>4, Regroup DEF RemoveBegin, TypeOK, CloudOK, MemoryOK,
          ChannelsOK, GoroutinesOK, HistoryOK, counters, LaunchersPlaced

LEMMA StepPruneBegin ==
  ASSUME TypeInv, NEW a \in Calls, NEW c \in Containers, PruneBegin(a, c)
  PROVE  TypeInv'
  <1> USE DEF TypeInv
  <1>1. 0 \in 0 .. MaxChs /\ 0 \in 0 .. MaxTasks
        BY EcsAssumption
  <1>2. call' \in [Calls -> Frame] /\ CallsPlaced'
        BY <1>1, GotoType DEF PruneBegin, At
  <1>3. past' \in [Containers -> SUBSET Past]
        BY ArrivesType DEF PruneBegin
  <1> QED BY <1>2, <1>3, Regroup DEF PruneBegin, TypeOK, CloudOK, cloud, MemoryOK,
          memory, ChannelsOK, GoroutinesOK, HistoryOK, counters, LaunchersPlaced

\* The second steps: what each does to the maps.
LEMMA StepCallEnd ==
  ASSUME TypeInv, NEW a \in Calls,
         \/ StopEnd(a) \/ KillEnd(a) \/ RestartEnd(a) \/ RemoveEnd(a) \/ PruneEnd(a)
  PROVE  TypeInv'
  <1> USE DEF TypeInv
  <1> DEFINE c == call[a].c
  <1>1. c \in Containers
        BY DEF StopEnd, KillEnd, RestartEnd, RemoveEnd, PruneEnd, CallsPlaced, Placed
  <1>2. CloseWaitCh(c) \/ UNCHANGED <<waitCh, closed>>
        BY DEF StopEnd, KillEnd, RestartEnd, RemoveEnd, Removed, PruneEnd
  <1> HIDE DEF c
  <1>3. /\ waitCh' \in [Containers -> 0 .. MaxChs] /\ closed' \subseteq Chs
        BY <1>1, <1>2, CloseType DEF TypeOK
  <1>4. CASE StopEnd(a) \/ KillEnd(a)
    <2>1. call' \in [Calls -> Frame] /\ CallsPlaced'
          BY <1>4, ReturnType DEF StopEnd, KillEnd
    <2> QED BY <1>3, <1>4, <2>1, Regroup DEF StopEnd, KillEnd, TypeOK, CloudOK, cloud,
            MemoryOK, ChannelsOK, GoroutinesOK, HistoryOK, counters, history,
            LaunchersPlaced
  <1>5. CASE RestartEnd(a)
    <2>1. 0 \in 0 .. MaxChs /\ 0 \in 0 .. MaxTasks
          BY EcsAssumption
    <2>2. call' \in [Calls -> Frame] /\ CallsPlaced'
          BY <1>1, <1>5, <2>1, GotoType DEF RestartEnd, At, c
    <2>3. MemoryOK'
          BY <1>5, <2>1 DEF RestartEnd, TypeOK, MemoryOK, Entry, DockerStatus
    <2> QED BY <1>3, <1>5, <2>2, <2>3, Regroup DEF RestartEnd, TypeOK, CloudOK, cloud,
            ChannelsOK, GoroutinesOK, HistoryOK, counters, history, LaunchersPlaced
  <1>6. CASE RemoveEnd(a)
    <2>1. call' \in [Calls -> Frame] /\ CallsPlaced'
          BY <1>6, ReturnType DEF RemoveEnd, Removed
    <2>2. registry' \in [Tasks -> {"unknown", "active", "cleaned"}]
          BY <1>6, MarkType DEF RemoveEnd, markTasksRemoved
    <2>3. CloudOK'
          BY <1>6, <2>2 DEF RemoveEnd, Removed, TypeOK, CloudOK, cloud
    <2>4. MemoryOK'
          BY <1>6, IdleType DEF RemoveEnd, Removed, TypeOK, MemoryOK
    <2>5. HistoryOK'
          BY <1>6 DEF RemoveEnd, Removed, Listed, TasksOf, TypeOK, HistoryOK, counters
    <2> QED BY <1>3, <1>6, <2>1, <2>3, <2>4, <2>5, Regroup DEF RemoveEnd, Removed,
            TypeOK, ChannelsOK, GoroutinesOK, counters, LaunchersPlaced
  <1>7. CASE PruneEnd(a)
    <2>1. call' \in [Calls -> Frame] /\ CallsPlaced'
          BY <1>7, ReturnType DEF PruneEnd
    <2>3. CloudOK'
          BY <1>7, MarkType DEF PruneEnd, TypeOK, CloudOK, cloud, c
    <2>4. MemoryOK' /\ HistoryOK'
          BY <1>7, IdleType DEF PruneEnd, TypeOK, MemoryOK, HistoryOK, counters
    <2> QED BY <1>3, <1>7, <2>1, <2>3, <2>4, Regroup DEF PruneEnd, TypeOK,
            ChannelsOK, GoroutinesOK, counters, LaunchersPlaced
  <1> QED BY <1>4, <1>5, <1>6, <1>7

\* The clients, the cloud and a restart of the backend.
LEMMA StepCreateAttach ==
  ASSUME TypeInv, NEW c \in Containers, ContainerCreate(c) \/ Attach(c)
  PROVE  TypeInv'
  <1> USE DEF TypeInv
  <1>1. MemoryOK' /\ HistoryOK'
    <2>1. CASE ContainerCreate(c)
          BY <2>1, EcsAssumption DEF ContainerCreate, TypeOK, MemoryOK, HistoryOK,
             Entry, DockerStatus, counters
    <2>2. CASE Attach(c)
          BY <2>2 DEF Attach, TypeOK, MemoryOK, HistoryOK, counters, history
    <2> QED BY <2>1, <2>2
  <1> QED BY <1>1, Regroup DEF ContainerCreate, Attach, TypeOK, CloudOK, cloud,
          ChannelsOK, GoroutinesOK, goroutines, counters, CallsPlaced, LaunchersPlaced

LEMMA StepWait ==
  ASSUME TypeInv, NEW w \in Waiters,
         (\E c \in Containers : WaitBegin(w, c)) \/ WaitReturn(w)
  PROVE  TypeInv'
  <1> USE DEF TypeInv
  <1>1. wait' \in [Waiters -> WaitFrame]
    <2>1. CASE WaitReturn(w)
          BY <2>1, IdleType DEF WaitReturn, TypeOK
    <2>2. ASSUME NEW c \in Containers, WaitBegin(w, c)
          PROVE  wait' \in [Waiters -> WaitFrame]
      <3> DEFINE f == [at |-> IF waitCh[c] # 0 THEN "chan" ELSE "poll",
                       c |-> c, ch |-> waitCh[c]]
      <3>1. f \in WaitFrame
            BY DEF TypeOK, WaitFrame
      <3>2. wait' = [wait EXCEPT ![w] = f]
            BY <2>2 DEF WaitBegin
      <3> HIDE DEF f
      <3> QED BY <3>1, <3>2 DEF TypeOK
    <2> QED BY <2>1, <2>2
  <1> QED BY <1>1, Regroup DEF WaitBegin, WaitReturn, TypeOK, CloudOK, cloud,
          MemoryOK, memory, ChannelsOK, GoroutinesOK, HistoryOK, counters, history,
          CallsPlaced, LaunchersPlaced

LEMMA StepCloud ==
  ASSUME TypeInv, NEW t \in Tasks, CloudStep(t)
  PROVE  TypeInv'
  <1> USE DEF TypeInv
  <1>1. status' \in [Tasks -> LastStatus]
        BY DEF CloudStep, TaskRuns, TaskFails, TaskEnds, TaskStops, TaskStep, TypeOK,
           LastStatus
  <1>2. UNCHANGED <<owner, memory, goroutines, counters, history>>
        BY DEF CloudStep, TaskRuns, TaskFails, TaskEnds, TaskStops, TaskStep
  <1>3. told' \subseteq told
        BY DEF CloudStep, TaskRuns, TaskFails, TaskEnds, TaskStops, TaskStep
  <1> QED BY <1>1, <1>2, <1>3, Regroup DEF TypeOK, CloudOK, MemoryOK, memory, ChannelsOK,
          GoroutinesOK, goroutines, HistoryOK, counters, history, CallsPlaced,
          LaunchersPlaced

LEMMA StepExpires ==
  ASSUME TypeInv, NEW t \in Tasks, TaskExpires(t)
  PROVE  TypeInv'
  <1> USE DEF TypeInv
  <1>1. status' \in [Tasks -> LastStatus]
        BY DEF TaskExpires, TypeOK, LastStatus
  <1>2. past' \in [Containers -> SUBSET Past]
        BY DEF TaskExpires, TypeOK, Past
  <1> QED BY <1>1, <1>2, Regroup DEF TaskExpires, TypeOK, CloudOK, MemoryOK, memory,
          ChannelsOK, GoroutinesOK, goroutines, HistoryOK, counters, CallsPlaced,
          LaunchersPlaced

LEMMA StepRestart == TypeInv /\ Restart => TypeInv'
  <1> SUFFICES ASSUME TypeInv, Restart PROVE TypeInv'
      OBVIOUS
  <1> USE DEF TypeInv
  <1>1. CloudOK'
        BY DEF Restart, TypeOK, CloudOK, cloud
  <1>2. MemoryOK' /\ ChannelsOK'
        BY IdleType, EcsAssumption DEF Restart, TypeOK, MemoryOK, ChannelsOK, Chs
  <1>3. GoroutinesOK' /\ CallsPlaced' /\ LaunchersPlaced'
        BY IdleType DEF Restart, GoroutinesOK, CallsPlaced, LaunchersPlaced, Placed,
           Idle
  <1>4. HistoryOK'
        BY EcsAssumption DEF Restart, ScanOrphanedResources, TypeOK, HistoryOK, Past
  <1> QED BY <1>1, <1>2, <1>3, <1>4, Regroup

-----------------------------------------------------------------------------
LEMMA TypeInvInit == Init => TypeInv
  <1> SUFFICES ASSUME Init PROVE TypeInv
      OBVIOUS
  <1>1. CloudOK /\ HistoryOK
        BY EcsAssumption DEF Init, CloudOK, HistoryOK, LastStatus
  <1>2. MemoryOK /\ ChannelsOK
        BY IdleType, EcsAssumption DEF Init, MemoryOK, ChannelsOK
  <1>3. GoroutinesOK /\ CallsPlaced /\ LaunchersPlaced
        BY IdleType DEF Init, GoroutinesOK, CallsPlaced, LaunchersPlaced, Placed, Idle
  <1> QED BY <1>1, <1>2, <1>3, Groups DEF TypeInv

LEMMA TypeInvStep == TypeInv /\ [Next]_vars => TypeInv'
  <1> SUFFICES ASSUME TypeInv, [Next]_vars PROVE TypeInv'
      OBVIOUS
  <1>1. CASE \E c \in Containers : ContainerCreate(c) \/ Attach(c)
        BY <1>1, StepCreateAttach
  <1>2. ASSUME NEW a \in Calls, CallBegin(a) PROVE TypeInv'
    <2>1. PICK c \in Containers :
            \/ StartResolve(a, c)
            \/ StopBegin(a, c) \/ KillBegin(a, c)
            \/ RestartBegin(a, c) \/ RestartStopped(a, c)
            \/ \E force \in BOOLEAN : RemoveBegin(a, c, force)
            \/ PruneBegin(a, c)
          BY <1>2 DEF CallBegin
    <2> QED BY <2>1, StepStartResolve, StepStopBegin, StepKillBegin, StepRestartBegin,
            StepRestartStopped, StepRemoveBegin, StepPruneBegin
  <1>3. ASSUME NEW a \in Calls, CallStep(a) PROVE TypeInv'
        BY <1>3, StepStartResolve, StepStartRunTask, StepWaitForTaskRunning,
           StepCallEnd DEF CallStep
  <1>4. ASSUME NEW l \in Launchers, LaunchStep(l) PROVE TypeInv'
        BY <1>4, StepLaunchRunTask, StepLaunchAwait DEF LaunchStep
  <1>5. ASSUME NEW p \in pollers, PollStep(p) PROVE TypeInv'
        BY <1>5, StepPoll
  <1>6. ASSUME NEW w \in Waiters,
               (\E c \in Containers : WaitBegin(w, c)) \/ WaitReturn(w)
        PROVE  TypeInv'
        BY <1>6, StepWait
  <1>7. ASSUME NEW t \in Tasks, CloudStep(t) \/ TaskExpires(t) PROVE TypeInv'
        BY <1>7, StepCloud, StepExpires
  <1>8. CASE UNCHANGED vars
        BY <1>8, Regroup DEF vars, cloud, memory, goroutines, counters, history,
           TypeInv, TypeOK, CloudOK, MemoryOK, ChannelsOK, GoroutinesOK, HistoryOK,
           CallsPlaced, LaunchersPlaced
  <1> QED BY <1>1, <1>2, <1>3, <1>4, <1>5, <1>6, <1>7, <1>8, StepRestart DEF Next

LEMMA TypeInvHolds == Spec => []TypeInv
  BY TypeInvInit, TypeInvStep, PTL DEF Spec

\* The type invariant of EcsBackend: what PendingCreates shows is a status of
\* Docker, and every goroutine holds what it needs where it is.
THEOREM TypeCorrect == Spec => []TypeOK
  BY TypeInvHolds, PTL DEF TypeInv

-----------------------------------------------------------------------------
\* The channels in the map are open, distinct, and among those made so far.
ChannelInv == /\ closed \subseteq 1 .. chs
              /\ \A c \in Containers : waitCh[c] \in 0 .. chs
              /\ \A c \in Containers : waitCh[c] # 0 => waitCh[c] \notin closed
              /\ \A c, d \in Containers :
                    c # d /\ waitCh[c] # 0 => waitCh[c] # waitCh[d]

\* All that the steps do to channels.
NewChannel(c) == /\ chs' = chs + 1 /\ waitCh' = [waitCh EXCEPT ![c] = chs + 1]
                 /\ UNCHANGED closed
ForgetChannel(c) == /\ waitCh' = [waitCh EXCEPT ![c] = 0]
                    /\ UNCHANGED <<closed, chs>>
ChannelStep ==
    \/ UNCHANGED <<waitCh, closed, chs>>
    \/ \E c \in Containers : \/ NewChannel(c) \/ ForgetChannel(c)
                             \/ CloseWaitCh(c) /\ UNCHANGED chs
    \/ Restart

LEMMA OnlyChannelSteps == TypeInv /\ [Next]_vars => ChannelStep
  <1> SUFFICES ASSUME TypeInv, [Next]_vars PROVE ChannelStep
      OBVIOUS
  <1> USE DEF TypeInv
  <1>1. ASSUME NEW a \in Calls, NEW c \in Containers, StartResolve(a, c)
        PROVE  ChannelStep
        BY <1>1 DEF StartResolve, MarkRunning, ChannelStep, NewChannel
  <1>2. ASSUME NEW a \in Calls, CallBegin(a) PROVE ChannelStep
        BY <1>1, <1>2 DEF CallBegin, StopBegin, KillBegin, RestartBegin,
           RestartStopped, RemoveBegin, PruneBegin, memory, counters, ChannelStep
  <1>3. ASSUME NEW a \in Calls, CallStep(a) PROVE ChannelStep
    <2>1. CASE call[a] = Idle
          BY <1>3, <2>1 DEF CallStep, Idle, StartRunTask, waitForTaskRunning, StopEnd,
             KillEnd, RestartEnd, RemoveEnd, PruneEnd
    <2>2. CASE StartRunTask(a)
      <3>1. call[a].c \in Containers
            BY <2>2 DEF StartRunTask, CallsPlaced, Placed
      <3> QED BY <2>2, <3>1 DEF StartRunTask, MarkRunning, ChannelStep, NewChannel,
              ForgetChannel
    <2>3. CASE waitForTaskRunning(a)
      <3>1. call[a].c \in Containers
            BY <2>3 DEF waitForTaskRunning, CallsPlaced, Placed
      <3> QED BY <2>3, <3>1 DEF waitForTaskRunning, Awaited, ChannelStep, counters
    <2>4. CASE StopEnd(a) \/ KillEnd(a) \/ RestartEnd(a) \/ RemoveEnd(a) \/ PruneEnd(a)
      <3>1. call[a].c \in Containers
            BY <2>4 DEF StopEnd, KillEnd, RestartEnd, RemoveEnd, PruneEnd, CallsPlaced,
               Placed
      <3> QED BY <2>4, <3>1 DEF StopEnd, KillEnd, RestartEnd, RemoveEnd, Removed,
              PruneEnd, ChannelStep, counters
    <2> QED BY <1>1, <1>3, <2>1, <2>2, <2>3, <2>4 DEF CallStep
  <1>4. ASSUME NEW l \in Launchers, LaunchStep(l) PROVE ChannelStep
    <2>1. launch[l].c \in Containers
          BY <1>4 DEF LaunchStep, LaunchRunTask, LaunchAwait, LaunchersPlaced, Placed
    <2> QED BY <1>4, <2>1 DEF LaunchStep, LaunchRunTask, LaunchAwait, Awaited,
            ChannelStep, counters
  <1>5. ASSUME NEW p \in pollers, PollStep(p) PROVE ChannelStep
    <2>1. p.c \in Containers
          BY DEF TypeOK, Poller
    <2> QED BY <1>5, <2>1 DEF PollStep, PollDescribe, applyTaskStatus, PollQuit,
            ChannelStep, counters, memory
  <1>6. CASE \/ \E c \in Containers : ContainerCreate(c) \/ Attach(c)
             \/ \E w \in Waiters : \/ \E c \in Containers : WaitBegin(w, c)
                                   \/ WaitReturn(w)
             \/ \E t \in Tasks : CloudStep(t) \/ TaskExpires(t)
             \/ UNCHANGED vars
        BY <1>6 DEF ContainerCreate, Attach, WaitBegin, WaitReturn, CloudStep, TaskRuns,
           TaskFails, TaskEnds, TaskStops, TaskStep, TaskExpires, ChannelStep, vars,
           memory, counters
  <1>7. CASE Restart
        BY <1>7 DEF ChannelStep
  <1> QED BY <1>2, <1>3, <1>4, <1>5, <1>6, <1>7 DEF Next

LEMMA ChannelInvStep == TypeInv /\ ChannelInv /\ [Next]_vars => ChannelInv'
  <1> SUFFICES ASSUME TypeInv, ChannelInv, ChannelStep PROVE ChannelInv'
      BY OnlyChannelSteps
  <1>1. chs \in Nat /\ waitCh \in [Containers -> Nat]
        BY EcsAssumption DEF TypeInv, TypeOK
  <1>2. CASE UNCHANGED <<waitCh, closed, chs>>
        BY <1>2 DEF ChannelInv
  <1>3. ASSUME NEW c \in Containers, NewChannel(c) PROVE ChannelInv'
        BY <1>1, <1>3 DEF ChannelInv, NewChannel
  <1>4. ASSUME NEW c \in Containers, ForgetChannel(c) PROVE ChannelInv'
        BY <1>1, <1>4 DEF ChannelInv, ForgetChannel
  <1>5. ASSUME NEW c \in Containers, CloseWaitCh(c), UNCHANGED chs PROVE ChannelInv'
    <2>1. /\ waitCh'[c] = 0
          /\ \A d \in Containers : d # c => waitCh'[d] = waitCh[d] /\ waitCh[d] \in Nat
          /\ waitCh[c] \in Nat
          BY <1>1, <1>5 DEF CloseWaitCh
    <2>2. closed' \subseteq 1 .. chs
      <3>1. {waitCh[c]} \ {0} \subseteq 1 .. chs
            BY <1>1, <2>1 DEF ChannelInv
      <3> QED BY <1>5, <3>1 DEF ChannelInv, CloseWaitCh
    <2>3. \A d \in Containers : waitCh'[d] # 0 => waitCh'[d] \notin closed'
          BY <1>5, <2>1 DEF ChannelInv, CloseWaitCh
    <2>4. /\ \A d \in Containers : waitCh'[d] \in 0 .. chs
          /\ \A d, e \in Containers :
                d # e /\ waitCh'[d] # 0 => waitCh'[d] # waitCh'[e]
          BY <1>1, <2>1 DEF ChannelInv
    <2> QED BY <1>5, <2>2, <2>3, <2>4 DEF ChannelInv
  <1>6. CASE Restart
        BY <1>6 DEF ChannelInv, Restart
  <1> QED BY <1>2, <1>3, <1>4, <1>5, <1>6 DEF ChannelStep

\* No wait channel is closed twice, however many calls, pollers and launchers
\* of however many containers start, stop, kill, restart, remove and prune.
THEOREM ChannelsCloseOnce == Spec => []NoDoubleClose
  <1>1. Init => ChannelInv
        BY DEF Init, ChannelInv
  <1>2. ChannelInv => NoDoubleClose
        BY DEF ChannelInv, NoDoubleClose
  <1> QED BY <1>1, <1>2, TypeInvHolds, ChannelInvStep, PTL DEF Spec

-----------------------------------------------------------------------------
\* The tasks are numbered as they are run, and those that a removal was shown
\* are marked in the registry.
HiddenInv == /\ \A t \in Tasks : owner[t] # None => t <= tasks
             /\ \A t \in erased : owner[t] # None /\ registry[t] = "cleaned"

\* All that the steps do to owners and the registry.
RunsTask == /\ tasks' = tasks + 1 /\ \E c \in Containers : runECSTask(c)
            /\ UNCHANGED erased
MarksTask == /\ \E t \in 0 .. MaxTasks : registry' = MarkCleanedUp(t)
             /\ UNCHANGED <<owner, tasks, erased>>
RegistryStep ==
    \/ UNCHANGED <<owner, tasks, erased, registry>>
    \/ RunsTask \/ MarksTask
    \/ \E a \in Calls : RemoveEnd(a) /\ call[a].c \in Containers
    \/ Restart

LEMMA OnlyRegistrySteps == TypeInv /\ [Next]_vars => RegistryStep
  <1> SUFFICES ASSUME TypeInv, [Next]_vars PROVE RegistryStep
      OBVIOUS
  <1> USE DEF TypeInv
  <1>1. ASSUME NEW a \in Calls, CallBegin(a) PROVE RegistryStep
    <2>1. PICK c \in Containers :
            \/ StartResolve(a, c)
            \/ StopBegin(a, c) \/ KillBegin(a, c)
            \/ RestartBegin(a, c) \/ RestartStopped(a, c)
            \/ \E force \in BOOLEAN : RemoveBegin(a, c, force)
            \/ PruneBegin(a, c)
          BY <1>1 DEF CallBegin
    <2>2. CASE RestartBegin(a, c)
          BY <2>2, ResolvedType DEF RestartBegin, RegistryStep, MarksTask, counters
    <2> QED BY <2>1, <2>2 DEF StartResolve, StopBegin, KillBegin, RestartStopped,
            RemoveBegin, PruneBegin, RegistryStep, cloud, memory, counters, history
  <1>2. ASSUME NEW a \in Calls, CallStep(a) PROVE RegistryStep
    <2>1. CASE StartRunTask(a)
      <3>1. call[a].c \in Containers
            BY <2>1 DEF StartRunTask, CallsPlaced, Placed
      <3> QED BY <2>1, <3>1 DEF StartRunTask, runECSTask, NewTask, RegistryStep,
              RunsTask, cloud, history
    <2>2. CASE RemoveEnd(a)
          BY <2>2 DEF RemoveEnd, CallsPlaced, Placed, RegistryStep
    <2>3. CASE PruneEnd(a)
      <3>1. call[a].c \in Containers
            BY <2>3 DEF PruneEnd, CallsPlaced, Placed
      <3>2. ecs[call[a].c].task \in 0 .. MaxTasks
            BY <3>1 DEF TypeOK, Entry
      <3> QED BY <2>3, <3>2 DEF PruneEnd, RegistryStep, MarksTask, cloud, counters
    <2> QED BY <1>2, <2>1, <2>2, <2>3 DEF CallStep, StartResolve, waitForTaskRunning,
            StopEnd, KillEnd, RestartEnd, RegistryStep, cloud, counters, history
  <1>3. ASSUME NEW l \in Launchers, LaunchStep(l) PROVE RegistryStep
    <2>1. launch[l].c \in Containers
          BY <1>3 DEF LaunchStep, LaunchRunTask, LaunchAwait, LaunchersPlaced, Placed
    <2> QED BY <1>3, <2>1 DEF LaunchStep, LaunchRunTask, LaunchAwait, runECSTask,
            NewTask, RegistryStep, RunsTask, cloud, counters
  <1>4. CASE \/ \E c \in Containers : ContainerCreate(c) \/ Attach(c)
             \/ \E p \in pollers : PollStep(p)
             \/ \E w \in Waiters : \/ \E c \in Containers : WaitBegin(w, c)
                                   \/ WaitReturn(w)
             \/ \E t \in Tasks : CloudStep(t) \/ TaskExpires(t)
             \/ UNCHANGED vars
        BY <1>4 DEF ContainerCreate, Attach, PollStep, PollDescribe, applyTaskStatus,
           PollQuit, WaitBegin, WaitReturn, CloudStep, TaskRuns, TaskFails, TaskEnds,
           TaskStops, TaskStep, TaskExpires, RegistryStep, vars, cloud, memory, counters,
           history
  <1>5. CASE Restart
        BY <1>5 DEF RegistryStep
  <1> QED BY <1>1, <1>2, <1>3, <1>4, <1>5 DEF Next

LEMMA HiddenInvStep == TypeInv /\ HiddenInv /\ [Next]_vars => HiddenInv'
  <1> SUFFICES ASSUME TypeInv, HiddenInv, RegistryStep PROVE HiddenInv'
      BY OnlyRegistrySteps
  <1>1. /\ tasks \in Nat /\ erased \subseteq Tasks
        /\ owner \in [Tasks -> Containers \cup {None}] /\ DOMAIN registry = Tasks
        BY EcsAssumption DEF TypeInv, TypeOK
  <1>2. \A t \in Tasks : t \in Nat /\ t > 0
        BY EcsAssumption DEF Tasks
  <1>3. CASE UNCHANGED <<owner, tasks, erased, registry>>
        BY <1>3 DEF HiddenInv
  <1>4. CASE RunsTask
    <2>1. PICK c \in Containers : runECSTask(c)
          BY <1>4 DEF RunsTask
    <2>2. \A t \in Tasks : t # tasks + 1 => owner'[t] = owner[t] /\ registry'[t] = registry[t]
          BY <1>1, <2>1 DEF runECSTask, NewTask
    <2>3. \A t \in erased : t # tasks + 1
          BY <1>1, <1>2 DEF HiddenInv
    <2> QED BY <1>1, <1>2, <1>4, <2>2, <2>3 DEF HiddenInv, RunsTask
  <1>5. CASE MarksTask
        BY <1>1, <1>5 DEF HiddenInv, MarksTask, MarkCleanedUp
  <1>6. ASSUME NEW a \in Calls, RemoveEnd(a), call[a].c \in Containers
        PROVE  HiddenInv'
    <2> DEFINE c == call[a].c
    <2>1. PICK t \in ResolvedTasks(c), answered \in SUBSET DesiredStatus :
            /\ registry' = markTasksRemoved(c, answered, MarkCleanedUp(t))
            /\ erased' = erased \cup {u \in Listed(c) : Desired(u) \in answered}
          BY <1>6 DEF RemoveEnd
    <2>2. Listed(c) \subseteq Tasks /\ \A u \in Listed(c) : owner[u] # None
          BY <1>6, EcsAssumption DEF Listed, TasksOf
    <2>3. UNCHANGED <<owner, tasks>>
          BY <1>6 DEF RemoveEnd, Removed, cloud, counters
    <2>4. \A u \in Tasks : registry[u] = "cleaned" => registry'[u] = "cleaned"
          BY <2>1 DEF markTasksRemoved, MarkCleanedUp
    <2>5. \A u \in Listed(c) : Desired(u) \in answered => registry'[u] = "cleaned"
          BY <2>1, <2>2 DEF markTasksRemoved
    <2> HIDE DEF c
    <2> QED BY <1>1, <2>1, <2>2, <2>3, <2>4, <2>5 DEF HiddenInv
  <1>7. CASE Restart
        BY <1>1, <1>2, <1>7 DEF HiddenInv, Restart, cloud
  <1> QED BY <1>3, <1>4, <1>5, <1>6, <1>7 DEF RegistryStep

LEMMA HiddenInvInit == Init => HiddenInv
  <1> SUFFICES ASSUME Init PROVE HiddenInv
      OBVIOUS
  <1>1. \A t \in Tasks : owner[t] = None /\ ~(t <= 0)
        BY EcsAssumption DEF Init, Tasks
  <1> QED BY <1>1 DEF Init, HiddenInv

\* Nothing that any call, poller, launcher or the cloud does makes a task visible
\* again that the listings of a removal showed, until the backend is restarted.
THEOREM RemovalIsFinal == Spec => []RemovedStaysHidden
  <1>1. HiddenInv => RemovedStaysHidden
        BY DEF HiddenInv, RemovedStaysHidden, Visible
  <1> QED BY <1>1, HiddenInvInit, TypeInvHolds, HiddenInvStep, PTL DEF Spec

-----------------------------------------------------------------------------
\* A goroutine that waits for its task to run.
Awaiting(f) == f.at = "await"

\* The cached task of a container, and the task a goroutine waits for, carry the
\* tag of the container; no two goroutines wait for the same task.
OwnInv ==
    /\ \A c \in Containers : ecs[c].task # 0 => owner[ecs[c].task] = c
    /\ \A a \in Calls : Awaiting(call[a]) => owner[call[a].t] = call[a].c
    /\ \A l \in Launchers : Awaiting(launch[l]) => owner[launch[l].t] = launch[l].c
    /\ \A a, b \in Calls :
          Awaiting(call[a]) /\ Awaiting(call[b]) /\ call[a].t = call[b].t => a = b
    /\ \A k, l \in Launchers :
          Awaiting(launch[k]) /\ Awaiting(launch[l]) /\ launch[k].t = launch[l].t => k = l
    /\ \A a \in Calls, l \in Launchers :
          ~(Awaiting(call[a]) /\ Awaiting(launch[l]) /\ call[a].t = launch[l].t)

\* All that the steps do to owners, caches and those who wait.
CallRuns(a) ==
    LET c == call[a].c IN
    /\ call[a].at = "run" /\ c \in Containers
    /\ runECSTask(c) /\ UpdateEcs(c, NewTask)
    /\ Goto(a, "await", c, call[a].ch, NewTask)
    /\ UNCHANGED <<pending, launch, life, loose, past>>
LaunchRuns(l) ==
    LET c == launch[l].c IN
    /\ launch[l].at = "stdin" /\ c \in Containers
    /\ runECSTask(c) /\ UpdateEcs(c, NewTask)
    /\ launch' = [launch EXCEPT ![l].at = "await", ![l].t = NewTask]
    /\ loose' = loose \cup {NewTask}
    /\ UNCHANGED <<pending, call, life, past>>
NoOneBegins ==
    /\ UNCHANGED owner
    /\ \A a \in Calls : Awaiting(call'[a]) => call'[a] = call[a]
    /\ \A l \in Launchers : Awaiting(launch'[l]) => launch'[l] = launch[l]
    /\ \A c \in Containers : \/ ecs'[c].task \in {0, ecs[c].task}
                             \/ owner[ecs'[c].task] = c
OwnStep == \/ Restart \/ NoOneBegins
           \/ \E a \in Calls : CallRuns(a)
           \/ \E l \in Launchers : LaunchRuns(l)

\* Frames that do not wait for a task.
LEMMA QuietReturn ==
  ASSUME TypeInv, NEW a \in Calls, Return(a)
  PROVE  \A b \in Calls : Awaiting(call'[b]) => call'[b] = call[b]
  BY DEF Return, Awaiting, Idle, TypeInv, TypeOK

LEMMA QuietGoto ==
  ASSUME TypeInv, NEW a \in Calls, NEW at, at # "await", NEW c, NEW ch, NEW t,
         Goto(a, at, c, ch, t)
  PROVE  \A b \in Calls : Awaiting(call'[b]) => call'[b] = call[b]
  BY DEF Goto, Awaiting, TypeInv, TypeOK

LEMMA QuietUpdate ==
  ASSUME TypeInv, NEW c \in Containers, NEW t \in ResolvedTasks(c), UpdateEcs(c, t)
  PROVE  \A d \in Containers : \/ ecs'[d].task \in {0, ecs[d].task}
                               \/ owner[ecs'[d].task] = d
  <1>1. t \in {0, ecs[c].task} \/ owner[t] = c
        BY DEF ResolvedTasks, Listed, TasksOf
  <1>2. ecs \in [Containers -> Entry]
        BY DEF TypeInv, TypeOK
  <1>3. \A d \in Containers : d # c => ecs'[d] = ecs[d]
        BY <1>2 DEF UpdateEcs
  <1>4. ecs'[c].task \in {0, t}
        BY <1>2 DEF UpdateEcs, Entry
  <1> QED BY <1>1, <1>3, <1>4

\* One entry is cleared.
LEMMA QuietEntry ==
  ASSUME TypeInv, NEW c \in Containers, NEW e, e.task = 0,
         ecs' = [ecs EXCEPT ![c] = e]
  PROVE  \A d \in Containers : ecs'[d].task \in {0, ecs[d].task}
  BY DEF TypeInv, TypeOK

LEMMA OwnCallBegin ==
  ASSUME TypeInv, NEW a \in Calls, NEW c \in Containers,
         \/ StartResolve(a, c)
         \/ StopBegin(a, c) \/ KillBegin(a, c)
         \/ RestartBegin(a, c) \/ RestartStopped(a, c)
         \/ \E force \in BOOLEAN : RemoveBegin(a, c, force)
         \/ PruneBegin(a, c)
  PROVE  NoOneBegins
  <1>1. CASE StartResolve(a, c)
    <2>1. \A b \in Calls : Awaiting(call'[b]) => call'[b] = call[b]
          BY <1>1, QuietReturn, QuietGoto DEF StartResolve
    <2>2. \A l \in Launchers : Awaiting(launch'[l]) => launch'[l] = launch[l]
          BY <1>1 DEF StartResolve, Awaiting, TypeInv, TypeOK
    <2> QED BY <1>1, <2>1, <2>2 DEF StartResolve, NoOneBegins, cloud
  <1>2. CASE \/ StopBegin(a, c) \/ KillBegin(a, c)
             \/ \E force \in BOOLEAN : RemoveBegin(a, c, force)
    <2>1. \A d \in Containers : \/ ecs'[d].task \in {0, ecs[d].task}
                                \/ owner[ecs'[d].task] = d
          BY <1>2, QuietUpdate DEF StopBegin, KillBegin, RemoveBegin
    <2>2. \A b \in Calls : Awaiting(call'[b]) => call'[b] = call[b]
      <3>1. \A t : Goto(a, "stop", c, 0, t) \/ Goto(a, "kill", c, 0, t)
                   \/ Goto(a, "remove", c, 0, t)
                => \A b \in Calls : Awaiting(call'[b]) => call'[b] = call[b]
            BY QuietGoto
      <3> QED BY <1>2, <3>1 DEF StopBegin, KillBegin, RemoveBegin
    <2> QED BY <1>2, <2>1, <2>2 DEF StopBegin, KillBegin, RemoveBegin, NoOneBegins
  <1>3. CASE RestartBegin(a, c)
    <2>1. \A b \in Calls : Awaiting(call'[b]) => call'[b] = call[b]
          BY <1>3, QuietGoto DEF RestartBegin
    <2>2. \A d \in Containers : \/ ecs'[d].task \in {0, ecs[d].task}
                                \/ owner[ecs'[d].task] = d
      <3>1. PICK t \in ResolvedTasks(c) :
              ecs' = [ecs EXCEPT ![c] =
                        [known |-> TRUE, stdin |-> ecs[c].stdin, task |-> t]]
            BY <1>3 DEF RestartBegin
      <3>2. t \in {0, ecs[c].task} \/ owner[t] = c
            BY DEF ResolvedTasks, Listed, TasksOf
      <3> QED BY <3>1, <3>2 DEF TypeInv, TypeOK
    <2> QED BY <1>3, <2>1, <2>2 DEF RestartBegin, NoOneBegins
  <1>4. CASE RestartStopped(a, c)
    <2>1. \A b \in Calls : Awaiting(call'[b]) => call'[b] = call[b]
          BY <1>4, QuietGoto DEF RestartStopped
    <2>2. \A d \in Containers : ecs'[d].task = ecs[d].task
          BY <1>4 DEF RestartStopped, TypeInv, TypeOK, Entry
    <2> QED BY <1>4, <2>1, <2>2 DEF RestartStopped, NoOneBegins, cloud
  <1>5. CASE PruneBegin(a, c)
    <2>1. \A b \in Calls : Awaiting(call'[b]) => call'[b] = call[b]
          BY <1>5, QuietGoto DEF PruneBegin
    <2> QED BY <1>5, <2>1 DEF PruneBegin, NoOneBegins, cloud, memory
  <1> QED BY <1>1, <1>2, <1>3, <1>4, <1>5

LEMMA OwnCallStep ==
  ASSUME TypeInv, NEW a \in Calls, CallStep(a)
  PROVE  OwnStep
  <1>1. ASSUME NEW c \in Containers, StartResolve(a, c) PROVE OwnStep
        BY <1>1, OwnCallBegin DEF OwnStep
  <1>2. CASE StartRunTask(a)
    <2>1. call[a].c \in Containers
          BY <1>2 DEF StartRunTask, TypeInv, CallsPlaced, Placed
    <2>2. CASE runECSTask(call[a].c)
      <3>1. tasks' # tasks
            BY <2>2, EcsAssumption DEF runECSTask, NewTask, TypeInv, TypeOK
      <3>2. CallRuns(a)
            BY <1>2, <2>1, <2>2, <3>1 DEF StartRunTask, CallRuns, history
      <3> QED BY <3>2 DEF OwnStep
    <2>3. CASE ~runECSTask(call[a].c)
          BY <1>2, <2>3, QuietReturn DEF StartRunTask, OwnStep, NoOneBegins, cloud
    <2> QED BY <2>2, <2>3
  <1>3. CASE waitForTaskRunning(a) \/ StopEnd(a) \/ KillEnd(a)
        BY <1>3, QuietReturn DEF waitForTaskRunning, StopEnd, KillEnd, OwnStep,
           NoOneBegins, cloud
  <1>4. CASE RestartEnd(a)
    <2>1. call[a].c \in Containers
          BY <1>4 DEF RestartEnd, TypeInv, CallsPlaced, Placed
    <2>2. \A d \in Containers : ecs'[d].task \in {0, ecs[d].task}
          BY <1>4, <2>1 DEF RestartEnd, TypeInv, TypeOK, Entry
    <2> QED BY <1>4, <2>2, QuietGoto DEF RestartEnd, OwnStep, NoOneBegins, cloud
  <1>5. CASE RemoveEnd(a) \/ PruneEnd(a)
    <2>1. call[a].c \in Containers
          BY <1>5 DEF RemoveEnd, PruneEnd, TypeInv, CallsPlaced, Placed
    <2>2. \A d \in Containers : ecs'[d].task \in {0, ecs[d].task}
          BY <1>5, <2>1, QuietEntry DEF RemoveEnd, Removed, PruneEnd, Absent
    <2> QED BY <1>5, <2>2, QuietReturn DEF RemoveEnd, Removed, PruneEnd, OwnStep,
            NoOneBegins, cloud
  <1> QED BY <1>1, <1>2, <1>3, <1>4, <1>5 DEF CallStep

LEMMA OwnLaunchStep ==
  ASSUME TypeInv, NEW l \in Launchers, LaunchStep(l)
  PROVE  OwnStep
  <1>1. launch[l].c \in Containers
        BY DEF LaunchStep, LaunchRunTask, LaunchAwait, TypeInv, LaunchersPlaced, Placed
  <1>2. launch' = [launch EXCEPT ![l] = Idle] =>
           \A k \in Launchers : Awaiting(launch'[k]) => launch'[k] = launch[k]
        BY DEF Awaiting, Idle, TypeInv, TypeOK
  <1>3. CASE LaunchRunTask(l)
    <2>1. CASE runECSTask(launch[l].c)
      <3>1. tasks' # tasks
            BY <2>1, EcsAssumption DEF runECSTask, NewTask, TypeInv, TypeOK
      <3>2. LaunchRuns(l)
            BY <1>1, <1>3, <2>1, <3>1 DEF LaunchRunTask, LaunchRuns
      <3> QED BY <3>2 DEF OwnStep
    <2>2. CASE ~runECSTask(launch[l].c)
          BY <1>2, <1>3, <2>2 DEF LaunchRunTask, OwnStep, NoOneBegins, cloud
    <2> QED BY <2>1, <2>2
  <1>4. CASE LaunchAwait(l)
        BY <1>2, <1>4 DEF LaunchAwait, OwnStep, NoOneBegins, cloud
  <1> QED BY <1>3, <1>4 DEF LaunchStep

\* The steps of pollers, clients in docker wait and the cloud, and attaching:
\* they change channels, pipes and the statuses of tasks.
Aside == \/ \E c \in Containers : Attach(c)
         \/ \E p \in pollers : PollStep(p)
         \/ \E w \in Waiters : \/ \E c \in Containers : WaitBegin(w, c)
                               \/ WaitReturn(w)
         \/ \E t \in Tasks : CloudStep(t) \/ TaskExpires(t)
         \/ UNCHANGED vars

LEMMA AsideKeeps ==
  ASSUME Aside
  PROVE  UNCHANGED <<owner, pending, ecs, registry, call, launch, tasks, life,
                     erased, loose>>
  BY DEF Aside, Attach, PollStep, PollDescribe, applyTaskStatus, PollQuit, WaitBegin,
     WaitReturn, CloudStep, TaskRuns, TaskFails, TaskEnds, TaskStops, TaskStep,
     TaskExpires, vars, cloud, memory, goroutines, counters, history

LEMMA OnlyOwnSteps == TypeInv /\ [Next]_vars => OwnStep
  <1> SUFFICES ASSUME TypeInv, [Next]_vars PROVE OwnStep
      OBVIOUS
  <1>1. ASSUME NEW a \in Calls, CallBegin(a) PROVE OwnStep
        BY <1>1, OwnCallBegin DEF CallBegin, OwnStep
  <1>2. CASE Aside
        BY <1>2, AsideKeeps DEF OwnStep, NoOneBegins
  <1>3. ASSUME NEW c \in Containers, ContainerCreate(c) PROVE OwnStep
    <2>1. \A d \in Containers : ecs'[d].task \in {0, ecs[d].task}
          BY <1>3, QuietEntry DEF ContainerCreate
    <2> QED BY <1>3, <2>1 DEF ContainerCreate, OwnStep, NoOneBegins, cloud, goroutines
  <1>4. CASE Restart
        BY <1>4 DEF OwnStep
  <1> QED BY <1>1, <1>2, <1>3, <1>4, OwnCallStep, OwnLaunchStep DEF Next, Aside

\* The task that is run next belongs to nobody yet.
LEMMA NewTaskIsNew ==
  ASSUME TypeInv, HiddenInv, NEW c \in Containers, runECSTask(c)
  PROVE  /\ NewTask \in Tasks /\ owner[NewTask] = None
         /\ owner'[NewTask] = c /\ registry'[NewTask] = "active"
         /\ \A t \in Tasks : t # NewTask =>
               /\ owner'[t] = owner[t] /\ status'[t] = status[t]
               /\ registry'[t] = registry[t]
         /\ \A t \in Tasks : owner[t] # None => owner'[t] = owner[t]
  <1>1. NewTask \in Tasks
        BY RunTaskType DEF TypeInv
  <1>2. ~(NewTask <= tasks)
        BY EcsAssumption DEF NewTask, TypeInv, TypeOK
  <1>3. owner[NewTask] = None
        BY <1>1, <1>2 DEF HiddenInv
  <1>4. /\ owner \in [Tasks -> Containers \cup {None}] /\ status \in [Tasks -> LastStatus]
        /\ registry \in [Tasks -> {"unknown", "active", "cleaned"}]
        BY DEF TypeInv, TypeOK
  <1> QED BY <1>1, <1>3, <1>4 DEF runECSTask

LEMMA OwnInvStep == TypeInv /\ HiddenInv /\ OwnInv /\ [Next]_vars => OwnInv'
  <1> SUFFICES ASSUME TypeInv, HiddenInv, OwnInv, OwnStep PROVE OwnInv'
      BY OnlyOwnSteps
  <1>1. /\ ecs \in [Containers -> Entry] /\ call \in [Calls -> Frame]
        /\ launch \in [Launchers -> Frame]
        BY DEF TypeInv, TypeOK
  <1>2. None \notin Containers
        BY EcsAssumption
  <1>3. CASE Restart
        BY <1>3 DEF Restart, OwnInv, Awaiting, Idle, Absent
  <1>4. CASE NoOneBegins
    <2>1. /\ \A a \in Calls : Awaiting(call'[a]) => call'[a] = call[a]
          /\ \A l \in Launchers : Awaiting(launch'[l]) => launch'[l] = launch[l]
          BY <1>4 DEF NoOneBegins
    <2>2. \A c \in Containers : ecs'[c].task # 0 => owner'[ecs'[c].task] = c
          BY <1>4 DEF NoOneBegins, OwnInv
    <2>3. owner' = owner
          BY <1>4 DEF NoOneBegins
    <2> QED BY <2>1, <2>2, <2>3 DEF OwnInv
  <1>5. ASSUME NEW c \in Containers, runECSTask(c), UpdateEcs(c, NewTask)
        PROVE  \A d \in Containers : ecs'[d].task # 0 => owner'[ecs'[d].task] = d
    <2>1. /\ owner'[NewTask] = c
          /\ \A t \in Tasks : owner[t] # None => owner'[t] = owner[t]
          BY <1>5, NewTaskIsNew
    <2>2. ecs'[c].task \in {0, NewTask} /\ \A d \in Containers : d # c => ecs'[d] = ecs[d]
          BY <1>1, <1>5 DEF UpdateEcs, Entry
    <2>3. \A d \in Containers : ecs[d].task # 0 => ecs[d].task \in Tasks
          BY <1>1, EcsAssumption DEF Entry, Tasks
    <2> QED BY <1>2, <2>1, <2>2, <2>3 DEF OwnInv
  <1>6. /\ \A a \in Calls : Awaiting(call[a]) => call[a].t \in Tasks /\ call[a].c \in Containers
        /\ \A l \in Launchers :
              Awaiting(launch[l]) => launch[l].t \in Tasks /\ launch[l].c \in Containers
        BY DEF TypeInv, CallsPlaced, LaunchersPlaced, Placed, Awaiting
  <1>7. /\ \A a \in Calls : Awaiting(call[a]) => owner[call[a].t] = call[a].c
        /\ \A l \in Launchers : Awaiting(launch[l]) => owner[launch[l].t] = launch[l].c
        /\ \A a, b \in Calls :
              Awaiting(call[a]) /\ Awaiting(call[b]) /\ call[a].t = call[b].t => a = b
        /\ \A k, l \in Launchers :
              Awaiting(launch[k]) /\ Awaiting(launch[l]) /\ launch[k].t = launch[l].t => k = l
        /\ \A a \in Calls, l \in Launchers :
              ~(Awaiting(call[a]) /\ Awaiting(launch[l]) /\ call[a].t = launch[l].t)
        BY DEF OwnInv
  <1>8. ASSUME NEW a \in Calls, CallRuns(a) PROVE OwnInv'
    <2>1. PICK c \in Containers : c = call[a].c
          BY <1>8 DEF CallRuns
    <2>2. runECSTask(c) /\ UpdateEcs(c, NewTask)
          BY <1>8, <2>1 DEF CallRuns
    <2>3. /\ owner[NewTask] = None /\ owner'[NewTask] = c
          /\ \A t \in Tasks : owner[t] # None => owner'[t] = owner[t]
          BY <2>2, NewTaskIsNew
    <2>4. /\ launch' = launch /\ call'[a].t = NewTask /\ call'[a].c = c
          /\ \A b \in Calls : b # a => call'[b] = call[b]
          BY <1>1, <1>8, <2>1 DEF CallRuns, Goto
    <2>5. \A d \in Containers : ecs'[d].task # 0 => owner'[ecs'[d].task] = d
          BY <1>5, <2>2
    <2> QED BY <1>2, <1>6, <1>7, <2>3, <2>4, <2>5 DEF OwnInv
  <1>9. ASSUME NEW l \in Launchers, LaunchRuns(l) PROVE OwnInv'
    <2>1. PICK c \in Containers : c = launch[l].c
          BY <1>9 DEF LaunchRuns
    <2>2. runECSTask(c) /\ UpdateEcs(c, NewTask)
          BY <1>9, <2>1 DEF LaunchRuns
    <2>3. /\ owner[NewTask] = None /\ owner'[NewTask] = c
          /\ \A t \in Tasks : owner[t] # None => owner'[t] = owner[t]
          BY <2>2, NewTaskIsNew
    <2>4. /\ call' = call /\ launch'[l].t = NewTask /\ launch'[l].c = c
          /\ \A k \in Launchers : k # l => launch'[k] = launch[k]
          BY <1>1, <1>9, <2>1 DEF LaunchRuns, Frame
    <2>5. \A d \in Containers : ecs'[d].task # 0 => owner'[ecs'[d].task] = d
          BY <1>5, <2>2
    <2> QED BY <1>2, <1>6, <1>7, <2>3, <2>4, <2>5 DEF OwnInv
  <1> QED BY <1>3, <1>4, <1>8, <1>9 DEF OwnStep

LEMMA OwnInvInit == Init => OwnInv
  BY DEF Init, OwnInv, Awaiting, Idle, Absent

-----------------------------------------------------------------------------
\* Container c is in PendingCreates or has tasks; some goroutine works on it.
Present(c) == pending[c] # "none" \/ \E t \in Tasks : owner[t] = c
Used(c) == \/ \E a \in Calls : call[a].c = c
           \/ \E l \in Launchers : launch[l].c = c

\* Until a container is removed or pruned, goroutines work on it only when it
\* is there, and it is not there before it is created.
UseInv == \A c \in Containers :
             /\ life[c] = "new" => ~Present(c)
             /\ life[c] \in {"new", "made"} /\ Used(c) => Present(c)

\* All that the steps other than a restart of the backend do about this.
UseStepAt(c) ==
    /\ life'[c] = "new" => life[c] = "new"
    /\ life'[c] \in {"new", "made"} => life[c] \in {"new", "made"}
    /\ Used(c)' => Used(c) \/ Present(c)
    /\ Present(c)' => \/ Present(c) \/ Used(c)
                      \/ life[c] = "new" /\ life'[c] = "made"
    /\ Present(c) /\ life'[c] \in {"new", "made"} => Present(c)'

\* What can be resolved is there.
LEMMA ResolvedIsPresent ==
  ASSUME NEW c \in Containers, Resolve(c) # "none" \/ GetContainer(c) # "none"
  PROVE  Present(c)
  BY DEF Resolve, GetContainer, Visible, Listed, TasksOf, Present

\* A step on container c with nothing but frames, PendingCreates and life.
LEMMA UsesOne ==
  ASSUME TypeInv, NEW c \in Containers, UNCHANGED owner,
         Present(c) \/ Used(c),
         \A a \in Calls : call'[a] = call[a] \/ call'[a].c \in {c, None},
         \A l \in Launchers : launch'[l] = launch[l] \/ launch'[l].c \in {c, None},
         \A d \in Containers : d # c => pending'[d] = pending[d] /\ life'[d] = life[d],
         life'[c] \in {life[c], "removed", "pruned"},
         \/ pending'[c] \in {pending[c]} \cup DockerStatus
         \/ \E t \in Tasks : owner[t] = c
         \/ life'[c] \in {"removed", "pruned"}
  PROVE  \A d \in Containers : UseStepAt(d)
  <1> TAKE d \in Containers
  <1>1. d # None /\ "none" \notin DockerStatus
        BY EcsAssumption DEF DockerStatus
  <1>2. CASE d = c
        BY <1>1, <1>2 DEF UseStepAt, Used, Present
  <1>3. CASE d # c
    <2>1. Used(d)' => Used(d)
          BY <1>1, <1>3 DEF Used
    <2> QED BY <1>3, <2>1 DEF UseStepAt, Present
  <1> QED BY <1>2, <1>3

\* Where calls go.
LEMMA CallGoes ==
  ASSUME TypeInv, NEW a \in Calls, NEW at, NEW c, NEW ch, NEW t,
         Return(a) \/ Goto(a, at, c, ch, t)
  PROVE  \A b \in Calls : call'[b] = call[b] \/ call'[b].c \in {c, None}
  BY DEF Return, Goto, Idle, TypeInv, TypeOK

LEMMA UseCallBegin ==
  ASSUME TypeInv, UseInv, NEW a \in Calls, NEW c \in Containers,
         \/ StartResolve(a, c)
         \/ StopBegin(a, c) \/ KillBegin(a, c)
         \/ RestartBegin(a, c) \/ RestartStopped(a, c)
         \/ \E force \in BOOLEAN : RemoveBegin(a, c, force)
         \/ PruneBegin(a, c)
  PROVE  \A d \in Containers : UseStepAt(d)
  <1>1. UNCHANGED <<owner, life>>
        BY DEF StartResolve, StopBegin, KillBegin, RestartBegin, RestartStopped,
           RemoveBegin, PruneBegin, cloud, history
  <1>2. Present(c) \/ Used(c)
        BY ResolvedIsPresent DEF StartResolve, Starts, StopBegin, KillBegin,
           RestartBegin, RestartStopped, RemoveBegin, PruneBegin, Used
  <1>3. \A b \in Calls : call'[b] = call[b] \/ call'[b].c \in {c, None}
    <2>1. \/ Return(a) \/ UNCHANGED call
          \/ \E at, ch, t : Goto(a, at, c, ch, t)
          BY DEF StartResolve, StopBegin, KillBegin, RestartBegin, RestartStopped,
             RemoveBegin, PruneBegin
    <2> QED BY <2>1, CallGoes
  <1>4. \A l \in Launchers : launch'[l] = launch[l] \/ launch'[l].c \in {c, None}
        BY DEF StartResolve, StopBegin, KillBegin, RestartBegin, RestartStopped,
           RemoveBegin, PruneBegin, TypeInv, TypeOK
  <1>5. /\ \A d \in Containers : d # c => pending'[d] = pending[d]
        /\ pending'[c] \in {pending[c]} \cup DockerStatus
    <2>1. CASE StartResolve(a, c)
          BY <2>1, ResolveType DEF StartResolve, TypeInv, TypeOK
    <2>2. CASE RestartStopped(a, c)
          BY <2>2 DEF RestartStopped, TypeInv, TypeOK, DockerStatus
    <2> QED BY <2>1, <2>2 DEF StopBegin, KillBegin, RestartBegin, RemoveBegin,
            PruneBegin, memory
  <1> QED BY <1>1, <1>2, <1>3, <1>4, <1>5, UsesOne

LEMMA UseCallEnd ==
  ASSUME TypeInv, OwnInv, NEW a \in Calls,
         \/ waitForTaskRunning(a) \/ StopEnd(a) \/ KillEnd(a) \/ RestartEnd(a)
         \/ RemoveEnd(a) \/ PruneEnd(a)
         \/ StartRunTask(a) /\ Return(a) /\ UNCHANGED owner
  PROVE  \A d \in Containers : UseStepAt(d)
  <1>1. PICK c \in Containers : c = call[a].c
        BY DEF waitForTaskRunning, StopEnd, KillEnd, RestartEnd, RemoveEnd, PruneEnd,
           StartRunTask, TypeInv, CallsPlaced, Placed
  <1>2. UNCHANGED <<owner, launch>>
        BY DEF waitForTaskRunning, StopEnd, KillEnd, RestartEnd, RemoveEnd, PruneEnd,
           StartRunTask, Removed, cloud
  <1>3. Used(c)
        BY <1>1 DEF Used
  <1>4. \A b \in Calls : call'[b] = call[b] \/ call'[b].c \in {c, None}
    <2>1. Return(a) \/ Goto(a, "start", c, 0, 0)
          BY <1>1 DEF waitForTaskRunning, StopEnd, KillEnd, RestartEnd, RemoveEnd,
             Removed, PruneEnd
    <2> QED BY <2>1, CallGoes
  <1>5. /\ \A d \in Containers : d # c => pending'[d] = pending[d] /\ life'[d] = life[d]
        /\ life'[c] \in {life[c], "removed", "pruned"}
        /\ \/ pending'[c] \in {pending[c]} \cup DockerStatus
           \/ \E t \in Tasks : owner[t] = c
           \/ life'[c] \in {"removed", "pruned"}
    <2>1. CASE waitForTaskRunning(a)
      <3>1. call[a].t \in Tasks /\ owner[call[a].t] = c
            BY <1>1, <2>1 DEF waitForTaskRunning, TypeInv, CallsPlaced, Placed, OwnInv,
               Awaiting
      <3> QED BY <1>1, <2>1, <3>1 DEF waitForTaskRunning, Awaited, TypeInv, TypeOK
    <2>2. CASE RestartEnd(a)
          BY <1>1, <2>2 DEF RestartEnd, TypeInv, TypeOK, DockerStatus, history
    <2>3. CASE RemoveEnd(a) \/ PruneEnd(a)
          BY <1>1, <2>3 DEF RemoveEnd, Removed, PruneEnd, TypeInv, TypeOK
    <2> QED BY <2>1, <2>2, <2>3 DEF StopEnd, KillEnd, StartRunTask, history
  <1> QED BY <1>2, <1>3, <1>4, <1>5, UsesOne

\* A goroutine runs a task for c.
LEMMA UseRuns ==
  ASSUME TypeInv, HiddenInv, NEW c \in Containers, Used(c), runECSTask(c),
         UNCHANGED <<pending, life>>,
         \A a \in Calls : call'[a].c = call[a].c,
         \A l \in Launchers : launch'[l].c = launch[l].c
  PROVE  \A d \in Containers : UseStepAt(d)
  <1> TAKE d \in Containers
  <1>1. /\ NewTask \in Tasks /\ owner'[NewTask] = c
        /\ \A t \in Tasks : t # NewTask => owner'[t] = owner[t]
        /\ \A t \in Tasks : owner[t] # None => owner'[t] = owner[t]
        BY NewTaskIsNew
  <1>2. None \notin Containers
        BY EcsAssumption
  <1>3. Present(d) => Present(d)'
        BY <1>1, <1>2 DEF Present
  <1>4. Used(d)' => Used(d)
        BY DEF Used
  <1>5. Present(d)' => Present(d) \/ d = c
        BY <1>1 DEF Present
  <1> QED BY <1>3, <1>4, <1>5 DEF UseStepAt

LEMMA OnlyUseSteps ==
  TypeInv /\ HiddenInv /\ OwnInv /\ UseInv /\ [Next]_vars =>
    Restart \/ \A c \in Containers : UseStepAt(c)
  <1> SUFFICES ASSUME TypeInv, HiddenInv, OwnInv, UseInv, [Next]_vars, ~Restart
               PROVE  \A c \in Containers : UseStepAt(c)
      OBVIOUS
  <1>1. ASSUME NEW a \in Calls, CallBegin(a) PROVE \A c \in Containers : UseStepAt(c)
        BY <1>1, UseCallBegin DEF CallBegin
  <1>2. ASSUME NEW a \in Calls, CallRuns(a) PROVE \A c \in Containers : UseStepAt(c)
    <2>1. PICK c \in Containers : c = call[a].c
          BY <1>2 DEF CallRuns
    <2>2. \A b \in Calls : call'[b].c = call[b].c
          BY <1>2, <2>1 DEF CallRuns, Goto, TypeInv, TypeOK
    <2> QED BY <1>2, <2>1, <2>2, UseRuns DEF CallRuns, Used
  <1>3. ASSUME NEW l \in Launchers, LaunchRuns(l) PROVE \A c \in Containers : UseStepAt(c)
    <2>1. PICK c \in Containers : c = launch[l].c
          BY <1>3 DEF LaunchRuns
    <2>2. \A k \in Launchers : launch'[k].c = launch[k].c
          BY <1>3, <2>1 DEF LaunchRuns, Frame, TypeInv, TypeOK
    <2> QED BY <1>3, <2>1, <2>2, UseRuns DEF LaunchRuns, Used
  <1>4. ASSUME NEW a \in Calls, CallStep(a) PROVE \A c \in Containers : UseStepAt(c)
    <2>1. CASE StartRunTask(a) /\ ~CallRuns(a)
          BY <2>1, UseCallEnd DEF StartRunTask, CallRuns, TypeInv, CallsPlaced, Placed,
             cloud, history
    <2> QED BY <1>2, <1>4, <2>1, UseCallBegin, UseCallEnd DEF CallStep
  <1>5. ASSUME NEW l \in Launchers, LaunchStep(l) PROVE \A c \in Containers : UseStepAt(c)
    <2>1. PICK c \in Containers : c = launch[l].c
          BY <1>5 DEF LaunchStep, LaunchRunTask, LaunchAwait, TypeInv, LaunchersPlaced,
             Placed
    <2>2. ASSUME launch' = [launch EXCEPT ![l] = Idle], UNCHANGED <<owner, call, life>>,
                 \A d \in Containers : d # c => pending'[d] = pending[d],
                 pending'[c] = pending[c] \/ \E t \in Tasks : owner[t] = c
          PROVE  \A d \in Containers : UseStepAt(d)
      <3>1. \A k \in Launchers : launch'[k] = launch[k] \/ launch'[k].c \in {c, None}
            BY <2>2 DEF Idle, TypeInv, TypeOK
      <3>2. Used(c)
            BY <2>1 DEF Used
      <3> QED BY <2>2, <3>1, <3>2, UsesOne
    <2>3. CASE LaunchRunTask(l) /\ ~LaunchRuns(l)
          BY <2>1, <2>2, <2>3 DEF LaunchRunTask, LaunchRuns, cloud
    <2>4. CASE LaunchAwait(l)
      <3>1. launch[l].t \in Tasks /\ owner[launch[l].t] = c
            BY <2>1, <2>4 DEF LaunchAwait, TypeInv, LaunchersPlaced, Placed, OwnInv,
               Awaiting
      <3>2. \A d \in Containers : d # c => pending'[d] = pending[d]
            BY <2>1, <2>4 DEF LaunchAwait, Awaited, TypeInv, TypeOK
      <3> QED BY <2>2, <2>4, <3>1, <3>2 DEF LaunchAwait, cloud
    <2> QED BY <1>3, <1>5, <2>3, <2>4 DEF LaunchStep
  <1>6. CASE Aside
        BY <1>6, AsideKeeps DEF UseStepAt, Present, Used
  <1>7. ASSUME NEW c \in Containers, ContainerCreate(c)
        PROVE  \A d \in Containers : UseStepAt(d)
        BY <1>7 DEF ContainerCreate, UseStepAt, Present, Used, cloud, goroutines, TypeInv,
           TypeOK
  <1> QED BY <1>1, <1>4, <1>5, <1>6, <1>7 DEF Next, Aside

LEMMA UseInvStep ==
  TypeInv /\ HiddenInv /\ OwnInv /\ UseInv /\ [Next]_vars => UseInv'
  <1> SUFFICES ASSUME TypeInv, HiddenInv, OwnInv, UseInv, [Next]_vars PROVE UseInv'
      OBVIOUS
  <1>1. CASE \A c \in Containers : UseStepAt(c)
        BY <1>1 DEF UseInv, UseStepAt
  <1>2. CASE Restart
    <2>1. \A c \in Containers : ~Used(c)'
          BY <1>2, EcsAssumption DEF Restart, Used, Idle
    <2>2. \A c \in Containers : life'[c] = life[c] /\ (Present(c)' => Present(c))
          BY <1>2 DEF Restart, Present, cloud
    <2> QED BY <2>1, <2>2 DEF UseInv
  <1> QED BY <1>1, <1>2, OnlyUseSteps

LEMMA UseInvInit == Init => UseInv
  BY EcsAssumption DEF Init, UseInv, Present, Used, Idle

\* Call a is in the window of a docker restart of c.
Reruns(a, c) == call[a].at = "restart" /\ call[a].c = c

\* What past says of the calls in flight on a container.
TurnsInv ==
    \A c \in Containers, a, b \in Calls :
        /\ "overlap" \notin past[c] /\ call[a].c = c /\ call[b].c = c => a = b
        /\ "restarts" \notin past[c] /\ Reruns(a, c) /\ Reruns(b, c) => a = b

\* No call comes to c, or one does and past has it.
NoNewCall(c) == \A a \in Calls : /\ call'[a].c = c => call[a].c = c
                                 /\ Reruns(a, c)' => Reruns(a, c)
NewCall(c) == \E a \in Calls, at \in At :
                 /\ Arrives(a, c, at)
                 /\ call'[a].at = "restart" => at = "restart"
                 /\ \A b \in Calls : b # a => call'[b] = call[b]
TurnStep(c) == past[c] \subseteq past'[c] /\ (NoNewCall(c) \/ NewCall(c))

\* A call on c moves; it is the only one that does.
LEMMA CallMoves ==
  ASSUME TypeInv, NEW a \in Calls, NEW c \in Containers, NEW at, NEW ch, NEW t,
         \/ UNCHANGED call \/ Return(a) \/ Goto(a, at, c, ch, t)
  PROVE  /\ \A b \in Calls : b # a => call'[b] = call[b]
         /\ call[a] = Idle /\ call'[a].at = "restart" => at = "restart"
         /\ \A d \in Containers : d # c /\ call'[a].c = d => call'[a] = call[a]
  BY EcsAssumption DEF Return, Goto, Idle, TypeInv, TypeOK

LEMMA ArrivesKeeps ==
  ASSUME TypeInv, NEW a, NEW c \in Containers, NEW at, Arrives(a, c, at)
  PROVE  \A d \in Containers : past[d] \subseteq past'[d]
  BY DEF Arrives, TypeInv, TypeOK

\* A new call on c.
LEMMA TurnArrives ==
  ASSUME TypeInv, NEW a \in Calls, NEW c \in Containers, NEW at \in At,
         Arrives(a, c, at), NEW ch, NEW t,
         \/ UNCHANGED call \/ Return(a) \/ Goto(a, at, c, ch, t)
         \/ at = "start" /\ Goto(a, "run", c, ch, t)
  PROVE  \A d \in Containers : TurnStep(d)
  <1> TAKE d \in Containers
  <1>1. call[a] = Idle
        BY DEF Arrives
  <1>2. /\ \A b \in Calls : b # a => call'[b] = call[b]
        /\ call'[a].at = "restart" => at = "restart"
        /\ d # c /\ call'[a].c = d => call'[a] = call[a]
    <2>1. CASE at = "start" /\ Goto(a, "run", c, ch, t)
          BY <1>1, <2>1, CallMoves
    <2> QED BY <1>1, <2>1, CallMoves
  <1>3. CASE d = c
        BY <1>2, <1>3, ArrivesKeeps DEF TurnStep, NewCall
  <1>4. CASE d # c
        BY <1>2, <1>4, ArrivesKeeps DEF TurnStep, NoNewCall, Reruns
  <1> QED BY <1>3, <1>4

\* A call in flight goes on; none of these steps gets to a docker restart.
LEMMA TurnGoesOn ==
  ASSUME TypeInv, NEW a \in Calls, NEW c, c = call[a].c, UNCHANGED past,
         Return(a) \/ \E at, ch, t : at # "restart" /\ Goto(a, at, c, ch, t)
  PROVE  \A d \in Containers : TurnStep(d)
  <1> TAKE d \in Containers
  <1>1. \A b \in Calls : b # a => call'[b] = call[b]
        BY DEF Return, Goto, TypeInv, TypeOK
  <1>2. call'[a].at # "restart" /\ call'[a].c \in {c, None}
        BY DEF Return, Goto, Idle, TypeInv, TypeOK
  <1> QED BY <1>1, <1>2, EcsAssumption DEF TurnStep, NoNewCall, Reruns

LEMMA OnlyTurnSteps ==
  TypeInv /\ [Next]_vars => Restart \/ \A c \in Containers : TurnStep(c)
  <1> SUFFICES ASSUME TypeInv, [Next]_vars, ~Restart
               PROVE  \A c \in Containers : TurnStep(c)
      OBVIOUS
  <1>1. ASSUME NEW a \in Calls, NEW c \in Containers, StartResolve(a, c)
        PROVE  \A d \in Containers : TurnStep(d)
    <2>1. Return(a) \/ \E ch : Goto(a, "run", c, ch, 0)
          BY <1>1 DEF StartResolve
    <2>2. CASE Arrives(a, c, "start")
          BY <2>1, <2>2, TurnArrives DEF At
    <2>3. CASE c = call[a].c /\ UNCHANGED past
      <3>1. Return(a) \/ \E at, ch, t : at # "restart" /\ Goto(a, at, c, ch, t)
            BY <2>1
      <3> QED BY <2>3, <3>1, TurnGoesOn
    <2> QED BY <1>1, <2>2, <2>3 DEF StartResolve, Starts
  <1>2. ASSUME NEW a \in Calls, NEW c \in Containers,
               \/ StopBegin(a, c) \/ KillBegin(a, c)
               \/ RestartBegin(a, c) \/ RestartStopped(a, c)
               \/ \E force \in BOOLEAN : RemoveBegin(a, c, force)
               \/ PruneBegin(a, c)
        PROVE  \A d \in Containers : TurnStep(d)
    <2>1. PICK at \in {"stop", "kill", "restart", "start", "remove", "prune"} :
            /\ Arrives(a, c, at)
            /\ UNCHANGED call \/ \E t : Goto(a, at, c, 0, t)
          BY <1>2 DEF StopBegin, KillBegin, RestartBegin, RestartStopped, RemoveBegin,
             PruneBegin
    <2> QED BY <2>1, TurnArrives DEF At
  <1>3. ASSUME NEW a \in Calls, CallBegin(a) PROVE \A c \in Containers : TurnStep(c)
        BY <1>1, <1>2, <1>3 DEF CallBegin
  <1>4. ASSUME NEW a \in Calls, CallStep(a) PROVE \A c \in Containers : TurnStep(c)
    <2>1. CASE StartRunTask(a)
          BY <2>1, TurnGoesOn DEF StartRunTask, history
    <2>2. CASE RestartEnd(a)
          BY <2>2, TurnGoesOn DEF RestartEnd, history
    <2>3. CASE \/ waitForTaskRunning(a) \/ StopEnd(a) \/ KillEnd(a) \/ RemoveEnd(a)
               \/ PruneEnd(a)
      <3>1. Return(a) /\ UNCHANGED past
            BY <2>3 DEF waitForTaskRunning, StopEnd, KillEnd, RemoveEnd, Removed,
               PruneEnd, history
      <3> QED BY <3>1, TurnGoesOn
    <2> QED BY <1>1, <1>4, <2>1, <2>2, <2>3 DEF CallStep
  <1>5. CASE Aside
    <2>1. UNCHANGED call /\ \A c \in Containers : past[c] \subseteq past'[c]
          BY <1>5 DEF Aside, Attach, PollStep, PollDescribe, applyTaskStatus, PollQuit,
             WaitBegin, WaitReturn, CloudStep, TaskRuns, TaskFails, TaskEnds, TaskStops,
             TaskStep, TaskExpires, vars, goroutines, history
    <2> QED BY <2>1 DEF TurnStep, NoNewCall, Reruns
  <1>6. CASE \/ \E c \in Containers : ContainerCreate(c)
             \/ \E l \in Launchers : LaunchStep(l)
        BY <1>6 DEF ContainerCreate, LaunchStep, LaunchRunTask, LaunchAwait, goroutines,
           TurnStep, NoNewCall, Reruns
  <1> QED BY <1>3, <1>4, <1>5, <1>6 DEF Next, Aside

LEMMA TurnsInvStep == TypeInv /\ TurnsInv /\ [Next]_vars => TurnsInv'
  <1> SUFFICES ASSUME TypeInv, TurnsInv, [Next]_vars PROVE TurnsInv'
      OBVIOUS
  <1>1. CASE Restart
        BY <1>1, EcsAssumption DEF Restart, TurnsInv, Reruns, Idle
  <1>2. ASSUME NEW c \in Containers, TurnStep(c), NEW a \in Calls, NEW b \in Calls
        PROVE  /\ "overlap" \notin past'[c] /\ call'[a].c = c /\ call'[b].c = c => a = b
               /\ "restarts" \notin past'[c] /\ Reruns(a, c)' /\ Reruns(b, c)' => a = b
    <2>1. CASE NoNewCall(c)
          BY <1>2, <2>1 DEF TurnStep, NoNewCall, TurnsInv
    <2>2. CASE NewCall(c)
      <3>1. PICK e \in Calls, at \in At :
              /\ Arrives(e, c, at)
              /\ call'[e].at = "restart" => at = "restart"
              /\ \A d \in Calls : d # e => call'[d] = call[d]
            BY <2>2 DEF NewCall
      <3>2. "overlap" \notin past'[c] => \A d \in Calls : call[d].c # c
            BY <3>1 DEF Arrives, TypeInv, TypeOK
      <3>3. "restarts" \notin past'[c] /\ at = "restart" =>
              \A d \in Calls : ~Reruns(d, c)
            BY <3>1 DEF Arrives, TypeInv, TypeOK, Reruns
      <3>4. past[c] \subseteq past'[c]
            BY <1>2 DEF TurnStep
      <3> QED BY <3>1, <3>2, <3>3, <3>4 DEF Reruns, TurnsInv
    <2> QED BY <1>2, <2>1, <2>2 DEF TurnStep
  <1> QED BY <1>1, <1>2, OnlyTurnSteps DEF TurnsInv

LEMMA TurnsInvInit == Init => TurnsInv
  BY EcsAssumption DEF Init, TurnsInv, Reruns, Idle

-----------------------------------------------------------------------------
\* What the counting of tasks and the single live task both rest on.
BaseInv == TypeInv /\ HiddenInv /\ OwnInv /\ UseInv /\ TurnsInv
LEMMA BaseInvHolds == Spec => []BaseInv
  BY TypeInvInit, TypeInvStep, HiddenInvInit, HiddenInvStep, OwnInvInit, OwnInvStep,
     UseInvInit, UseInvStep, TurnsInvInit, TurnsInvStep, PTL DEF Spec, BaseInv

\* The latest of some tasks is one of them.
LEMMA MaxIsIn ==
  ASSUME NEW S \in SUBSET Tasks, S # {}
  PROVE  Max(S) \in S
  <1> DEFINE T == {n \in Nat : MaxTasks - n \in S}
             R == OpToRel(<, Nat)
  <1>1. \A s \in S : s \in Nat /\ MaxTasks - s \in Nat
                     /\ MaxTasks - (MaxTasks - s) = s
        BY EcsAssumption DEF Tasks
  <1>2. \A s \in S : MaxTasks - s \in T
        BY <1>1
  <1>3. T # {} /\ T \subseteq Nat
        BY <1>2
  <1>4. \A m, n \in Nat : <<m, n>> \in R <=> m < n
        BY DEF OpToRel
  <1> HIDE DEF R
  <1>5. IsWellFoundedOn(R, Nat)
        BY NatLessThanWellFounded DEF R
  <1>6. \E x \in T : \A y \in T : ~(<<y, x>> \in R)
    <2> HIDE DEF T
    <2> QED BY <1>3, <1>5, WFMin
  <1>7. PICK x \in T : \A y \in T : ~(<<y, x>> \in R)
        BY <1>6
  <1>8. \A s \in S : ~(MaxTasks - s < x)
        BY <1>1, <1>2, <1>3, <1>4, <1>7
  <1>9. MaxTasks - x \in S /\ \A s \in S : MaxTasks - x >= s
        BY <1>1, <1>3, <1>7, <1>8, EcsAssumption
  <1> QED BY <1>9 DEF Max

-----------------------------------------------------------------------------
\* Task t of container c is meant to run.
Lives(c, t) == owner[t] = c /\ status[t] \in {"PENDING", "RUNNING"} /\ t \notin told
NoneLives(c) == \A t \in Tasks : ~Lives(c, t)

\* Call a waits for a task of c.
Awaits(a, c) == call[a].at = "await" /\ call[a].c = c

\* What holds of a container none of whose tasks is loose, and on which no calls
\* overlapped.  A task that is meant
\* to run is visible, the only one, the cached one, and PENDING only while a
\* start waits for it; a container that is put into PendingCreates as not
\* running has none, unless its start waits for it; nor has one that a call is
\* about to start, or to hide.
Tidy(c) ==
    /\ \A t \in Tasks : Lives(c, t) => registry[t] # "cleaned"
    /\ \A t, u \in Tasks : Lives(c, t) /\ Lives(c, u) => t = u
    /\ \A t \in Tasks : Lives(c, t) /\ ecs[c].task # 0 => t = ecs[c].task
    /\ \A t \in Tasks : Lives(c, t) /\ status[t] = "PENDING" =>
          \E a \in Calls : Awaits(a, c) /\ call[a].t = t
    /\ \/ pending[c] \in {"none", "running"}
       \/ \E a \in Calls : Awaits(a, c)
       \/ NoneLives(c)
    /\ \A a \in Calls : call[a].c = c =>
          /\ call[a].at \in {"start", "run", "restart", "remove", "prune"} =>
                NoneLives(c)
          /\ call[a].at = "await" => \A t \in Tasks : Lives(c, t) => t = call[a].t
Fixed(c) == /\ "overlap" \notin past[c]
            /\ \A t \in Tasks : owner[t] = c => t \notin loose
LiveInv == \A c \in Containers : Fixed(c) => Tidy(c)

\* While a call on c is in flight, it is the only one; when one comes, there is
\* none.
LEMMA OnlyCall ==
  ASSUME TurnsInv, NEW c \in Containers, Fixed(c), NEW a \in Calls, call[a].c = c
  PROVE  \A b \in Calls : call[b].c = c => b = a
  BY DEF TurnsInv, Fixed

LEMMA FirstCall ==
  ASSUME TypeInv, NEW c \in Containers, Fixed(c)', NEW a, NEW at, Arrives(a, c, at)
  PROVE  \A b \in Calls : call[b].c # c
  BY DEF Arrives, Fixed, TypeInv, TypeOK

\* The tasks of a container that are meant to run.
LEMMA MeantLives ==
  ASSUME NEW c \in Containers, NEW t
  PROVE  t \in Meant(c) <=> t \in Tasks /\ Lives(c, t)
  BY DEF Meant, Listed, TasksOf, Desired, Lives

\* Calls of which Tidy says nothing.
Minor(f, c) == f.c = c => f.at \in {"idle", "stop", "kill"}

\* A step keeps this for c if no task of c begins to live, and everything that
\* is said of them stays.
LEMMA KeepsTidy ==
  ASSUME NEW c \in Containers, Fixed(c) => Tidy(c), Fixed(c)' => Fixed(c),
         \A t \in Tasks : Lives(c, t)' =>
            /\ Lives(c, t) /\ registry'[t] = registry[t]
            /\ status'[t] = "PENDING" => status[t] = "PENDING",
         ecs'[c].task = ecs[c].task,
         pending'[c] = pending[c] \/ pending'[c] \in {"none", "running"},
         \A a \in Calls : call'[a] # call[a] => Minor(call[a], c) /\ Minor(call'[a], c)
  PROVE  Fixed(c)' => Tidy(c)'
  <1> SUFFICES ASSUME Fixed(c)' PROVE Tidy(c)'
      OBVIOUS
  <1>1. Tidy(c)
        OBVIOUS
  <1>2. NoneLives(c) => NoneLives(c)'
        BY DEF NoneLives
  <1>3. \A a \in Calls : Awaits(a, c) => Awaits(a, c)' /\ call'[a].t = call[a].t
        BY DEF Awaits, Minor
  <1>4. \A a \in Calls : call'[a].c = c =>
          /\ call'[a].at \in {"start", "run", "restart", "remove", "prune"} =>
                NoneLives(c)'
          /\ call'[a].at = "await" => \A t \in Tasks : Lives(c, t)' => t = call'[a].t
        BY <1>1, <1>2 DEF Tidy, Minor
  <1> QED BY <1>1, <1>2, <1>3, <1>4 DEF Tidy

\* Nothing lives: everything is said.
LEMMA EmptyIsTidy ==
  ASSUME NEW c, NoneLives(c)'
  PROVE  Tidy(c)'
  BY DEF NoneLives, Tidy

\* While no call is in flight, a container with a live task is running.
LEMMA LiveIsRunning ==
  ASSUME TypeInv, NEW c \in Containers, Tidy(c), \A a \in Calls : call[a].c # c,
         ~NoneLives(c)
  PROVE  GetContainer(c) = "running" /\ pending[c] \in {"none", "running"}
  <1>1. PICK t \in Tasks : Lives(c, t)
        BY DEF NoneLives
  <1>2. \A a \in Calls : ~Awaits(a, c)
        BY DEF Awaits
  <1>3. status[t] = "RUNNING" /\ t \in Visible(c)
        BY <1>1, <1>2 DEF Tidy, Lives, Visible, Listed, TasksOf
  <1> DEFINE run == {u \in Visible(c) : status[u] = "RUNNING"}
  <1>4. run # {} /\ run \in SUBSET Tasks
        BY <1>3 DEF Visible, Listed, TasksOf
  <1>5. Chosen(c) = Max(run)
        BY <1>4 DEF Chosen
  <1>6. Max(run) \in run
    <2> HIDE DEF run
    <2> QED BY <1>4, MaxIsIn
  <1>7. status[Chosen(c)] = "RUNNING" /\ Visible(c) # {}
        BY <1>3, <1>5, <1>6
  <1> QED BY <1>1, <1>2, <1>7 DEF GetContainer, mapTaskStatus, Tidy, NoneLives

LEMMA LiveResolves ==
  ASSUME TypeInv, NEW c \in Containers, Tidy(c), \A a \in Calls : call[a].c # c,
         Resolve(c) # "running" \/ GetContainer(c) # "running"
  PROVE  NoneLives(c)
  BY LiveIsRunning DEF Resolve

\* resolveTaskState finds the live task, if there is one and no listing failed.
LEMMA ResolvedIsLive ==
  ASSUME TypeInv, NEW c \in Containers, Tidy(c), NEW t \in ResolvedTasks(c)
  PROVE  \A u \in Tasks : Lives(c, u) => u = t \/ u \in Missed(c, t)
  <1> TAKE u \in Tasks
  <1> HAVE Lives(c, u)
  <1>1. u \in Meant(c)
        BY MeantLives
  <1>2. CASE ecs[c].task # 0
        BY <1>2 DEF Tidy, ResolvedTasks
  <1>3. CASE ecs[c].task = 0 /\ t \in Meant(c)
    <2>1. t \in Tasks /\ Lives(c, t)
          BY <1>3, MeantLives
    <2> QED BY <2>1 DEF Tidy
  <1>4. CASE ecs[c].task = 0 /\ t \notin Meant(c)
        BY <1>1, <1>4 DEF Missed
  <1> QED BY <1>2, <1>3, <1>4

\* A StopTask that is accepted ends the life of the task, and one that is refused
\* makes it loose.
LEMMA StopSettles ==
  ASSUME TypeInv, NEW c \in Containers, Fixed(c) => Tidy(c), past[c] \subseteq past'[c],
         NEW t \in ResolvedTasks(c), StopTask(c, t), UNCHANGED <<owner, status>>
  PROVE  Fixed(c)' => NoneLives(c)'
  <1> SUFFICES ASSUME Fixed(c)', NEW u \in Tasks, Lives(c, u)' PROVE FALSE
      BY DEF NoneLives
  <1>1. Fixed(c) /\ Lives(c, u)
        BY DEF Fixed, StopTask, Tell, Lives
  <1>2. u = t \/ u \in Missed(c, t)
        BY <1>1, ResolvedIsLive
  <1>3. CASE u \in Missed(c, t)
        BY <1>1, <1>3 DEF StopTask, Fixed, Lives
  <1>4. CASE u = t
    <2>1. u \in Meant(c) /\ Desired(u) = "RUNNING"
          BY <1>1, MeantLives DEF Meant
    <2> QED BY <1>1, <1>4, <2>1 DEF StopTask, Tell, Fixed, Lives
  <1> QED BY <1>2, <1>3, <1>4

\* A step on container c leaves the others tidy.
LEMMA OthersStayTidy ==
  ASSUME LiveInv, NEW c \in Containers,
         UNCHANGED <<owner, status>>, told \subseteq told', loose \subseteq loose',
         \A d \in Containers : past[d] \subseteq past'[d],
         \A t \in Tasks : owner[t] # c => registry'[t] = registry[t],
         \A d \in Containers : d # c => ecs'[d] = ecs[d] /\ pending'[d] = pending[d],
         \A b \in Calls : \/ call'[b] = call[b]
                          \/ call[b].c \in {c, None} /\ call'[b].c \in {c, None},
         Fixed(c)' => Tidy(c)'
  PROVE  LiveInv'
  <1>1. ASSUME NEW d \in Containers, d # c PROVE Fixed(d)' => Tidy(d)'
    <2>1. d # None
          BY EcsAssumption
    <2>2. \A t \in Tasks : Lives(d, t)' =>
            /\ Lives(d, t) /\ registry'[t] = registry[t]
            /\ status'[t] = "PENDING" => status[t] = "PENDING"
          BY <1>1 DEF Lives
    <2>3. Fixed(d)' => Fixed(d)
          BY DEF Fixed
    <2>4. ASSUME NEW b \in Calls, call'[b] # call[b]
          PROVE  Minor(call[b], d) /\ Minor(call'[b], d)
      <3>1. call[b].c # d /\ call'[b].c # d
            BY <1>1, <2>1, <2>4
      <3> QED BY <3>1 DEF Minor
    <2>5. Fixed(d) => Tidy(d)
          BY DEF LiveInv
    <2>6. \A b \in Calls : call'[b] # call[b] => Minor(call[b], d) /\ Minor(call'[b], d)
          BY <2>4 DEF Minor
    <2>7. ecs'[d].task = ecs[d].task /\ pending'[d] = pending[d]
          BY <1>1
    <2> QED BY <2>2, <2>3, <2>5, <2>6, <2>7, KeepsTidy DEF Minor
  <1> QED BY <1>1 DEF LiveInv

\* Where the one call goes.
LEMMA ClientGoes ==
  ASSUME TypeInv, NEW a \in Calls, NEW c \in Containers,
         call[a] = Idle \/ call[a].c = c, NEW at, NEW ch, NEW t,
         Return(a) \/ Goto(a, at, c, ch, t)
  PROVE  \A b \in Calls : \/ call'[b] = call[b]
                          \/ call[b].c \in {c, None} /\ call'[b].c \in {c, None}
  BY DEF Return, Goto, Idle, TypeInv, TypeOK

\* The step leaves the tasks alone, and c has no live one.
LEMMA StaysEmpty ==
  ASSUME NEW c, Fixed(c)' => NoneLives(c), UNCHANGED <<owner, status, told>>
  PROVE  Fixed(c)' => Tidy(c)'
  <1>1. NoneLives(c) => NoneLives(c)'
        BY DEF NoneLives, Lives
  <1> QED BY <1>1, EmptyIsTidy

LEMMA LiveStartResolve ==
  ASSUME BaseInv, LiveInv, NEW a \in Calls, NEW c \in Containers,
         StartResolve(a, c)
  PROVE  LiveInv'
  <1> USE DEF BaseInv
  <1>1. /\ UNCHANGED <<owner, status, told, ecs, registry, loose>>
        /\ \A d \in Containers : d # c => pending'[d] = pending[d]
        /\ \A d \in Containers : past[d] \subseteq past'[d]
        BY ArrivesKeeps DEF StartResolve, Starts, cloud, TypeInv, TypeOK
  <1>2. \A b \in Calls : \/ call'[b] = call[b]
                         \/ call[b].c \in {c, None} /\ call'[b].c \in {c, None}
        BY ClientGoes DEF StartResolve, Starts, Arrives
  <1>3. Fixed(c)' => Tidy(c)'
    <2>1. Fixed(c)' => Fixed(c)
          BY <1>1 DEF Fixed
    <2>2. CASE call[a] # Idle \/ Resolve(c) # "running"
      <3>1. Fixed(c)' => NoneLives(c)
        <4>1. CASE Arrives(a, c, "start")
          <5>1. Fixed(c)' => \A b \in Calls : call[b].c # c
                BY <4>1, FirstCall
          <5>2. call[a] = Idle
                BY <4>1 DEF Arrives
          <5> QED BY <2>1, <2>2, <5>1, <5>2, LiveResolves DEF LiveInv
        <4>2. CASE call[a].at = "start" /\ call[a].c = c
              BY <2>1, <4>2 DEF LiveInv, Tidy
        <4> QED BY <4>1, <4>2 DEF StartResolve, Starts
      <3> QED BY <1>1, <3>1, StaysEmpty
    <2>3. CASE call[a] = Idle /\ Resolve(c) = "running"
      <3>1. call' = call /\ pending'[c] = "running"
            BY <2>3 DEF StartResolve, Return, TypeInv, TypeOK
      <3>2. \A t \in Tasks : Lives(c, t)' => Lives(c, t)
            BY <1>1 DEF Lives
      <3>3. Fixed(c) => Tidy(c)
            BY DEF LiveInv
      <3>4. \A t \in Tasks : Lives(c, t)' =>
              /\ Lives(c, t) /\ registry'[t] = registry[t]
              /\ status'[t] = "PENDING" => status[t] = "PENDING"
            BY <1>1, <3>2
      <3>5. /\ ecs'[c].task = ecs[c].task /\ pending'[c] \in {"none", "running"}
            /\ \A b \in Calls : call'[b] = call[b]
            BY <1>1, <3>1
      <3> QED BY <2>1, <3>3, <3>4, <3>5, KeepsTidy DEF Minor
    <2> QED BY <2>2, <2>3
  <1> QED BY <1>1, <1>2, <1>3, OthersStayTidy

LEMMA LiveCallRuns ==
  ASSUME BaseInv, LiveInv, NEW a \in Calls, CallRuns(a)
  PROVE  LiveInv'
  <1> USE DEF BaseInv
  <1>1. PICK c \in Containers : c = call[a].c
        BY DEF CallRuns
  <1>2. /\ runECSTask(c) /\ UpdateEcs(c, NewTask)
        /\ UNCHANGED <<pending, told, loose, past>>
        BY <1>1 DEF CallRuns, runECSTask
  <1>3. /\ NewTask \in Tasks /\ owner[NewTask] = None
        /\ owner'[NewTask] = c /\ registry'[NewTask] = "active"
        /\ \A t \in Tasks : t # NewTask =>
               /\ owner'[t] = owner[t] /\ status'[t] = status[t]
               /\ registry'[t] = registry[t]
        BY <1>2, NewTaskIsNew
  <1>4. call'[a].at = "await" /\ call'[a].t = NewTask /\ call'[a].c = c
        BY <1>1 DEF CallRuns, Goto, TypeInv, TypeOK
  <1>5. /\ \A d \in Containers : d # c => ecs'[d] = ecs[d]
        /\ ecs'[c].task \in {0, NewTask}
        BY <1>2 DEF UpdateEcs, TypeInv, TypeOK, Entry
  <1>6. None \notin Containers
        BY EcsAssumption
  <1>7. ASSUME NEW d \in Containers PROVE Fixed(d)' => Fixed(d)
        BY <1>2, <1>3, <1>6 DEF Fixed
  <1>8. Fixed(c)' => Tidy(c)'
    <2> SUFFICES ASSUME Fixed(c)' PROVE Tidy(c)'
        OBVIOUS
    <2>1. NoneLives(c)
          BY <1>1, <1>7 DEF LiveInv, Tidy, CallRuns
    <2>2. \A t \in Tasks : Lives(c, t)' => t = NewTask
          BY <1>2, <1>3, <2>1 DEF NoneLives, Lives
    <2>3. \A b \in Calls : call'[b].c = c => b = a
      <3>1. \A b \in Calls : call'[b].c = call[b].c
            BY <1>1 DEF CallRuns, Goto, TypeInv, TypeOK
      <3> QED BY <1>1, <1>7, <3>1, OnlyCall
    <2>4. Awaits(a, c)'
          BY <1>4 DEF Awaits
    <2>5. /\ \A t \in Tasks : Lives(c, t)' => registry'[t] # "cleaned"
          /\ \A t, u \in Tasks : Lives(c, t)' /\ Lives(c, u)' => t = u
          /\ \A t \in Tasks : Lives(c, t)' /\ ecs'[c].task # 0 => t = ecs'[c].task
          BY <1>3, <1>5, <2>2
    <2>6. \A b \in Calls : call'[b].c = c =>
            call'[b].at = "await" /\ call'[b].t = NewTask
          BY <1>4, <2>3
    <2> QED BY <1>4, <2>2, <2>4, <2>5, <2>6 DEF Tidy
  <1>9. ASSUME NEW d \in Containers, d # c PROVE Fixed(d)' => Tidy(d)'
    <2>1. \A t \in Tasks : Lives(d, t)' =>
            /\ Lives(d, t) /\ registry'[t] = registry[t] /\ status'[t] = status[t]
          BY <1>2, <1>3, <1>9 DEF Lives
    <2>2. \A b \in Calls : call'[b] # call[b] => Minor(call[b], d) /\ Minor(call'[b], d)
      <3>1. \A b \in Calls : b # a => call'[b] = call[b]
            BY DEF CallRuns, Goto, TypeInv, TypeOK
      <3> QED BY <1>1, <1>4, <1>9, <3>1 DEF Minor
    <2>3. Fixed(d) => Tidy(d)
          BY DEF LiveInv
    <2>4. Fixed(d)' => Fixed(d)
          BY <1>7
    <2> QED BY <1>2, <1>5, <1>9, <2>1, <2>2, <2>3, <2>4, KeepsTidy DEF Minor
  <1> QED BY <1>8, <1>9 DEF LiveInv

LEMMA LiveAwaited ==
  ASSUME BaseInv, LiveInv, NEW a \in Calls, waitForTaskRunning(a)
  PROVE  LiveInv'
  <1> USE DEF BaseInv
  <1>1. PICK c \in Containers : c = call[a].c
        BY DEF waitForTaskRunning, TypeInv, CallsPlaced, Placed
  <1>2. /\ UNCHANGED <<owner, status, told, ecs, registry, past>>
        /\ loose \subseteq loose'
        /\ \A d \in Containers : d # c => pending'[d] = pending[d]
        BY <1>1 DEF waitForTaskRunning, Awaited, cloud, TypeInv, TypeOK
  <1>3. \A b \in Calls : \/ call'[b] = call[b]
                         \/ call[b].c \in {c, None} /\ call'[b].c \in {c, None}
        BY <1>1, ClientGoes DEF waitForTaskRunning
  <1>4. Fixed(c)' => Tidy(c)'
    <2> SUFFICES ASSUME Fixed(c)' PROVE Tidy(c)'
        OBVIOUS
    <2>1. Fixed(c) /\ Tidy(c)
          BY <1>2 DEF Fixed, LiveInv
    <2>2. \A t \in Tasks : Lives(c, t) => t = call[a].t
          BY <1>1, <2>1 DEF Tidy, waitForTaskRunning
    <2>3. CASE status[call[a].t] = "RUNNING" /\ pending'[c] = "none"
      <3>1. \A t \in Tasks : Lives(c, t)' => Lives(c, t) /\ status'[t] = "RUNNING"
            BY <1>2, <2>2, <2>3 DEF Lives
      <3>2. \A b \in Calls : call'[b].c # c
        <4>1. call'[a].c # c /\ \A b \in Calls : b # a => call'[b] = call[b]
              BY EcsAssumption DEF waitForTaskRunning, Return, Idle, TypeInv, TypeOK
        <4> QED BY <1>1, <2>1, <4>1, OnlyCall
      <3> QED BY <1>2, <2>1, <2>3, <3>1, <3>2 DEF Tidy
    <2>4. CASE Over(call[a].t)
      <3>1. NoneLives(c)
            BY <2>2, <2>4 DEF NoneLives, Lives, Over, Ended
      <3> QED BY <1>2, <3>1, StaysEmpty
    <2>5. CASE call[a].t \in loose'
      <3>1. NoneLives(c)
            BY <1>2, <2>2, <2>5 DEF NoneLives, Lives, Fixed
      <3> QED BY <1>2, <3>1, StaysEmpty
    <2> QED BY <1>1, <2>3, <2>4, <2>5 DEF waitForTaskRunning, Awaited, Over, Ended,
            TypeInv, TypeOK
  <1> QED BY <1>2, <1>3, <1>4, OthersStayTidy

LEMMA LiveStopBegin ==
  ASSUME BaseInv, LiveInv, NEW a \in Calls, NEW c \in Containers, StopBegin(a, c)
  PROVE  LiveInv'
  <1> USE DEF BaseInv
  <1>1. /\ UNCHANGED <<owner, status, pending, registry>>
        /\ \A d \in Containers : past[d] \subseteq past'[d]
        /\ call[a] = Idle
        BY ArrivesKeeps DEF StopBegin, Arrives
  <1>2. CASE UNCHANGED <<ecs, told, call, loose>>
    <2>1. Fixed(c)' => Fixed(c)
          BY <1>1, <1>2 DEF Fixed
    <2>2. Fixed(c) => Tidy(c)
          BY DEF LiveInv
    <2>3. \A t \in Tasks : Lives(c, t)' =>
            /\ Lives(c, t) /\ registry'[t] = registry[t]
            /\ status'[t] = "PENDING" => status[t] = "PENDING"
          BY <1>1, <1>2 DEF Lives
    <2>4. /\ ecs'[c].task = ecs[c].task /\ pending'[c] = pending[c]
          /\ \A b \in Calls : call'[b] = call[b]
          BY <1>1, <1>2
    <2>5. Fixed(c)' => Tidy(c)'
          BY <2>1, <2>2, <2>3, <2>4, KeepsTidy DEF Minor
    <2> QED BY <1>1, <1>2, <2>5, OthersStayTidy
  <1>3. CASE ~UNCHANGED <<ecs, told, call, loose>>
    <2>1. PICK t \in ResolvedTasks(c) :
            /\ t # 0 /\ UpdateEcs(c, t)
            /\ loose' = loose \cup Missed(c, t)
            /\ \/ Tell(t) /\ Goto(a, "stop", c, 0, t)
               \/ UNCHANGED <<told, call>>
          BY <1>3 DEF StopBegin
    <2>2. /\ \A d \in Containers : d # c => ecs'[d] = ecs[d]
          /\ ecs'[c].task \in {0, t}
          BY <2>1 DEF UpdateEcs, TypeInv, TypeOK, Entry
    <2>3. \A b \in Calls : \/ call'[b] = call[b]
                           \/ call[b].c \in {c, None} /\ call'[b].c \in {c, None}
          BY <1>1, <2>1, ClientGoes
    <2>4. told \subseteq told' /\ loose \subseteq loose'
          BY <2>1 DEF Tell
    <2>5. Fixed(c)' => Tidy(c)'
      <3> SUFFICES ASSUME Fixed(c)' PROVE Tidy(c)'
          OBVIOUS
      <3>1. Fixed(c) /\ Tidy(c)
            BY <1>1, <2>4 DEF Fixed, LiveInv
      <3>2. \A u \in Tasks : Lives(c, u) => u = t
        <4>1. \A u \in Tasks : owner[u] = c => u \notin Missed(c, t)
              BY <1>1, <2>1 DEF Fixed
        <4> QED BY <3>1, <4>1, ResolvedIsLive DEF Lives
      <3>3. CASE Tell(t)
        <4>1. NoneLives(c)'
              BY <1>1, <2>4, <3>2, <3>3 DEF NoneLives, Lives, Tell, Desired
        <4> QED BY <4>1, EmptyIsTidy
      <3>4. CASE UNCHANGED <<told, call>>
        <4>1. \A u \in Tasks : Lives(c, u)' <=> Lives(c, u)
              BY <1>1, <3>4 DEF Lives
        <4>2. NoneLives(c) => NoneLives(c)'
              BY <4>1 DEF NoneLives
        <4>3. \A b \in Calls : Awaits(b, c) => Awaits(b, c)'
              BY <3>4 DEF Awaits
        <4>4. \A u \in Tasks : Lives(c, u)' /\ ecs'[c].task # 0 => u = ecs'[c].task
              BY <2>2, <3>2, <4>1
        <4> QED BY <1>1, <3>1, <3>4, <4>1, <4>2, <4>3, <4>4 DEF Tidy
      <3> QED BY <2>1, <3>3, <3>4
    <2> QED BY <1>1, <2>2, <2>3, <2>4, <2>5, OthersStayTidy
  <1> QED BY <1>2, <1>3

\* The task that is found carries the tag of the container.
LEMMA ResolvedIsOwn ==
  ASSUME OwnInv, NEW c \in Containers, NEW t \in ResolvedTasks(c), t # 0
  PROVE  owner[t] = c
  BY DEF ResolvedTasks, Listed, TasksOf, OwnInv

LEMMA MarksOwn ==
  ASSUME OwnInv, NEW c \in Containers, NEW t \in ResolvedTasks(c)
  PROVE  \A u \in Tasks : owner[u] # c => MarkCleanedUp(t)[u] = registry[u]
  <1>1. 0 \notin Tasks
        BY DEF Tasks
  <1> QED BY <1>1, ResolvedIsOwn DEF MarkCleanedUp

\* The other calls that stop a task, or that find none to stop.
LEMMA LiveCallBegin ==
  ASSUME BaseInv, LiveInv, NEW a \in Calls, NEW c \in Containers,
         \/ KillBegin(a, c) \/ RestartBegin(a, c) \/ RestartStopped(a, c)
         \/ \E force \in BOOLEAN : RemoveBegin(a, c, force)
         \/ PruneBegin(a, c)
  PROVE  LiveInv'
  <1> USE DEF BaseInv
  <1>1. /\ UNCHANGED <<owner, status>>
        /\ \E at : Arrives(a, c, at) /\ Goto(a, at, c, 0, 0)
        BY DEF KillBegin, RestartBegin, RestartStopped, RemoveBegin, PruneBegin, cloud
  <1>2. \A b \in Calls : \/ call'[b] = call[b]
                         \/ call[b].c \in {c, None} /\ call'[b].c \in {c, None}
        BY <1>1, ClientGoes DEF Arrives
  <1>3. /\ Fixed(c)' => \A b \in Calls : call[b].c # c
        /\ \A d \in Containers : past[d] \subseteq past'[d]
        BY <1>1, FirstCall, ArrivesKeeps
  <1>4. Fixed(c) => Tidy(c)
        BY DEF LiveInv
  <1>5. \A d \in Containers : d # c => ecs'[d] = ecs[d] /\ pending'[d] = pending[d]
        BY DEF KillBegin, RestartBegin, RestartStopped, RemoveBegin, PruneBegin, memory,
           UpdateEcs, TypeInv, TypeOK
  <1>6. CASE \E t \in ResolvedTasks(c) : StopTask(c, t)
    <2>1. PICK t \in ResolvedTasks(c) : StopTask(c, t)
          BY <1>6
    <2>2. Fixed(c)' => Tidy(c)'
          BY <1>1, <1>3, <1>4, <2>1, StopSettles, EmptyIsTidy
    <2>3. told \subseteq told' /\ loose \subseteq loose'
          BY <2>1 DEF StopTask, Tell
    <2>4. \A u \in Tasks : owner[u] # c => registry'[u] = registry[u]
          BY MarksOwn DEF KillBegin, RestartBegin, RestartStopped, RemoveBegin,
             PruneBegin, memory
    <2> QED BY <1>1, <1>2, <1>3, <1>5, <2>2, <2>3, <2>4, OthersStayTidy
  <1>7. CASE ~ \E t \in ResolvedTasks(c) : StopTask(c, t)
    <2>1. Resolve(c) # "running" \/ GetContainer(c) # "running"
          BY <1>7 DEF KillBegin, RestartBegin, RestartStopped, RemoveBegin, PruneBegin
    <2>2. UNCHANGED <<told, loose, registry>>
          BY <1>7 DEF KillBegin, RestartBegin, RestartStopped, RemoveBegin, PruneBegin,
             cloud, memory
    <2>3. Fixed(c)' => NoneLives(c)
      <3>1. Fixed(c)' => Fixed(c)
            BY <1>1, <1>3, <2>2 DEF Fixed
      <3> QED BY <1>3, <1>4, <2>1, <3>1, LiveResolves
    <2>4. Fixed(c)' => Tidy(c)'
          BY <1>1, <2>2, <2>3, StaysEmpty
    <2> QED BY <1>1, <1>2, <1>3, <1>5, <2>2, <2>4, OthersStayTidy
  <1> QED BY <1>6, <1>7

LEMMA LiveCallEnd ==
  ASSUME BaseInv, LiveInv, NEW a \in Calls,
         \/ StopEnd(a) \/ KillEnd(a) \/ RestartEnd(a) \/ RemoveEnd(a) \/ PruneEnd(a)
         \/ StartRunTask(a) /\ ~CallRuns(a)
  PROVE  LiveInv'
  <1> USE DEF BaseInv
  <1>1. PICK c \in Containers : c = call[a].c
        BY DEF StopEnd, KillEnd, RestartEnd, RemoveEnd, PruneEnd, StartRunTask, TypeInv,
           CallsPlaced, Placed
  <1>2. UNCHANGED <<owner, status, told, loose, past>>
        BY <1>1 DEF StopEnd, KillEnd, RestartEnd, RemoveEnd, Removed, PruneEnd,
           StartRunTask, CallRuns, cloud, history
  <1>3. \A b \in Calls : \/ call'[b] = call[b]
                         \/ call[b].c \in {c, None} /\ call'[b].c \in {c, None}
    <2>1. Return(a) \/ Goto(a, "start", c, 0, 0)
          BY <1>1 DEF StopEnd, KillEnd, RestartEnd, RemoveEnd, Removed, PruneEnd,
             StartRunTask, CallRuns, history
    <2> QED BY <1>1, <2>1, ClientGoes
  <1>4. /\ \A d \in Containers : d # c => ecs'[d] = ecs[d] /\ pending'[d] = pending[d]
        /\ \A u \in Tasks : owner[u] # c => registry'[u] = registry[u]
    <2>1. CASE RemoveEnd(a)
      <3>1. PICK t \in ResolvedTasks(c), answered \in SUBSET DesiredStatus :
              registry' = markTasksRemoved(c, answered, MarkCleanedUp(t))
            BY <1>1, <2>1 DEF RemoveEnd
      <3>2. \A u \in Tasks : owner[u] # c => registry'[u] = registry[u]
            BY <3>1, MarksOwn DEF markTasksRemoved, Listed, TasksOf
      <3> QED BY <1>1, <2>1, <3>2 DEF RemoveEnd, Removed, TypeInv, TypeOK
    <2>2. CASE PruneEnd(a)
      <3>1. ecs[c].task \in ResolvedTasks(c)
            BY DEF ResolvedTasks
      <3> QED BY <1>1, <2>2, <3>1, MarksOwn DEF PruneEnd, TypeInv, TypeOK
    <2>3. CASE RestartEnd(a)
          BY <1>1, <2>3 DEF RestartEnd, TypeInv, TypeOK
    <2> QED BY <1>1, <2>1, <2>2, <2>3 DEF StopEnd, KillEnd, StartRunTask, CallRuns, history
  <1>5. Fixed(c)' => Tidy(c)'
    <2>1. Fixed(c)' => Fixed(c)
          BY <1>2 DEF Fixed
    <2>2. Fixed(c) => Tidy(c)
          BY DEF LiveInv
    <2>3. CASE call[a].at \in {"run", "restart", "remove", "prune"}
      <3>1. Fixed(c) => NoneLives(c)
            BY <1>1, <2>2, <2>3 DEF Tidy
      <3> QED BY <1>2, <2>1, <3>1, StaysEmpty
    <2>4. CASE StopEnd(a) \/ KillEnd(a)
      <3>1. \A t \in Tasks : Lives(c, t)' =>
              /\ Lives(c, t) /\ registry'[t] = registry[t]
              /\ status'[t] = "PENDING" => status[t] = "PENDING"
            BY <1>2, <2>4 DEF StopEnd, KillEnd, Lives
      <3>2. ecs'[c].task = ecs[c].task /\ pending'[c] = pending[c]
            BY <2>4 DEF StopEnd, KillEnd
      <3>3. \A b \in Calls : call'[b] # call[b] => Minor(call[b], c) /\ Minor(call'[b], c)
            BY <2>4 DEF StopEnd, KillEnd, Return, Idle, Minor, TypeInv, TypeOK
      <3> QED BY <2>1, <2>2, <3>1, <3>2, <3>3, KeepsTidy DEF Minor
    <2> QED BY <2>3, <2>4 DEF RestartEnd, RemoveEnd, PruneEnd, StartRunTask
  <1> QED BY <1>2, <1>3, <1>4, <1>5, OthersStayTidy

\* A step that leaves calls and caches alone, and starts no task.
LEMMA LiveKept ==
  ASSUME LiveInv, UNCHANGED <<owner, registry, ecs, call>>, loose \subseteq loose',
         \A c \in Containers : past[c] \subseteq past'[c],
         \A t \in Tasks : \/ status'[t] = status[t] /\ (t \in told => t \in told')
                          \/ status'[t] \notin {"PENDING", "RUNNING"}
                          \/ /\ status[t] = "PENDING" /\ status'[t] = "RUNNING"
                             /\ t \notin told,
         \A c \in Containers : pending'[c] = pending[c] \/ pending'[c] = "none"
  PROVE  LiveInv'
  <1> SUFFICES ASSUME NEW c \in Containers PROVE Fixed(c)' => Tidy(c)'
      BY DEF LiveInv
  <1>1. \A t \in Tasks : Lives(c, t)' =>
          /\ Lives(c, t) /\ registry'[t] = registry[t]
          /\ status'[t] = "PENDING" => status[t] = "PENDING"
        BY DEF Lives
  <1>2. Fixed(c)' => Fixed(c)
        BY DEF Fixed
  <1>3. Fixed(c) => Tidy(c)
        BY DEF LiveInv
  <1>4. /\ ecs'[c].task = ecs[c].task
        /\ pending'[c] = pending[c] \/ pending'[c] \in {"none", "running"}
        /\ \A b \in Calls : call'[b] # call[b] => Minor(call[b], c) /\ Minor(call'[b], c)
        OBVIOUS
  <1> QED BY <1>1, <1>2, <1>3, <1>4, KeepsTidy DEF Minor

LEMMA LiveLaunchRuns ==
  ASSUME BaseInv, LiveInv, NEW l \in Launchers, LaunchRuns(l)
  PROVE  LiveInv'
  <1> USE DEF BaseInv
  <1>1. PICK c \in Containers : c = launch[l].c
        BY DEF LaunchRuns
  <1>2. /\ runECSTask(c) /\ UpdateEcs(c, NewTask)
        /\ UNCHANGED <<pending, told, call, past>>
        /\ loose' = loose \cup {NewTask}
        BY <1>1 DEF LaunchRuns, runECSTask
  <1>3. /\ NewTask \in Tasks /\ owner[NewTask] = None /\ owner'[NewTask] = c
        /\ \A t \in Tasks : t # NewTask =>
               /\ owner'[t] = owner[t] /\ status'[t] = status[t]
               /\ registry'[t] = registry[t]
        BY <1>2, NewTaskIsNew
  <1>4. \A d \in Containers : d # c => ecs'[d] = ecs[d]
        BY <1>2 DEF UpdateEcs, TypeInv, TypeOK
  <1>5. ~Fixed(c)'
        BY <1>2, <1>3 DEF Fixed
  <1>6. ASSUME NEW d \in Containers, d # c PROVE Fixed(d)' => Tidy(d)'
    <2>1. \A t \in Tasks : Lives(d, t)' =>
            /\ Lives(d, t) /\ registry'[t] = registry[t]
            /\ status'[t] = "PENDING" => status[t] = "PENDING"
          BY <1>2, <1>3, <1>6 DEF Lives
    <2>2. /\ ecs'[d].task = ecs[d].task /\ pending'[d] = pending[d]
          /\ \A b \in Calls : call'[b] # call[b] => Minor(call[b], d) /\ Minor(call'[b], d)
          BY <1>2, <1>4, <1>6
    <2>3. Fixed(d) => Tidy(d)
          BY DEF LiveInv
    <2>4. Fixed(d)' => Fixed(d)
      <3>1. None \notin Containers
            BY EcsAssumption
      <3> QED BY <1>2, <1>3, <1>6, <3>1 DEF Fixed
    <2> QED BY <2>1, <2>2, <2>3, <2>4, KeepsTidy DEF Minor
  <1> QED BY <1>5, <1>6 DEF LiveInv

LEMMA LiveLaunchStep ==
  ASSUME BaseInv, LiveInv, NEW l \in Launchers, LaunchStep(l)
  PROVE  LiveInv'
  <1> USE DEF BaseInv
  <1>1. PICK c \in Containers : c = launch[l].c
        BY DEF LaunchStep, LaunchRunTask, LaunchAwait, TypeInv, LaunchersPlaced, Placed
  <1>2. CASE LaunchRunTask(l) /\ ~LaunchRuns(l)
        BY <1>1, <1>2, LiveKept DEF LaunchRunTask, LaunchRuns, cloud
  <1>3. CASE LaunchAwait(l)
    <2>1. /\ UNCHANGED <<owner, status, told, registry, ecs, call, past>>
          /\ loose \subseteq loose'
          BY <1>3 DEF LaunchAwait, Awaited, cloud
    <2>2. \A d \in Containers : pending'[d] = pending[d] \/ pending'[d] = "none"
          BY <1>3 DEF LaunchAwait, Awaited, TypeInv, TypeOK
    <2> QED BY <2>1, <2>2, LiveKept
  <1> QED BY <1>2, <1>3, LiveLaunchRuns DEF LaunchStep

LEMMA LiveAside ==
  ASSUME BaseInv, LiveInv, Aside
  PROVE  LiveInv'
  <1> USE DEF BaseInv
  <1>1. UNCHANGED <<owner, pending, ecs, registry, call, loose>>
        BY AsideKeeps
  <1>2. \A c \in Containers : past[c] \subseteq past'[c]
        BY DEF Aside, Attach, PollStep, PollDescribe, applyTaskStatus, PollQuit,
           WaitBegin, WaitReturn, CloudStep, TaskRuns, TaskFails, TaskEnds, TaskStops,
           TaskStep, TaskExpires, vars, history
  <1>3. \A t \in Tasks : \/ status'[t] = status[t] /\ (t \in told => t \in told')
                         \/ status'[t] \notin {"PENDING", "RUNNING"}
                         \/ /\ status[t] = "PENDING" /\ status'[t] = "RUNNING"
                            /\ t \notin told
    <2>1. CASE \E t \in Tasks : CloudStep(t)
          BY <2>1 DEF CloudStep, TaskRuns, TaskFails, TaskEnds, TaskStops, TaskStep,
             TypeInv, TypeOK
    <2>2. CASE \E t \in Tasks : TaskExpires(t)
          BY <2>2 DEF TaskExpires, TypeInv, TypeOK
    <2>3. CASE ~ \E t \in Tasks : CloudStep(t) \/ TaskExpires(t)
          BY <2>3 DEF Aside, Attach, PollStep, PollDescribe, applyTaskStatus, PollQuit,
             WaitBegin, WaitReturn, vars, cloud
    <2> QED BY <2>1, <2>2, <2>3
  <1> QED BY <1>1, <1>2, <1>3, LiveKept

LEMMA LiveCreate ==
  ASSUME BaseInv, LiveInv, NEW c \in Containers, ContainerCreate(c)
  PROVE  LiveInv'
  <1> USE DEF BaseInv
  <1>1. /\ UNCHANGED <<owner, status, told, registry, call, loose, past>>
        /\ \A d \in Containers : d # c => ecs'[d] = ecs[d] /\ pending'[d] = pending[d]
        BY DEF ContainerCreate, cloud, goroutines, TypeInv, TypeOK
  <1>2. NoneLives(c)
        BY DEF ContainerCreate, UseInv, Present, NoneLives, Lives
  <1>3. Fixed(c)' => Tidy(c)'
        BY <1>1, <1>2, StaysEmpty
  <1> QED BY <1>1, <1>3, OthersStayTidy

LEMMA LiveRestart ==
  ASSUME BaseInv, LiveInv, Restart
  PROVE  LiveInv'
  <1> SUFFICES ASSUME NEW c \in Containers, Fixed(c)' PROVE Tidy(c)'
      BY DEF LiveInv
  <1>1. /\ UNCHANGED <<owner, status, told>> /\ loose \subseteq loose'
        /\ past[c] \subseteq past'[c]
        /\ \A t \in Tasks : registry'[t] # "cleaned"
        /\ ecs'[c].task = 0 /\ pending'[c] = "none"
        BY DEF Restart, cloud, Absent
  <1>2. \A a \in Calls : call'[a].c # c
        BY EcsAssumption DEF Restart, Idle
  <1>3. \A t \in Tasks : Lives(c, t)' => Lives(c, t)
        BY <1>1 DEF Lives
  <1>4. \A t \in Tasks : Lives(c, t)' => status'[t] # "PENDING"
    <2> SUFFICES ASSUME NEW t \in Tasks, Lives(c, t)', status'[t] = "PENDING" PROVE FALSE
        OBVIOUS
    <2>1. t \in loose'
          BY <1>1 DEF Restart, ScanOrphanedResources, Desired, Lives
    <2> QED BY <2>1 DEF Fixed, Lives
  <1>5. Tidy(c)
        BY <1>1 DEF LiveInv, Fixed
  <1> QED BY <1>1, <1>2, <1>3, <1>4, <1>5 DEF Tidy

LEMMA LiveInvStep == BaseInv /\ LiveInv /\ [Next]_vars => LiveInv'
  <1> SUFFICES ASSUME BaseInv, LiveInv, [Next]_vars PROVE LiveInv'
      OBVIOUS
  <1>1. ASSUME NEW a \in Calls, CallBegin(a) PROVE LiveInv'
        BY <1>1, LiveStartResolve, LiveStopBegin, LiveCallBegin DEF CallBegin
  <1>2. ASSUME NEW a \in Calls, CallStep(a) PROVE LiveInv'
        BY <1>2, LiveStartResolve, LiveCallRuns, LiveAwaited, LiveCallEnd DEF CallStep
  <1> QED BY <1>1, <1>2, LiveLaunchStep, LiveAside, LiveCreate, LiveRestart
          DEF Next, Aside

\* For any number of containers, calls, launchers, tasks and restarts of the
\* backend: a container on which calls never overlapped does not have two tasks
\* that are meant to run, unless one of its tasks was given up, cut off, left to
\* a launcher, or not found or not stopped because a cloud call failed.
THEOREM OneTaskLives == Spec => []OneLiveTask
  <1>1. Init => LiveInv
    <2> SUFFICES ASSUME Init, NEW c \in Containers PROVE Tidy(c)
        BY DEF LiveInv
    <2>1. NoneLives(c)
          BY EcsAssumption DEF Init, NoneLives, Lives
    <2>2. \A a \in Calls : call[a].c # c
          BY EcsAssumption DEF Init, Idle
    <2> QED BY <2>1, <2>2 DEF NoneLives, Tidy
  <1>2. LiveInv => OneLiveTask
    <2> SUFFICES ASSUME LiveInv, NEW c \in Containers, "overlap" \notin past[c],
                        TasksOf(c) \cap loose = {}
                 PROVE  Cardinality(Live(c)) <= 1
        BY DEF OneLiveTask
    <2>1. Tidy(c)
          BY DEF LiveInv, Fixed, TasksOf
    <2>2. \A t, u \in Live(c) : t = u
          BY <2>1, MeantLives DEF Live, Tidy
    <2>3. CASE Live(c) = {}
          BY <2>3, FS_EmptySet
    <2>4. CASE Live(c) # {}
      <3>1. PICK t : t \in Live(c)
            BY <2>4
      <3>2. Live(c) = {t}
            BY <2>2, <3>1
      <3>3. Cardinality({t}) = 1
            BY FS_Singleton
      <3> QED BY <3>2, <3>3
    <2> QED BY <2>3, <2>4
  <1> QED BY <1>1, <1>2, BaseInvHolds, LiveInvStep, PTL DEF Spec

-----------------------------------------------------------------------------
\* Sets of tasks by their size.
Enough(V, E) == Cardinality(V) >= Cardinality(E)
More(V, E) == Cardinality(V) > Cardinality(E)

LEMMA TasksAreFinite ==
  ASSUME NEW S \in SUBSET Tasks
  PROVE  IsFiniteSet(S) /\ Cardinality(S) \in Nat
  <1>1. 1 \in Int /\ MaxTasks \in Int
        BY EcsAssumption
  <1>2. IsFiniteSet(Tasks)
        BY <1>1, FS_Interval DEF Tasks
  <1>3. IsFiniteSet(S)
        BY <1>2, FS_Subset
  <1> QED BY <1>3, FS_CardinalityType

LEMMA FewerExpected ==
  ASSUME NEW V \in SUBSET Tasks, NEW E \in SUBSET Tasks, NEW F \in SUBSET E
  PROVE  (Enough(V, E) => Enough(V, F)) /\ (More(V, E) => More(V, F))
  <1>1. /\ Cardinality(V) \in Nat /\ Cardinality(E) \in Nat /\ IsFiniteSet(E)
        BY TasksAreFinite
  <1>2. F \in SUBSET Tasks
        OBVIOUS
  <1>3. Cardinality(F) \in Nat
        BY <1>2, TasksAreFinite
  <1>4. Cardinality(F) <= Cardinality(E)
        BY <1>1, FS_Subset
  <1> QED BY <1>1, <1>3, <1>4 DEF Enough, More

LEMMA OneMoreOfBoth ==
  ASSUME NEW V \in SUBSET Tasks, NEW E \in SUBSET Tasks, NEW n \in Tasks,
         n \notin V, n \notin E
  PROVE  /\ Enough(V, E) => Enough(V \cup {n}, E \cup {n})
         /\ More(V, E) => More(V \cup {n}, E \cup {n})
  <1>1. /\ Cardinality(V) \in Nat /\ Cardinality(E) \in Nat
        /\ IsFiniteSet(V) /\ IsFiniteSet(E)
        BY TasksAreFinite
  <1>2. /\ Cardinality(V \cup {n}) = Cardinality(V) + 1
        /\ Cardinality(E \cup {n}) = Cardinality(E) + 1
        BY <1>1, FS_AddElement
  <1> QED BY <1>1, <1>2 DEF Enough, More

LEMMA OneNoLongerExpected ==
  ASSUME NEW V \in SUBSET Tasks, NEW E \in SUBSET Tasks, NEW t \in E, Enough(V, E)
  PROVE  Enough(V, E \ {t}) /\ More(V, E \ {t})
  <1>1. /\ Cardinality(V) \in Nat /\ Cardinality(E) \in Nat /\ IsFiniteSet(E)
        BY TasksAreFinite
  <1>2. Cardinality(E \ {t}) = Cardinality(E) - 1
        BY <1>1, FS_RemoveElement
  <1> QED BY <1>1, <1>2 DEF Enough, More

LEMMA OneIsHidden ==
  ASSUME NEW V \in SUBSET Tasks, NEW W \in SUBSET Tasks, NEW E \in SUBSET Tasks, NEW t,
         V \ {t} \subseteq W, More(V, E)
  PROVE  Enough(W, E)
  <1>1. /\ Cardinality(V) \in Nat /\ Cardinality(E) \in Nat /\ Cardinality(W) \in Nat
        /\ IsFiniteSet(V) /\ IsFiniteSet(W)
        BY TasksAreFinite
  <1>2. Cardinality(V \ {t}) \in {Cardinality(V), Cardinality(V) - 1}
        BY <1>1, FS_RemoveElement
  <1>3. Cardinality(V \ {t}) <= Cardinality(W)
        BY <1>1, FS_Subset
  <1>4. \A i, j, k, m \in Int : i > k /\ (j = i \/ j = i - 1) /\ j <= m => m >= k
        OBVIOUS
  <1> QED BY <1>1, <1>2, <1>3, <1>4 DEF Enough, More

\* The tasks that goroutines working on c wait for.
Expected(c) ==
    {t \in Tasks : \/ \E a \in Calls : Awaiting(call[a]) /\ call[a].c = c /\ call[a].t = t
                   \/ \E l \in Launchers :
                         Awaiting(launch[l]) /\ launch[l].c = c /\ launch[l].t = t}

\* PendingCreates does not stand for c, or says that it runs, and no restart of c
\* is about to put it there.
Restarting(c) == \E a \in Calls : call[a].at = "restart" /\ call[a].c = c
Bare(c) == pending[c] \in {"none", "running"} /\ ~Restarting(c)

\* A created container that is there has a visible task for every goroutine that
\* waits for one of its tasks, and one more when it is bare: each of them may
\* take it out of PendingCreates, and a restart hides a task after each time.
CountAt(c) == /\ Enough(Visible(c), Expected(c))
              /\ Bare(c) => More(Visible(c), Expected(c))

\* No two docker restarts of c overlapped, and ECS dropped nothing that stood for it.
Kept(c) == past[c] \cap {"restarts", "expired"} = {}
CountInv ==
    \A c \in Containers : life[c] = "made" /\ Present(c) /\ Kept(c) => CountAt(c)

\* A step of the backend that goes on, with no task dropped by ECS.
Steady ==
    /\ ~Restart
    /\ \A t \in Tasks : owner[t] \in Containers =>
          (status'[t] = "GONE" <=> status[t] = "GONE")

\* All that a step does to container c, other than a restart of the backend.
CountKept(c) == /\ Visible(c)' = Visible(c) /\ Expected(c)' \subseteq Expected(c)
                /\ Bare(c)' => Bare(c)
                /\ Present(c)' => Present(c)
CountRuns(c) == /\ NewTask \notin Visible(c) /\ NewTask \notin Expected(c)
                /\ Visible(c)' = Visible(c) \cup {NewTask}
                /\ Expected(c)' = Expected(c) \cup {NewTask}
                /\ Bare(c)' => Bare(c)
                /\ NewTask \in Tasks
                /\ Present(c)
CountClears(c) == /\ Visible(c)' = Visible(c)
                  /\ \E t \in Expected(c) : Expected(c)' = Expected(c) \ {t}
                  /\ Present(c)
CountHides(c) == /\ \E t : Visible(c) \ {t} \subseteq Visible(c)'
                 /\ Expected(c)' = Expected(c) /\ Bare(c) /\ ~Bare(c)' /\ Present(c)
CountStep(c) == \/ life'[c] # "made"
                \/ /\ life[c] = "made"
                   /\ CountKept(c) \/ CountRuns(c) \/ CountClears(c) \/ CountHides(c)
                \/ Expected(c)' = {} /\ ~Bare(c)'
                \/ ~Kept(c)'

LEMMA CountStepKeeps ==
  ASSUME TypeInv, NEW c \in Containers,
         life[c] = "made" /\ Present(c) => CountAt(c),
         CountStep(c), life'[c] = "made", Present(c)', Kept(c)'
  PROVE  CountAt(c)'
  <1> DEFINE V == Visible(c)
             E == Expected(c)
  <1>1. PICK W : W = Visible(c)'
        OBVIOUS
  <1>2. PICK F : F = Expected(c)'
        OBVIOUS
  <1>3. /\ V \in SUBSET Tasks /\ E \in SUBSET Tasks
        /\ W \in SUBSET Tasks /\ F \in SUBSET Tasks
        BY <1>1, <1>2 DEF Visible, Listed, TasksOf, Expected
  <1>5. ASSUME Enough(W, F), Bare(c)' => More(W, F) PROVE CountAt(c)'
        BY <1>1, <1>2, <1>5 DEF CountAt, Enough, More
  <1>6. CASE life[c] = "made" /\ CountKept(c)
    <2>1. CountAt(c) /\ F \in SUBSET E /\ W = V
          BY <1>1, <1>2, <1>6 DEF CountKept
    <2>2. (Enough(V, E) => Enough(V, F)) /\ (More(V, E) => More(V, F))
      <3> HIDE DEF V, E
      <3> QED BY <1>3, <2>1, FewerExpected
    <2> QED BY <1>5, <1>6, <2>1, <2>2 DEF CountAt, CountKept
  <1>7. CASE life[c] = "made" /\ CountRuns(c)
    <2>1. /\ CountAt(c) /\ F = E \cup {NewTask} /\ W = V \cup {NewTask}
          BY <1>1, <1>2, <1>7 DEF CountRuns
    <2>2. /\ Enough(V, E) => Enough(V \cup {NewTask}, E \cup {NewTask})
          /\ More(V, E) => More(V \cup {NewTask}, E \cup {NewTask})
      <3>1. NewTask \in Tasks /\ NewTask \notin V /\ NewTask \notin E
            BY <1>7 DEF CountRuns
      <3> HIDE DEF V, E
      <3> QED BY <1>3, <3>1, OneMoreOfBoth
    <2> QED BY <1>5, <1>7, <2>1, <2>2 DEF CountAt, CountRuns
  <1>8. CASE life[c] = "made" /\ CountClears(c)
    <2>1. PICK t \in E : Expected(c)' = E \ {t}
          BY <1>8 DEF CountClears
    <2>2. CountAt(c) /\ W = V /\ F = E \ {t}
          BY <1>1, <1>2, <1>8, <2>1 DEF CountClears
    <2>3. Enough(V, E) => Enough(V, E \ {t}) /\ More(V, E \ {t})
      <3> HIDE DEF V, E
      <3> QED BY <1>3, OneNoLongerExpected
    <2> QED BY <1>5, <2>2, <2>3 DEF CountAt
  <1>9. CASE life[c] = "made" /\ CountHides(c)
    <2>1. PICK t : V \ {t} \subseteq W
          BY <1>1, <1>9 DEF CountHides
    <2>2. CountAt(c) /\ F = E /\ Bare(c) /\ ~Bare(c)'
          BY <1>2, <1>9 DEF CountHides
    <2>3. More(V, E) => Enough(W, E)
      <3> HIDE DEF V, E
      <3> QED BY <1>3, <2>1, OneIsHidden
    <2> QED BY <1>5, <2>2, <2>3 DEF CountAt
  <1>10. CASE Expected(c)' = {} /\ ~Bare(c)'
    <2>1. F = {}
          BY <1>2, <1>10
    <2>2. Cardinality(W) \in Nat /\ Cardinality({}) = 0
          BY <1>3, TasksAreFinite, FS_EmptySet
    <2>3. Enough(W, F)
          BY <2>1, <2>2 DEF Enough
    <2> QED BY <1>5, <1>10, <2>3
  <1> QED BY <1>6, <1>7, <1>8, <1>9, <1>10 DEF CountStep

\* A container that a step makes present was so before, if it was created before.
LEMMA WasPresent ==
  ASSUME BaseInv, [Next]_vars, ~Restart, NEW c \in Containers, life[c] = "made"
  PROVE  Present(c)' => Present(c)
  <1>1. UseStepAt(c)
        BY OnlyUseSteps DEF BaseInv
  <1> QED BY <1>1 DEF UseStepAt, UseInv, BaseInv

\* A step on container c, with no change to the tasks of the others.
LEMMA CountOthers ==
  ASSUME TypeInv, Steady, NEW c \in Containers, NEW d \in Containers, d # c,
         \A t \in Tasks : owner'[t] = d <=> owner[t] = d,
         \A t \in Tasks : owner[t] = d => registry'[t] = registry[t],
         pending'[d] = pending[d],
         \A b \in Calls : call'[b] # call[b] => call[b].c # d /\ call'[b].c # d,
         \A l \in Launchers : launch'[l] # launch[l] => launch[l].c # d /\ launch'[l].c # d,
         Present(d)' => Present(d)
  PROVE  CountKept(d)
  <1>1. Visible(d)' = Visible(d)
        BY DEF Steady, Visible, Listed, TasksOf
  <1>2. Expected(d)' \subseteq Expected(d)
    <2> SUFFICES ASSUME NEW t \in Tasks, t \in Expected(d)' PROVE t \in Expected(d)
        BY DEF Expected
    <2>1. CASE \E b \in Calls : Awaiting(call'[b]) /\ call'[b].c = d /\ call'[b].t = t
          BY <2>1 DEF Expected
    <2>2. CASE \E l \in Launchers :
                  Awaiting(launch'[l]) /\ launch'[l].c = d /\ launch'[l].t = t
          BY <2>2 DEF Expected
    <2> QED BY <2>1, <2>2 DEF Expected
  <1>3. Restarting(d) => Restarting(d)'
        BY DEF Restarting
  <1>4. Bare(d)' => Bare(d)
        BY <1>3 DEF Bare
  <1> QED BY <1>1, <1>2, <1>4 DEF CountKept

\* Frames of c stay with c or go to no container.
LEMMA CallApart ==
  ASSUME TypeInv, NEW a \in Calls, NEW c \in Containers,
         call[a] = Idle \/ call[a].c = c,
         NEW at, NEW ch, NEW t, Return(a) \/ Goto(a, at, c, ch, t) \/ UNCHANGED call
  PROVE  /\ \A b \in Calls : b # a => call'[b] = call[b]
         /\ \A d \in Containers : d # c =>
               \A b \in Calls : call'[b] # call[b] => call[b].c # d /\ call'[b].c # d
  <1>1. Idle.c = None /\ None \notin Containers /\ call \in [Calls -> Frame]
        BY EcsAssumption DEF Idle, TypeInv, TypeOK
  <1>2. /\ \A b \in Calls : b # a => call'[b] = call[b]
        /\ call'[a] = call[a] \/ call'[a].c = c \/ call'[a].c = None
        BY <1>1 DEF Return, Goto
  <1> QED BY <1>1, <1>2

\* Nobody comes to wait for a task of c: fewer are expected.
LEMMA FewerWait ==
  ASSUME NoOneBegins, NEW c \in Containers
  PROVE  Expected(c)' \subseteq Expected(c)
  <1> SUFFICES ASSUME NEW t \in Tasks, t \in Expected(c)' PROVE t \in Expected(c)
      BY DEF Expected
  <1>1. CASE \E b \in Calls : Awaiting(call'[b]) /\ call'[b].c = c /\ call'[b].t = t
        BY <1>1 DEF Expected, NoOneBegins
  <1>2. CASE \E l \in Launchers :
                Awaiting(launch'[l]) /\ launch'[l].c = c /\ launch'[l].t = t
        BY <1>2 DEF Expected, NoOneBegins
  <1> QED BY <1>1, <1>2 DEF Expected

\* A step that leaves owners, registry and PendingCreates alone, or puts c back as
\* not running.
LEMMA CountQuiet ==
  ASSUME BaseInv, [Next]_vars, Steady, NoOneBegins, UNCHANGED registry,
         NEW c \in Containers, life[c] = "made",
         pending'[c] \in {"none", "running"} =>
            pending[c] \in {"none", "running"} /\ (Restarting(c) => Restarting(c)')
  PROVE  CountKept(c)
  <1>1. Visible(c)' = Visible(c)
        BY DEF NoOneBegins, Steady, Visible, Listed, TasksOf
  <1>2. Bare(c)' => Bare(c)
        BY DEF Bare
  <1> QED BY <1>1, <1>2, FewerWait, WasPresent DEF CountKept, Steady

LEMMA CountCallBegin ==
  ASSUME BaseInv, [Next]_vars, Steady, NEW a \in Calls, NEW c \in Containers,
         \/ StartResolve(a, c)
         \/ StopBegin(a, c) \/ KillBegin(a, c) \/ RestartStopped(a, c)
         \/ \E force \in BOOLEAN : RemoveBegin(a, c, force)
         \/ PruneBegin(a, c)
  PROVE  \A d \in Containers : CountStep(d)
  <1> USE DEF BaseInv
  <1> TAKE d \in Containers
  <1>1. NoOneBegins
        BY OwnCallBegin
  <1>2. UNCHANGED <<registry, life>>
        BY DEF StartResolve, StopBegin, KillBegin, RestartStopped, RemoveBegin,
           PruneBegin, memory, history
  <1>3. call[a].at # "restart" /\ \A b \in Calls : b # a => call'[b] = call[b]
        BY DEF StartResolve, Starts, Arrives, StopBegin, KillBegin, RestartStopped,
           RemoveBegin, PruneBegin, Return, Goto, Idle, TypeInv, TypeOK
  <1>4. Restarting(d) => Restarting(d)'
        BY <1>3 DEF Restarting
  <1>5. pending'[d] \in {"none", "running"} => pending[d] \in {"none", "running"}
    <2>1. CASE StartResolve(a, c)
      <3>1. UNCHANGED pending \/ pending' = [pending EXCEPT ![c] = Resolve(c)]
            BY <2>1 DEF StartResolve
      <3>2. pending[c] # "none" => Resolve(c) = pending[c]
            BY DEF Resolve
      <3>3. CASE pending' = [pending EXCEPT ![c] = Resolve(c)]
        <4>1. /\ d # c => pending'[d] = pending[d]
              /\ pending'[c] = Resolve(c)
              BY <3>3 DEF TypeInv, TypeOK
        <4> QED BY <3>2, <4>1
      <3> QED BY <3>1, <3>3
    <2>2. CASE RestartStopped(a, c)
          BY <2>2 DEF RestartStopped, TypeInv, TypeOK
    <2> QED BY <2>1, <2>2 DEF StopBegin, KillBegin, RemoveBegin, PruneBegin, memory
  <1> QED BY <1>1, <1>2, <1>4, <1>5, CountQuiet DEF CountStep

LEMMA CountCallEnd ==
  ASSUME BaseInv, [Next]_vars, Steady, NEW a \in Calls,
         \/ StopEnd(a) \/ KillEnd(a) \/ RestartEnd(a)
         \/ StartRunTask(a) /\ ~CallRuns(a)
  PROVE  \A d \in Containers : CountStep(d)
  <1> USE DEF BaseInv
  <1> TAKE d \in Containers
  <1>1. PICK c \in Containers : c = call[a].c
        BY DEF StopEnd, KillEnd, RestartEnd, StartRunTask, TypeInv, CallsPlaced, Placed
  <1>2. UNCHANGED <<owner, registry, life, launch>>
        BY <1>1 DEF StopEnd, KillEnd, RestartEnd, StartRunTask, CallRuns, cloud, history
  <1>3. Return(a) \/ Goto(a, "start", c, 0, 0)
        BY <1>1 DEF StopEnd, KillEnd, RestartEnd, StartRunTask, CallRuns, history
  <1>4. NoOneBegins
    <2>1. \A e \in Containers : ecs'[e].task \in {0, ecs[e].task}
          BY <1>1 DEF StopEnd, KillEnd, RestartEnd, StartRunTask, CallRuns, history,
             TypeInv, TypeOK, Entry
    <2> QED BY <1>2, <1>3, <2>1, QuietReturn, QuietGoto DEF NoOneBegins
  <1>5. pending'[d] \in {"none", "running"} =>
           pending[d] \in {"none", "running"} /\ (Restarting(d) => Restarting(d)')
    <2>1. \A b \in Calls : b # a => call'[b] = call[b]
          BY <1>3 DEF Return, Goto, TypeInv, TypeOK
    <2>2. CASE RestartEnd(a)
      <3>1. pending'[c] = "created" /\ (d # c => pending'[d] = pending[d])
            BY <1>1, <2>2 DEF RestartEnd, TypeInv, TypeOK
      <3>2. d # c => (Restarting(d) => Restarting(d)')
            BY <1>1, <2>1 DEF Restarting
      <3> QED BY <3>1, <3>2
    <2>3. CASE ~RestartEnd(a)
      <3>1. call[a].at # "restart" /\ UNCHANGED pending
            BY <2>3 DEF StopEnd, KillEnd, StartRunTask
      <3> QED BY <2>1, <3>1 DEF Restarting
    <2> QED BY <2>2, <2>3
  <1> QED BY <1>2, <1>4, <1>5, CountQuiet DEF CountStep

\* The task that a goroutine waits for ceases to be expected with it.
LEMMA CountCallAwaited ==
  ASSUME BaseInv, [Next]_vars, Steady, NEW a \in Calls, waitForTaskRunning(a)
  PROVE  \A d \in Containers : CountStep(d)
  <1> USE DEF BaseInv
  <1>1. PICK c \in Containers : c = call[a].c
        BY DEF waitForTaskRunning, TypeInv, CallsPlaced, Placed
  <1>2. PICK t \in Tasks : t = call[a].t
        BY DEF waitForTaskRunning, TypeInv, CallsPlaced, Placed
  <1>3. /\ UNCHANGED <<owner, ecs, registry, life, launch>> /\ Return(a)
        /\ Awaited(c, t, call[a].ch) /\ Awaiting(call[a])
        BY <1>1, <1>2 DEF waitForTaskRunning, cloud, Awaiting
  <1>4. NoOneBegins
        BY <1>3, QuietReturn DEF NoOneBegins
  <1>5. t \in Expected(c)
        BY <1>1, <1>2, <1>3 DEF Expected
  <1>6. /\ \A b \in Calls : b # a => call'[b] = call[b]
        /\ call'[a] = Idle
        BY <1>3 DEF Return, TypeInv, TypeOK
  <1>7. Expected(c)' = Expected(c) \ {t}
    <2>1. ~Awaiting(call'[a])
          BY <1>6 DEF Awaiting, Idle
    <2>2. t \notin Expected(c)'
      <3>1. \A b \in Calls : ~(Awaiting(call'[b]) /\ call'[b].t = t)
            BY <1>2, <1>3, <1>6, <2>1 DEF OwnInv
      <3>2. \A l \in Launchers : ~(Awaiting(launch'[l]) /\ launch'[l].t = t)
            BY <1>2, <1>3 DEF OwnInv
      <3> QED BY <3>1, <3>2 DEF Expected
    <2>3. \A u \in Tasks : u \in Expected(c) /\ u # t => u \in Expected(c)'
          BY <1>2, <1>3, <1>6 DEF Expected
    <2>4. Expected(c) \subseteq Tasks /\ Expected(c)' \subseteq Tasks
          BY DEF Expected
    <2> QED BY <1>4, <2>2, <2>3, <2>4, FewerWait
  <1>8. Restarting(c) => Restarting(c)'
        BY <1>3, <1>6 DEF Restarting, Awaiting
  <1>9. \A d \in Containers : d # c => pending'[d] = pending[d]
        BY <1>3 DEF Awaited, TypeInv, TypeOK
  <1>10. ASSUME NEW d \in Containers, d # c PROVE CountStep(d)
    <2>1. Restarting(d) => Restarting(d)'
          BY <1>3, <1>6 DEF Restarting, Awaiting
    <2>2. life[d] = "made" => CountKept(d)
          BY <1>3, <1>4, <1>9, <1>10, <2>1, CountQuiet
    <2> QED BY <1>3, <2>2 DEF CountStep
  <1>11. CountStep(c)
    <2>1. Visible(c)' = Visible(c)
          BY <1>3 DEF Steady, Visible, Listed, TasksOf
    <2>2. Used(c)
          BY <1>1 DEF Used
    <2>3. life[c] = "made" => CountClears(c)
          BY <1>5, <1>7, <2>1, <2>2 DEF CountClears, UseInv
    <2> QED BY <1>3, <2>3 DEF CountStep
  <1> QED BY <1>10, <1>11

LEMMA CountLaunchAwaited ==
  ASSUME BaseInv, [Next]_vars, Steady, NEW l \in Launchers, LaunchAwait(l)
  PROVE  \A d \in Containers : CountStep(d)
  <1> USE DEF BaseInv
  <1>1. PICK c \in Containers : c = launch[l].c
        BY DEF LaunchAwait, TypeInv, LaunchersPlaced, Placed
  <1>2. PICK t \in Tasks : t = launch[l].t
        BY DEF LaunchAwait, TypeInv, LaunchersPlaced, Placed
  <1>3. /\ UNCHANGED <<owner, ecs, registry, life, call>>
        /\ launch' = [launch EXCEPT ![l] = Idle]
        /\ Awaited(c, t, launch[l].ch) /\ Awaiting(launch[l])
        BY <1>1, <1>2 DEF LaunchAwait, cloud, Awaiting
  <1>4. /\ \A k \in Launchers : k # l => launch'[k] = launch[k]
        /\ launch'[l] = Idle
        BY <1>3 DEF TypeInv, TypeOK
  <1>5. ~Awaiting(launch'[l])
        BY <1>4 DEF Awaiting, Idle
  <1>6. NoOneBegins
        BY <1>3, <1>4, <1>5 DEF NoOneBegins
  <1>7. t \in Expected(c)
        BY <1>1, <1>2, <1>3 DEF Expected
  <1>8. Expected(c)' = Expected(c) \ {t}
    <2>1. t \notin Expected(c)'
      <3>1. \A k \in Launchers : ~(Awaiting(launch'[k]) /\ launch'[k].t = t)
            BY <1>2, <1>3, <1>4, <1>5 DEF OwnInv
      <3>2. \A b \in Calls : ~(Awaiting(call'[b]) /\ call'[b].t = t)
            BY <1>2, <1>3 DEF OwnInv
      <3> QED BY <3>1, <3>2 DEF Expected
    <2>2. \A u \in Tasks : u \in Expected(c) /\ u # t => u \in Expected(c)'
          BY <1>2, <1>3, <1>4 DEF Expected
    <2>3. Expected(c) \subseteq Tasks /\ Expected(c)' \subseteq Tasks
          BY DEF Expected
    <2> QED BY <1>6, <2>1, <2>2, <2>3, FewerWait
  <1>9. \A d \in Containers : d # c => pending'[d] = pending[d]
        BY <1>3 DEF Awaited, TypeInv, TypeOK
  <1>10. ASSUME NEW d \in Containers, d # c PROVE CountStep(d)
    <2>1. Restarting(d) => Restarting(d)'
          BY <1>3 DEF Restarting
    <2>2. life[d] = "made" => CountKept(d)
          BY <1>3, <1>6, <1>9, <1>10, <2>1, CountQuiet
    <2> QED BY <1>3, <2>2 DEF CountStep
  <1>11. CountStep(c)
    <2>1. Visible(c)' = Visible(c)
          BY <1>3 DEF Steady, Visible, Listed, TasksOf
    <2>2. Used(c)
          BY <1>1 DEF Used
    <2>3. life[c] = "made" => CountClears(c)
          BY <1>7, <1>8, <2>1, <2>2 DEF CountClears, UseInv
    <2> QED BY <1>3, <2>3 DEF CountStep
  <1> QED BY <1>10, <1>11

\* A goroutine runs a task for c, and waits for it.
LEMMA CountTaskRuns ==
  ASSUME BaseInv, [Next]_vars, Steady, NEW c \in Containers, Used(c),
         runECSTask(c), UNCHANGED <<pending, life>>,
         \A d \in Containers : Restarting(d) => Restarting(d)',
         \A d \in Containers : d # c => Expected(d)' \subseteq Expected(d),
         NewTask \notin Expected(c), Expected(c)' = Expected(c) \cup {NewTask}
  PROVE  \A d \in Containers : CountStep(d)
  <1> USE DEF BaseInv
  <1>1. /\ NewTask \in Tasks /\ owner[NewTask] = None
        /\ owner'[NewTask] = c /\ registry'[NewTask] = "active"
        /\ \A t \in Tasks : t # NewTask =>
               owner'[t] = owner[t] /\ registry'[t] = registry[t]
        BY NewTaskIsNew
  <1>2. None \notin Containers
        BY EcsAssumption
  <1>3. ASSUME NEW d \in Containers PROVE Bare(d)' => Bare(d)
        BY DEF Bare
  <1>4. ASSUME NEW d \in Containers, d # c PROVE CountStep(d)
    <2>1. Visible(d)' = Visible(d)
          BY <1>1, <1>2, <1>4 DEF Steady, Visible, Listed, TasksOf
    <2>2. life[d] = "made" => CountKept(d)
          BY <1>3, <1>4, <2>1, WasPresent DEF CountKept, Steady
    <2> QED BY <2>2 DEF CountStep
  <1>5. CountStep(c)
    <2>1. NewTask \notin Visible(c)
          BY <1>1, <1>2 DEF Steady, Visible, Listed, TasksOf
    <2>2. status'[NewTask] # "GONE"
          BY <1>1 DEF runECSTask, TypeInv, TypeOK
    <2>3. Visible(c)' = Visible(c) \cup {NewTask}
          BY <1>1, <2>2 DEF Steady, Visible, Listed, TasksOf
    <2>4. life[c] = "made" => CountRuns(c)
          BY <1>1, <1>3, <2>1, <2>3 DEF CountRuns, UseInv
    <2> QED BY <2>4 DEF CountStep
  <1> QED BY <1>4, <1>5

\* Nobody waits for a task that belongs to nobody.
LEMMA NewIsNotExpected ==
  ASSUME BaseInv, NEW c \in Containers, NEW n \in Tasks, owner[n] = None
  PROVE  n \notin Expected(c)
  BY EcsAssumption DEF BaseInv, OwnInv, Expected, Awaiting

LEMMA CountCallRuns ==
  ASSUME BaseInv, [Next]_vars, Steady, NEW a \in Calls, CallRuns(a)
  PROVE  \A d \in Containers : CountStep(d)
  <1> USE DEF BaseInv
  <1>1. PICK c \in Containers : c = call[a].c
        BY DEF CallRuns
  <1>2. /\ runECSTask(c) /\ UNCHANGED <<pending, life, launch>> /\ call[a].at = "run"
        BY <1>1 DEF CallRuns
  <1>3. /\ \A b \in Calls : b # a => call'[b] = call[b]
        /\ call'[a].at = "await" /\ call'[a].c = c /\ call'[a].t = NewTask
        BY <1>1 DEF CallRuns, Goto, TypeInv, TypeOK
  <1>4. Used(c)
        BY <1>1 DEF Used
  <1>5. \A d \in Containers : Restarting(d) => Restarting(d)'
        BY <1>2, <1>3 DEF Restarting
  <1>6. NewTask \in Tasks /\ owner[NewTask] = None
        BY <1>2, NewTaskIsNew
  <1>7. PICK n \in Tasks : n = NewTask
        BY <1>6
  <1>8. \A d \in Containers : d # c => Expected(d)' \subseteq Expected(d)
        BY <1>2, <1>3 DEF Expected
  <1>9. n \notin Expected(c)
        BY <1>6, <1>7, NewIsNotExpected
  <1>10. Expected(c)' = Expected(c) \cup {n}
    <2>1. \A t \in Tasks : t \in Expected(c)' <=> t \in Expected(c) \/ t = n
      <3> TAKE t \in Tasks
      <3>1. t \in Expected(c)' => t \in Expected(c) \/ t = n
            BY <1>2, <1>3, <1>7 DEF Expected
      <3>2. t \in Expected(c) => t \in Expected(c)'
            BY <1>2, <1>3 DEF Expected, Awaiting
      <3>3. n \in Expected(c)'
            BY <1>3, <1>7 DEF Expected, Awaiting
      <3> QED BY <3>1, <3>2, <3>3
    <2>2. Expected(c) \subseteq Tasks /\ Expected(c)' \subseteq Tasks
          BY DEF Expected
    <2> QED BY <2>1, <2>2
  <1> QED BY <1>2, <1>4, <1>5, <1>7, <1>8, <1>9, <1>10, CountTaskRuns

LEMMA CountLaunchRuns ==
  ASSUME BaseInv, [Next]_vars, Steady, NEW l \in Launchers, LaunchRuns(l)
  PROVE  \A d \in Containers : CountStep(d)
  <1> USE DEF BaseInv
  <1>1. PICK c \in Containers : c = launch[l].c
        BY DEF LaunchRuns
  <1>2. /\ runECSTask(c) /\ UNCHANGED <<pending, life, call>> /\ launch[l].at = "stdin"
        BY <1>1 DEF LaunchRuns
  <1>3. /\ \A k \in Launchers : k # l => launch'[k] = launch[k]
        /\ launch'[l].at = "await" /\ launch'[l].c = c /\ launch'[l].t = NewTask
        BY <1>1 DEF LaunchRuns, TypeInv, TypeOK, Frame
  <1>4. Used(c)
        BY <1>1 DEF Used
  <1>5. \A d \in Containers : Restarting(d) => Restarting(d)'
        BY <1>2 DEF Restarting
  <1>6. NewTask \in Tasks /\ owner[NewTask] = None
        BY <1>2, NewTaskIsNew
  <1>7. PICK n \in Tasks : n = NewTask
        BY <1>6
  <1>8. \A d \in Containers : d # c => Expected(d)' \subseteq Expected(d)
        BY <1>2, <1>3 DEF Expected
  <1>9. n \notin Expected(c)
        BY <1>6, <1>7, NewIsNotExpected
  <1>10. Expected(c)' = Expected(c) \cup {n}
    <2>1. \A t \in Tasks : t \in Expected(c)' <=> t \in Expected(c) \/ t = n
      <3> TAKE t \in Tasks
      <3>1. t \in Expected(c)' => t \in Expected(c) \/ t = n
            BY <1>2, <1>3, <1>7 DEF Expected
      <3>2. t \in Expected(c) => t \in Expected(c)'
            BY <1>2, <1>3 DEF Expected, Awaiting
      <3>3. n \in Expected(c)'
            BY <1>3, <1>7 DEF Expected, Awaiting
      <3> QED BY <3>1, <3>2, <3>3
    <2>2. Expected(c) \subseteq Tasks /\ Expected(c)' \subseteq Tasks
          BY DEF Expected
    <2> QED BY <2>1, <2>2
  <1> QED BY <1>2, <1>4, <1>5, <1>7, <1>8, <1>9, <1>10, CountTaskRuns

\* docker restart hides a task of a bare container.
LEMMA CountRestartBegin ==
  ASSUME BaseInv, [Next]_vars, Steady, NEW a \in Calls,
         NEW c \in Containers, RestartBegin(a, c)
  PROVE  \A d \in Containers : CountStep(d)
  <1> USE DEF BaseInv
  <1>1. PICK t \in ResolvedTasks(c) : registry' = MarkCleanedUp(t)
        BY DEF RestartBegin
  <1>2. \A u \in Tasks : owner[u] # c => registry'[u] = registry[u]
        BY <1>1, MarksOwn
  <1>3. /\ UNCHANGED <<owner, pending, life, launch>> /\ call[a] = Idle
        /\ Resolve(c) = "running" /\ Goto(a, "restart", c, 0, 0)
        BY DEF RestartBegin, Arrives
  <1>4. \A u \in Tasks : u # t => registry'[u] = registry[u]
        BY <1>1 DEF MarkCleanedUp, TypeInv, TypeOK
  <1>5. /\ \A b \in Calls : b # a => call'[b] = call[b]
        /\ call'[a].at = "restart" /\ call'[a].c = c
        BY <1>3 DEF Goto, TypeInv, TypeOK
  <1>6. \A d \in Containers : Expected(d)' = Expected(d)
    <2>1. ~Awaiting(call[a]) /\ ~Awaiting(call'[a])
          BY <1>3, <1>5 DEF Awaiting, Idle
    <2> QED BY <1>3, <1>5, <2>1 DEF Expected
  <1>7. ASSUME NEW d \in Containers, d # c PROVE CountStep(d)
    <2>1. Visible(d)' = Visible(d)
          BY <1>2, <1>3, <1>4, <1>7 DEF Steady, Visible, Listed, TasksOf
    <2>2. Restarting(d) => Restarting(d)'
          BY <1>3, <1>5 DEF Restarting, Idle
    <2>3. Bare(d)' => Bare(d)
          BY <1>3, <2>2 DEF Bare
    <2>4. life[d] = "made" => CountKept(d)
          BY <1>6, <2>1, <2>3, WasPresent DEF CountKept, Steady
    <2> QED BY <1>3, <2>4 DEF CountStep
  <1>8. CountStep(c)
    <2>1. Visible(c) \ {t} \subseteq Visible(c)'
          BY <1>3, <1>4 DEF Steady, Visible, Listed, TasksOf
    <2>2. Kept(c)' => ~Restarting(c)
      <3> SUFFICES ASSUME NEW b \in Calls, call[b].at = "restart", call[b].c = c
                   PROVE  "restarts" \in past'[c]
          BY DEF Restarting, Kept
      <3>1. past \in [Containers -> SUBSET Past]
            BY DEF TypeInv, TypeOK
      <3> QED BY <3>1 DEF RestartBegin, Arrives
    <2>3. Kept(c)' => Bare(c)
          BY <1>3, <2>2 DEF Bare, Resolve
    <2>4. ~Bare(c)'
          BY <1>5 DEF Bare, Restarting
    <2>5. Present(c)
          BY <1>3, ResolvedIsPresent
    <2>6. Kept(c)' => CountHides(c)
          BY <1>6, <2>1, <2>3, <2>4, <2>5 DEF CountHides
    <2> QED BY <1>3, <2>6 DEF CountStep
  <1> QED BY <1>7, <1>8

\* A removal or a prune concerns only its container.
LEMMA CountRemoved ==
  ASSUME BaseInv, [Next]_vars, Steady, NEW a \in Calls, RemoveEnd(a) \/ PruneEnd(a)
  PROVE  \A d \in Containers : CountStep(d)
  <1> USE DEF BaseInv
  <1> TAKE d \in Containers
  <1>1. PICK c \in Containers : c = call[a].c
        BY DEF RemoveEnd, PruneEnd, TypeInv, CallsPlaced, Placed
  <1>2. /\ UNCHANGED <<owner, launch>> /\ Return(a)
        /\ life'[c] # "made" /\ (d # c => life'[d] = life[d] /\ pending'[d] = pending[d])
        BY <1>1 DEF RemoveEnd, PruneEnd, Removed, cloud, TypeInv, TypeOK
  <1>3. CASE d = c
        BY <1>2, <1>3 DEF CountStep
  <1>4. CASE d # c
    <2>1. \A u \in Tasks : owner[u] = d => registry'[u] = registry[u]
      <3>1. CASE RemoveEnd(a)
        <4>1. PICK t \in ResolvedTasks(c), answered \in SUBSET DesiredStatus :
                 registry' = markTasksRemoved(c, answered, MarkCleanedUp(t))
              BY <1>1, <3>1 DEF RemoveEnd
        <4>2. \A u \in Tasks : owner[u] # c => MarkCleanedUp(t)[u] = registry[u]
              BY MarksOwn
        <4> QED BY <1>4, <4>1, <4>2 DEF markTasksRemoved, Listed, TasksOf
      <3>2. CASE PruneEnd(a)
        <4>1. ecs[c].task \in ResolvedTasks(c)
              BY DEF ResolvedTasks
        <4>2. registry' = MarkCleanedUp(ecs[c].task)
              BY <1>1, <3>2 DEF PruneEnd
        <4> QED BY <1>4, <4>1, <4>2, MarksOwn
      <3> QED BY <3>1, <3>2
    <2>2. \A b \in Calls : call'[b] # call[b] => call[b].c # d /\ call'[b].c # d
      <3>1. call[a] = Idle \/ call[a].c = c
            BY <1>1
      <3>2. Return(a) \/ Goto(a, "start", c, 0, 0) \/ UNCHANGED call
            BY <1>2
      <3> QED BY <1>4, <3>1, <3>2, CallApart
    <2>3. /\ \A t \in Tasks : owner'[t] = d <=> owner[t] = d
          /\ \A l \in Launchers :
                launch'[l] # launch[l] => launch[l].c # d /\ launch'[l].c # d
          /\ pending'[d] = pending[d] /\ life'[d] = life[d]
          BY <1>2, <1>4
    <2>4. life[d] = "made" => CountKept(d)
          BY <1>4, <2>1, <2>2, <2>3, WasPresent, CountOthers DEF Steady
    <2> QED BY <2>3, <2>4 DEF CountStep
  <1> QED BY <1>3, <1>4

LEMMA CountCreate ==
  ASSUME BaseInv, [Next]_vars, Steady, NEW c \in Containers, ContainerCreate(c)
  PROVE  \A d \in Containers : CountStep(d)
  <1> USE DEF BaseInv
  <1> TAKE d \in Containers
  <1>1. /\ UNCHANGED <<owner, registry, call, launch>> /\ life[c] = "new"
        /\ d # c => life'[d] = life[d] /\ pending'[d] = pending[d]
        /\ pending'[c] = "created"
        BY DEF ContainerCreate, cloud, goroutines, TypeInv, TypeOK
  <1>2. CASE d = c
    <2>1. ~Used(c)
          BY <1>1 DEF UseInv
    <2>2. Expected(c)' = {}
          BY <1>1, <2>1 DEF Expected, Used
    <2>3. ~Bare(c)'
          BY <1>1 DEF Bare
    <2> QED BY <1>2, <2>2, <2>3 DEF CountStep
  <1>3. CASE d # c
    <2>1. \A t \in Tasks : owner'[t] = d <=> owner[t] = d
          BY <1>1
    <2>2. life[d] = "made" => CountKept(d)
          BY <1>1, <1>3, <2>1, WasPresent, CountOthers DEF Steady
    <2> QED BY <1>1, <1>3, <2>2 DEF CountStep
  <1> QED BY <1>2, <1>3

LEMMA OnlyCountSteps ==
  ASSUME BaseInv, [Next]_vars, Steady
  PROVE  \A c \in Containers : CountStep(c)
  <1>1. ASSUME NEW a \in Calls, CallBegin(a) PROVE \A c \in Containers : CountStep(c)
        BY <1>1, CountCallBegin, CountRestartBegin DEF CallBegin
  <1>2. ASSUME NEW a \in Calls, CallStep(a) PROVE \A c \in Containers : CountStep(c)
        BY <1>2, CountCallBegin, CountCallRuns, CountCallAwaited, CountCallEnd,
           CountRemoved DEF CallStep
  <1>3. ASSUME UNCHANGED <<owner, ecs, registry, call, pending, life>>,
               \A l \in Launchers : Awaiting(launch'[l]) => launch'[l] = launch[l]
        PROVE  \A c \in Containers : CountStep(c)
    <2> TAKE c \in Containers
    <2>1. NoOneBegins
          BY <1>3 DEF NoOneBegins
    <2>2. Restarting(c) => Restarting(c)'
          BY <1>3 DEF Restarting
    <2>3. life[c] = "made" => CountKept(c)
          BY <1>3, <2>1, <2>2, CountQuiet
    <2> QED BY <1>3, <2>3 DEF CountStep
  <1>4. ASSUME NEW l \in Launchers, LaunchStep(l) PROVE \A c \in Containers : CountStep(c)
    <2>1. CASE LaunchRunTask(l) /\ ~LaunchRuns(l)
      <3>1. launch[l].c \in Containers
            BY <2>1 DEF LaunchRunTask, BaseInv, TypeInv, LaunchersPlaced, Placed
      <3>2. /\ UNCHANGED <<owner, ecs, registry, call, pending, life>>
            /\ launch' = [launch EXCEPT ![l] = Idle]
            BY <2>1, <3>1 DEF LaunchRunTask, LaunchRuns, cloud
      <3>3. \A k \in Launchers : Awaiting(launch'[k]) => launch'[k] = launch[k]
            BY <3>2 DEF Awaiting, Idle, BaseInv, TypeInv, TypeOK
      <3> QED BY <1>3, <3>2, <3>3
    <2> QED BY <1>4, <2>1, CountLaunchRuns, CountLaunchAwaited DEF LaunchStep
  <1>5. CASE Aside
        BY <1>3, <1>5, AsideKeeps
  <1> QED BY <1>1, <1>2, <1>4, <1>5, CountCreate DEF Next, Aside, Steady

\* What ECS drops stood for its container, or was hidden.
LEMMA CountExpires ==
  ASSUME BaseInv, [Next]_vars, ~Restart, NEW t \in Tasks, TaskExpires(t)
  PROVE  \A c \in Containers : CountStep(c)
  <1> TAKE c \in Containers
  <1>1. UNCHANGED <<owner, registry, pending, call, launch, life>>
        BY DEF TaskExpires, memory, goroutines
  <1>2. CASE t \in Visible(c)
    <2>1. "expired" \in past'[c]
          BY <1>2 DEF TaskExpires
    <2> QED BY <2>1 DEF CountStep, Kept
  <1>3. CASE t \notin Visible(c)
    <2>1. \A u \in Tasks : u # t => status'[u] = status[u]
          BY DEF TaskExpires, BaseInv, TypeInv, TypeOK
    <2>2. status[t] # "GONE" /\ status'[t] = "GONE"
          BY DEF TaskExpires, Ended, BaseInv, TypeInv, TypeOK
    <2>3. Visible(c)' = Visible(c)
          BY <1>1, <1>3, <2>1, <2>2 DEF Visible, Listed, TasksOf
    <2>4. Expected(c)' = Expected(c) /\ (Bare(c)' => Bare(c)) /\ (Present(c)' => Present(c))
          BY <1>1 DEF Expected, Bare, Restarting, Present
    <2>5. life[c] = "made" => CountKept(c)
          BY <2>3, <2>4 DEF CountKept
    <2> QED BY <1>1, <2>5 DEF CountStep
  <1> QED BY <1>2, <1>3

\* Every other step of the backend leaves to ECS what it lists.
LEMMA OthersAreSteady ==
  ASSUME BaseInv, [Next]_vars, ~Restart, \A t \in Tasks : ~TaskExpires(t)
  PROVE  Steady
  <1> USE DEF BaseInv
  <1> SUFFICES ASSUME NEW t \in Tasks, owner[t] \in Containers
               PROVE  status'[t] = "GONE" <=> status[t] = "GONE"
      BY DEF Steady
  <1>1. ASSUME NEW c \in Containers, runECSTask(c) PROVE status'[t] = status[t]
        BY <1>1, EcsAssumption, NewTaskIsNew
  <1>2. ASSUME NEW a \in Calls, CallBegin(a) PROVE UNCHANGED status
        BY <1>2 DEF CallBegin, StartResolve, StopBegin, KillBegin, RestartBegin,
           RestartStopped, RemoveBegin, PruneBegin, cloud
  <1>3. ASSUME NEW a \in Calls, CallStep(a) PROVE status'[t] = status[t]
    <2>1. CASE StartRunTask(a)
          BY <1>1, <2>1 DEF StartRunTask, TypeInv, CallsPlaced, Placed, cloud
    <2> QED BY <1>3, <2>1 DEF CallStep, StartResolve, waitForTaskRunning, StopEnd,
              KillEnd, RestartEnd, RemoveEnd, PruneEnd, Removed, cloud
  <1>4. ASSUME NEW l \in Launchers, LaunchStep(l) PROVE status'[t] = status[t]
    <2>1. CASE LaunchRunTask(l)
          BY <1>1, <2>1 DEF LaunchRunTask, TypeInv, LaunchersPlaced, Placed, cloud
    <2> QED BY <1>4, <2>1 DEF LaunchStep, LaunchAwait, cloud
  <1>5. ASSUME NEW u \in Tasks, CloudStep(u)
        PROVE  status'[t] = "GONE" <=> status[t] = "GONE"
        BY <1>5 DEF CloudStep, TaskRuns, TaskFails, TaskEnds, TaskStops, TaskStep,
           TypeInv, TypeOK
  <1>6. ASSUME \/ \E c \in Containers : ContainerCreate(c) \/ Attach(c)
               \/ \E p \in pollers : PollStep(p)
               \/ \E w \in Waiters : (\E c \in Containers : WaitBegin(w, c)) \/ WaitReturn(w)
               \/ UNCHANGED vars
        PROVE  UNCHANGED status
        BY <1>6 DEF ContainerCreate, Attach, PollStep, PollDescribe, applyTaskStatus,
           PollQuit, WaitBegin, WaitReturn, vars, cloud
  <1> QED BY <1>2, <1>3, <1>4, <1>5, <1>6 DEF Next

LEMMA CountInvStep ==
  BaseInv /\ CountInv /\ [Next]_vars => CountInv'
  <1> SUFFICES ASSUME BaseInv, CountInv, [Next]_vars, NEW c \in Containers,
                      life'[c] = "made", Present(c)', Kept(c)'
               PROVE  CountAt(c)'
      BY DEF CountInv
  <1>1. CASE ~Restart
    <2>1. CountStep(c)
          BY <1>1, OnlyCountSteps, OthersAreSteady, CountExpires
    <2>2. past[c] \subseteq past'[c]
          BY <1>1, OnlyTurnSteps DEF BaseInv, TurnStep
    <2>3. life[c] = "made" /\ Present(c) => CountAt(c)
          BY <2>2 DEF CountInv, Kept
    <2>4. TypeInv
          BY DEF BaseInv
    <2> QED BY <2>1, <2>3, <2>4, CountStepKeeps
  <1>2. CASE Restart
    <2>1. Expected(c)' = {}
          BY <1>2 DEF Restart, Expected, Awaiting, Idle
    <2>2. PICK W : W = Visible(c)'
          OBVIOUS
    <2>3. W \in SUBSET Tasks
          BY <2>2 DEF Visible, Listed, TasksOf
    <2>4. W # {}
      <3>1. pending'[c] = "none" /\ UNCHANGED <<owner, status>>
            BY <1>2 DEF Restart, cloud
      <3>2. TasksOf(c) # {}
            BY <3>1 DEF Present, TasksOf
      <3>3. "expired" \notin past'[c]
            BY DEF Kept
      <3>4. Listed(c) # {}
            BY <1>2, <3>2, <3>3 DEF Restart
      <3>5. PICK t \in Tasks : owner[t] = c /\ status[t] # "GONE"
            BY <3>4 DEF Listed, TasksOf
      <3>6. registry'[t] # "cleaned"
            BY <1>2 DEF Restart
      <3> QED BY <2>2, <3>1, <3>5, <3>6 DEF Visible, Listed, TasksOf
    <2>5. Cardinality(W) \in Nat /\ Cardinality(W) # 0 /\ Cardinality({}) = 0
          BY <2>3, <2>4, TasksAreFinite, FS_EmptySet
    <2> QED BY <2>1, <2>2, <2>5 DEF CountAt, Enough, More
  <1> QED BY <1>1, <1>2

\* A container that was started is found until it is removed or pruned, for any
\* number of overlapping calls, launchers, containers, tasks and restarts of the
\* backend.  Excused are what the code cannot see to: two docker restarts of it
\* that overlapped, and tasks that ECS dropped, both recorded in past.
THEOREM StartedStaysFound == Spec => []StartedIsFound
  <1>1. Init => CountInv
        BY DEF Init, CountInv
  <1>2. CountInv => StartedIsFound
    <2> SUFFICES ASSUME CountInv, NEW c \in Containers, life[c] = "made",
                        TasksOf(c) # {}, Resolve(c) = "none", Kept(c),
                        \A a \in Calls : call[a].c = c => call[a].at # "restart"
                 PROVE  FALSE
        BY DEF StartedIsFound, Kept
    <2>1. pending[c] = "none" /\ GetContainer(c) = "none"
          BY DEF Resolve
    <2>2. Visible(c) = {}
          BY <2>1, StatusType DEF GetContainer, DockerStatus
    <2>3. More(Visible(c), Expected(c))
          BY <2>1 DEF CountInv, CountAt, Bare, Restarting, Present, TasksOf
    <2>4. Expected(c) \in SUBSET Tasks
          BY DEF Expected
    <2>5. Cardinality(Expected(c)) \in Nat /\ Cardinality({}) = 0
          BY <2>4, TasksAreFinite, FS_EmptySet
    <2> QED BY <2>2, <2>3, <2>5 DEF More
  <1> QED BY <1>1, <1>2, BaseInvHolds, CountInvStep, PTL DEF Spec
=============================================================================
