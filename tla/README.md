# Verification of sockerless

TLA+ models of the concurrent core of sockerless, model-checked with TLC on
small instances; their safety properties are also proved with TLAPS for every
instance. Paths are relative to the root of the repository.

| module | models | checked by |
| --- | --- | --- |
| `WorkflowEngine` | `bleephub/workflows.go` and the handlers that drive it | TLC, TLAPS |
| `Broker` | `bleephub/broker.go` | TLC, TLAPS |
| `Mailbox` | what the broker promises: the abstract specification it implements | TLC, TLAPS |
| `ReverseAgent` | `backends/core/reverse_agent.go`, `agent/reverse.go` and the bootstrap's side | TLC, TLAPS |
| `EcsBackend` | the container lifecycle of `backends/ecs` over the shared parts of `backends/core` | TLC, TLAPS |
| `AdminProjects` | `cmd/sockerless-admin/process.go`, `project_manager.go` | TLC, TLAPS |
| `RunnerDispatcher` | `github-runner-dispatcher-gcp` with the poller of `github-runner-dispatcher-aws` | TLC, TLAPS |
| `MCWorkflowEngine`, `MCBroker`, `MCReverseAgent`, `MCEcsBackend`, `MCAdminProjects`, `MCRunnerDispatcher` | the instances: definitions, keys, symmetry | |
| `WorkflowEngineProofs`, `WorkflowDispatchProofs`, `WorkflowRunProofs`, `BrokerProofs`, `ReverseAgentProofs`, `EcsBackendProofs`, `AdminProjectsProofs`, `RunnerDispatcherProofs` | theorems and proofs | TLAPS |

To check a run: `tlc -config engine_matrix.cfg MCWorkflowEngine`; to check the
proofs: `tlapm WorkflowDispatchProofs.tla`. `PROJECT.json` lists runs,
mutants, findings, hazards, theorems and the source lines of every definition.

## 1. Inventory

sockerless answers the Docker API and runs the containers as tasks, functions
or services of a cloud. bleephub is a GitHub Actions server that gives jobs to
runners, which in turn use sockerless for their containers. `PROJECT.json`
lists every component with its files; the ones with state and a protocol are:

**bleephub workflow engine** (`workflows.go`, `jobs.go`, `run_service.go`,
`gh_actions_rest.go`). *State*: `store.Workflows` (runs with jobs, status,
result, concurrency group, max-parallel), `store.Jobs` (the requests given to
runners), under one mutex `store.mu`. *Operations*: submission (four callers),
the concurrency check, `dispatchReadyJobs`, completion reports from two
endpoints, fail-fast, cancellation, the timeout watcher, rerun, deletion.
*Interaction*: each HTTP request and each watcher is a goroutine; each takes
the mutex several times and acts in between on what it saw; dispatch calls the
broker. *Hard*: everything that happens between two critical sections, late
and repeated reports. *Correct when*: jobs start after their needs, once,
within max-parallel; ended jobs stay ended; runs end with the result of their
jobs; one run per concurrency group at a time.

**bleephub broker** (`broker.go`). *State*: sessions with a buffered channel
each, the round-robin index, the list of pending messages. *Operations*: send,
requeue, create and delete a session, drain, long poll. *Hard*: drains,
senders and polls overlap; a channel outlives its session. *Correct when*: a
message is in one place, reaches a runner if there is one, and runners share
the load.

**Reverse agent** (`backends/core/reverse_agent.go`, `agent/`). *State*: the
registry (sessions, waiters, expiry markers), per connection a map from
session id to channel, in the container a map from session id to process.
*Operations*: dial, register, drop, wait, exec, collect, clean up. *Hard*:
reconnects race the clean-up of the previous connection; bounded channels;
connections that break at any moment; session ids that are shared. *Correct
when*: no caller hangs, no caller is stranded, no process is orphaned, the
newest connection is the one in use.

**ECS backend** (`backends/ecs`, over `backends/core`). *State*: the entries of
created containers that have no task yet (`PendingCreates`), the cached task
of each container, the registry of cloud resources, the wait channel of each
container, the stdin pipes; in the cloud, tasks that carry the container id as
a tag. *Operations*: create, attach, start, stop, kill, restart, remove, prune
and wait. *Interaction*: a start leaves a poller of its task behind, an
attached start a launcher that runs the task when stdin ends; all of them
close the wait channel; a restart of the backend loses the memory and keeps
the tasks. *Hard*: calls overlap with pollers and launchers of earlier starts,
a cloud call fails between two updates, tasks exit before anyone looks.
*Correct when*: a started container is found until it is removed and not
afterwards, it has one live task, `docker wait` returns, and no channel is
closed twice (Go panics).

**Admin process and project managers** (`cmd/sockerless-admin`). *State*: the
table of processes with status, command, cancel function and done channel;
projects with an operation lock each and a file. *Operations*: create, start,
stop and delete of a project, start and stop of a process, shutdown and
reload. *Interaction*: a goroutine waits for each child and writes the entry
that Start and Stop write. *Hard*: the child ends while Stop waits for it, a
start fails half-way, a restart of the program. *Correct when*: every child is
tracked, a failed start leaves nothing, sims outlive the backends that use
them, every request returns.

**Runner dispatchers** (`github-runner-dispatcher-*`). *State*: two sets with
a time to live (jobs started, runs without queued jobs), the end of a rate
limit; in the cloud, labelled tasks and the services their runners make.
*Operations*: recovery, poll, spawn, sweep, shutdown. *Hard*: everything known
is lost in a crash; each call may fail alone; listings are old when used.
*Correct when*: a job that stays queued gets a runner and not two, and the
sweep deletes what is left behind and nothing that is in use.

**Other state of the core** (`event_bus.go`, `ipam.go`, `pod.go`): bounded
subscriber channels, IP leases, pod membership. **Webhooks, persistence,
matrix expansion, expressions** of bleephub. The rest (REST and GraphQL CRUD,
cloud API translations, simulators, CLI, UI, generated types) is I/O or
independent records, and is listed as such.

The hazards, each at its line and with the properties that would catch it, are
in `PROJECT.json` under "hazards".

## 2. The models

**Atomicity.** One step is one critical section of the mutex that guards the
state, or one channel or socket operation; what the Go code may interleave
between two sections, the model interleaves between two steps. Data is
abstract: a workflow definition is a record with needs, conditions, matrix
group and flags; a message is a model value; time only says that a timeout may
fire.

In the modules with a cloud (`EcsBackend`, `RunnerDispatcher`) a step is what
the code does between two calls of it, and the cloud moves on in between.

**WorkflowEngine.** `pc[t]` says where goroutine `t` is, `cont[t]` what it does
when its subroutine returns. `SubmitWorkflow` and its four callers,
`LookupActive`, `EnqueuePending` and `StoreRun` are the sections of
`submitWorkflow`; `ScanBegin`, `ScanJob`, `ScanEnd`, `DispatchJob` and
`DispatchLoop` are `dispatchReadyJobs`, the one section that takes several
steps, because Go visits the jobs in any order: `lock` is held meanwhile, and
every other action that needs the mutex waits for it. `FinishJob` and
`CompleteRequest` are the two ways to report a job, `OnJobCompleted`,
`CheckAllDone` and `StartPending` what follows; the result a handler passes on
may be that of another report, as it is read after the unlock
(`run_service.go:160`). `CancelWorkflow`, `CheckJobTimeouts` and `DeleteRun`
are the other ways to disturb a run. `MaxParallelChoices` is a choice because
Go's map order decides which matrix's max-parallel the run keeps.

**Broker.** `phase[m]` is the goroutine that sends `m`, `drain[s]` the drain
that the creation of `s` starts, `poll[p]` a long poll. `GiveTo` is
`sendMessageToAgent`: the sorted ids are the numbers of the sessions, which
are created in any order. `share` is a history variable for `FairShare`. The
engine's only use of the broker is that a dispatched job may reach a runner.
`Mailbox` says what that means without sessions, channels, lists and drains: a
message waits, is offered, and is taken at most once or lost; a direct message
may be dropped instead. `Place(m)` is the refinement mapping, and `IsMailbox`
says that the broker implements `Mailbox` under it: no drain, requeue,
deletion or late poll brings a message back or moves two at a time.

**ReverseAgent.** `hpc[k]` is the HTTP handler of connection `k`, `rd[k]` the
message its `readLoop` holds between reading it and handing it on, `route` is
`rc.sessions`, `procs` the bootstrap's `SessionRegistry`, `child[x]` the
process. A docker exec (`BridgeExec`, not in `Collectors`) ignores a failed
send; `CollectExec` (in `Collectors`) returns. `KeyOf` gives execs their
session id: docker exec has ids of its own, while top and archive derive
theirs from the container and share it. ExecStart's own look at the registry
is merged with the driver's `Resolve`: only the last one decides. Attach ends
in `ReadError`, as the bootstrap's router has no main process to attach to.
That a broken connection is seen as an error by reads and writes (`PeerLost`)
is the websocket library's promise, and is external.

**EcsBackend.** `call[a]` is an API call in flight, `launch[l]` a
`launchAfterStdin` goroutine, `pollers` the `pollTaskExit` goroutines, `wait[w]`
a client in `docker wait`. Operations that call ECS in the middle have two
actions (`StopBegin`, `StopEnd`), those that run a task three (`StartResolve`,
`StartRunTask`, `waitForTaskRunning`). `Visible`, `Chosen` and `GetContainer`
are the translation of tagged tasks to a container (`cloud_state.go`),
`ResolvedTasks` how a call finds the task it acts on. `Restart` loses the
memory and runs `RecoverOnStartup` with its scan. `told` is what `StopTask` has
told to stop and still runs: ECS lists it under the desired status STOPPED from
then on. `TaskExpires` is ECS dropping a stopped task after about an hour
(status `GONE`), after which nothing lists it. Calls of the cloud are refused
at any point; the two listings of `markTasksRemoved` and of `resolveTaskState`
fail one by one (`answered`, `Missed`). Only the listings inside `queryTasks`
are assumed to succeed (see the observations). API calls overlap freely, up to
the number in `Calls`. Three history variables say what a property must except
because the code does go wrong there: `erased` holds the tasks that the
answered listings of a removal gave, `loose` the tasks that no start saw to
RUNNING or its end or that a failed cloud call kept from being stopped,
`past[c]` whether calls on `c` or docker restarts of it overlapped and whether
ECS dropped a task that stood for it. Containers are outside any pod, and ids
are never reused.

**AdminProjects.** A *run* stands for what one `Start` of a process makes: the
command, its context, its done channel and its child. An *entry* `<<n, g>>` is
the g-th `ManagedProcess` under name `n`, since requests keep pointers to
entries the map has lost. `req[q]` is a request with its place in the nested
calls (`Start` of the project calls `Start` of the process, and `Stop` in the
rollback), `monitor[r]` the goroutine in `cmd.Wait`. `Order` is what
`orderInstancesForStart` returns: `Place(i)` counts the instances that come
before the i-th one declared, by group and then by position. All requests
overlap, starts and stops of single processes, Create and the shutdown
included; only the operation lock keeps Start, Stop and Delete of the project
apart, and the mutex that Create holds to its end keeps others out of
`m.projects`. Health checks and the bootstrap succeed or fail whatever the child
does: the code accepts any answer on the port. Histories: `reused` holds the
entries that were started while they were stopping, `lost` the runs whose entry
Create replaced and the children that outlived the program in the hands of
other requests, `req[q].mine` the runs a request answers for.

**RunnerDispatcher.** `pc` is the next call of the one loop; `todo`, `found`,
`cur`, `ended`, `live` and `orphans` are the locals of `PollOnce`, `Step`,
`Spawn` and `Cleanup`. `Listing` is an iterator that stops at the first error
and returns what it has, as `ListManaged` and `ListManagedServices` do. Time
is that an entry of a seen-set may be gone at any moment and a rate limit may
end. The jobs and runners move by themselves: GitHub gives a runner any queued
job with its labels, a runner ends whenever it likes and may leave its service.
Two assumptions about the outside: a run with a queued job is listed as queued,
and every service carries the label of its owner.

## 3. Runs

Passing runs (each property has a mutant of the code in `PROJECT.json` that
breaks it; the mutants stand next to the definitions they change):

| run | shows | bounds |
| --- | --- | --- |
| `engine_matrix` | `TypeOK`, `NeedsFinished`, `QueuedJobHasOwner`, `DispatchedAtMostOnce`, `MaxParallelBound`, `FinishedStaysFinished` | one run, three jobs, two goroutines, one report per job, one timeout, cancel and delete |
| `engine_groups` | `CompletedRunIsClosed`, `ResultMatchesJobs`, `WaitingRunIsUntouched` | two runs of one group, waiting or cancel-in-progress, two reports per job, one timeout and cancel |
| `engine_live` | `RunReachesEnd` | two runs of two jobs, two goroutines, no cancel or timeout |
| `broker_places` | `TypeOK`, `OnePlace`, `FairShare`, `IsMailbox` | two sessions, two workflow messages and one direct, channels of one, two polls, one disconnect |
| `reverse_registry` | `NoStrandedWaiter`, `ExpiryOutlivesSession`, `DeadSessionIsDropped` | two connections for one container, two waiters, one removal |
| `reverse_execs` | `TypeOK`, `RouteIsLive`, `OnlyDisplacedSurvive`, `ExecEndsWithConn` | two execs with one session id on one connection, channels of one, two outputs each |
| `ecs_client` | `TypeOK`, `NoDoubleClose`, `StartedIsFound`, `RemovedStaysHidden`, `OneLiveTask` | one interactive container, one client that makes any sequence of calls, one launcher, two tasks, two wait channels, one restart of the backend |
| `ecs_wait` | `NoDoubleClose`, `StartedIsFound`, `WaitEnds` | one container, two overlapping calls, one launcher, one `docker wait`, one task, one wait channel |
| `admin_projects` | `TypeOK`, `NoPanic`, `LiveIsTracked`, `SimOutlivesBackends`, `StartIsAllOrNothing`, `RequestsReturn` | a project of a backend and its sim, two overlapping requests, two runs, two registrations of a name |
| `runner_dispatch` | `TypeOK`, `OneRunnerPerJob`, `SweepSparesTheLiving`, `QueuedJobIsServed`, `LeftoversAreSwept` | two jobs of one run, one trouble: a call that fails, is refused or ends early, a crash, a shutdown or an entry that expires |

The bounds are the smallest at which the cases occur. Two goroutines are
enough to overlap a scan with a completion, a cancel with a report, a lookup
with the end of the active run. Three jobs make a matrix of two with a
dependent. A channel of one message is full after one send, and the code does
not distinguish a capacity of 1 from 10 or 64. Two connections are what a
reconnect is. Waiters and execs are in separate runs because they share
nothing but the registry's entry, which both runs change in every way. Every
action fires in a passing run. In the ECS backend one client is enough to have
a stale poller, a launcher and a call in flight at once, as each start leaves
one behind; two tasks and two channels are what a second start needs. Two calls
that overlap are in `ecs_wait`, around one task. In the admin two runs are a
start and its restart, also one that comes while the first is being stopped, or
the two instances of a project; two requests overlap in every pair that the
code allows. The safety properties of the admin also held with a process of the
configuration file (3.9 million states), with three runs of a project of one
instance (15 million) and with four runs of one process, where the double close
of a reused entry occurs. In the dispatcher two jobs of one run are what hides a job behind a remembered
run, and one trouble can hit any call; the safety properties also held with
two troubles (1.8 million states). Deadlock is checked for the dispatcher
only, whose loop never rests: the other systems may come to rest when the
bounded clients have no requests left. Two goroutines or workers are
interchangeable, hence the symmetry; runs with liveness have none.

Violations, each a disagreement of the code with its comments or tests:

| run | property | what happens |
| --- | --- | --- |
| `waiting_lost_wakeup` | `WaitingRunStarts` | the active run ends between the lookup and the enqueueing: the waiting run is never started (`workflows.go:168`) |
| `new_dial_dropped` | `NewDialWins` | the handler of the replaced connection drops its successor (`reverse_agent.go:205`) |

Other observations, met while modelling. The models contain what they
describe unless the item says otherwise.

*bleephub:*

- two submissions look a concurrency group up before either is stored: both
  run (`workflows.go:156`);
- a late report turns a cancelled run into a success or a failure
  (`workflows.go:404`);
- a message requeued after the drain waits, although a runner polls, until the
  next session is created (`workflows.go:357`);
- messages in the channel of a deleted session are not moved to another
  (`broker.go:86`);
- the cap on running workflows is checked by one caller of four and before the
  run counts (`jobs.go:151`; `bleephub/README.md:217` calls it a concurrency cap);
- FinishJob and the DELETE of the request both run the whole completion, so
  one ended run can start two waiting ones (`workflows.go:491`);
- cancellation does not hand the group on (`workflows.go:498`), and a timeout
  of the last job does not complete the run (`workflows.go:593`): a run behind
  either waits for good; so does a run whose jobs are all skipped at once;
- a workflow with two matrices keeps one max-parallel for both
  (`workflows.go:137`, against the comment at line 26);
- `handleSubmitJob` drops the message when no session has room and logs "job
  queued" (`jobs.go:91`);
- `handleCancelWorkflowRun` turns a completed run into a cancelled one
  (`gh_actions_rest.go:463`);

*Reverse agent:*

- an exec whose session id is taken by a second one is nobody's to kill when
  its connection breaks (`agent/session.go:45`);
- a full channel drops the exit message and the exec hangs until its
  connection breaks (`agent/reverse.go:88`);
- the bootstrap writes stdin to a child in the loop that reads the websocket,
  so a child that does not read stalls all its sessions (`agent/router.go:92`;
  stdin is not modelled);
- two `docker top` of one container share a session id: the output of one may
  go to the other, and the first to return unroutes the second
  (`agent/reverse.go:149`);
- a `lifetime_expired` read before and applied after `Drop` leaves a marker
  that a restart under the same id meets (`reverse_agent.go:60`);
- `Close` waits for the write mutex of a connection with the registry locked
  (`reverse_agent.go:80`).

*ECS backend* (`backends/ecs`):

- a second start replaces the wait channel of the first, or deletes it unclosed
  when RunTask fails (`backend_impl.go:390`, `:401`), and the poller of the first
  task, which holds the old channel, quits without a look at the new one: a
  client that waits on either can hang, against
  `backends/core/backend_impl.go:576` ("blocks until a container stops").
  `WaitEnds` fails with a second task and channel, and is checked for one;
- two overlapping starts of a container both run a task (`backend_impl.go:392`),
  and a start that times out leaves a PENDING task to which a retry adds a
  second (`containers.go:113`). `OneLiveTask` excepts both (`past`, `loose`);
- a listing that fails inside `resolveTaskState` gives stop, kill and restart an
  earlier task of the container, which is then cached: the running one goes on
  (`cloud_state.go:489`). Errors of StopTask are ignored by kill, restart and
  remove. `OneLiveTask` excepts the tasks this happened to (`loose`);
- overlapping restarts can lose a container while starts are in flight
  (`backend_impl.go:846`): two starts run tasks 1 and 2; two restarts hide one
  task each and put the container back into `PendingCreates`; the start that
  still waits then sees its task run and takes the entry out, and neither
  `PendingCreates` nor a visible task is left. TLC finds it with three calls.
  Between hiding the task and putting the container back a single restart has a
  window in which nothing finds it;
- ECS drops a stopped task after about an hour (`cloud_state.go:142`), and with
  it a stopped container that nobody removed; `docker start` then answers that
  there is no such container;
- a listing that fails in `markTasksRemoved` (`recovery.go:160`, `:168`) leaves
  its tasks unmarked: the removal succeeds and the container is still listed.
  `RemovedStaysHidden` speaks of the tasks under the listings that were answered;
- removals are only in memory: after a restart of the backend a removed
  container comes back for as long as ECS lists its tasks;
- a removal does not reach a task that is PENDING or a launcher that waits for
  stdin: the task runs after the container is gone (`backend_impl.go:757`);
- a start of a running container leaves a "running" entry in `PendingCreates`
  that hides the cloud's answer; a stale poller can close the channel of the
  next cycle, after which the start makes another one;
- a failed RunTask leaves the deregistered task definition cached; prune hides
  only the cached task; a listing that fails inside `queryTasks` hides the
  containers of its tasks from the call that made it (not modelled).

*Admin* (`cmd/sockerless-admin`; through `reused` and `lost` the properties
except the processes that the first, second and fourth item happened to):

- a Start of a process during its Stop is accepted: the goroutine of the old
  child then marks the new run as failed, takes its command out of the entry
  and cancels it (`process.go:89`, `:148`); with a third Start before that
  goroutine is done, two goroutines close one done channel, which ends the
  program (13 steps, four runs of one process);
- a process that is started directly while its project is being deleted, after
  it was stopped and before it is removed, stays in the table; a Create of the
  same name then replaces its entry and nobody can stop the child
  (`process.go:59`);
- a Create of the same name inside Delete loses its ports and its file
  (`project_manager.go:341`), and with the file the project at the next restart;
- a shutdown leaves behind the children that a request in flight starts after
  its sweep, and those that another request is stopping: `Stop` refuses a
  process that is stopping, and the sweep goes on (`main.go:132`). `main` itself
  returns as soon as `srv.Shutdown` begins. A crash of the admin leaves all;
- `Allocate` hands out a port that another project has reserved
  (`project.go:197`; ports are not modelled); Create computes the environment of
  a backend before the project is stored, so its sim's port is 0 until a reload.

*Dispatcher* (`github-runner-dispatcher-gcp`):

- `ListManaged` returns a shorter list and no error when its iterator fails
  (`spawner.go:281`), and the sweep then deletes the services of live runners,
  against "delete any pod-Service whose owner is gone or terminal"
  (`main.go:311`): `SweepSparesTheLiving` holds but for such a listing (`cut`);
- a task whose RunJob failed is never swept, as it has no execution, and its
  job is tried again with the next poll, against "leave the job orphaned rather
  than retry" (`spawner.go:218`); after a restart such a task keeps its job
  waiting for the five minutes of the seen-set;
- an entry that expires while the job is still queued gives the job a second
  runner (`poller.go:312`).

**Fairness.** Weak fairness on the steps of a goroutine that has started: the
Go scheduler runs what can run, and `sync.Mutex` starves nobody. Weak fairness
on a runner's report of a job it was given, in `engine_live` and
`waiting_lost_wakeup` only: the property is about runners that work. The
broker has no liveness property. In the ECS backend every wait of a call has a
deadline and polls are repeated, so goroutines that have begun go on; nothing
is asked of the cloud. In the admin requests that can go on do, the goroutine
of a child that is gone runs, and SIGKILL ends a child; no child ends or
answers by itself. In the dispatcher the loop goes on, a dispatcher that is
down is started again (it is a Cloud Run service), windows and entries end
with time, and the cleanup ticker is not passed over for ever (strong: Go's
select chooses at random and the channel of the ticker stays full). In the
reverse agent nothing obliges a child to exit, a peer to stay or to leave, or
a waiter to time out. In `engine_live` cancels, timeouts and deletions are
off, as the observations above say what they do to liveness.

## 4. Proofs

`WorkflowEngineProofs`: `TypeCorrect`, the type invariant, for any numbers of
runs, jobs, goroutines and definitions, from `ConstantsAssumption` (finite
jobs, well-typed definitions, bounds that are natural numbers).

`WorkflowDispatchProofs`: `NeedsFinishedFirst`, `QueuedJobIsOwned`,
`NoJobSentTwice` and `FinishedIsFinal`. None of the first three properties is
inductive. The strengthening `SchedInv` adds what the code relies on: a job the
scan has yet to visit is still pending, since nothing else runs under the lock
(`LeftIsPending`); only a goroutine inside `dispatchReadyJobs` has jobs to
send, and a scan that collected one knows that it must loop (`TodoIsBusy`);
what is collected has its needs behind it even after it was cancelled
(`TodoIsReady`); and a pending job was neither sent nor collected
(`PendingIsUnsent`), without which two scans could both collect it. The
argument splits the steps into quiet ones (jobs may end, senders stay, no
request appears: submissions, reports, cancels, timeouts, deletes), the steps
of a scan, and the send; `StepKinds` shows that there are no others. Needs
need not be acyclic for this: a job on a cycle never becomes ready.

`WorkflowRunProofs`: `CompletedIsClosed` (`CompletedRunIsClosed`),
`MaxParallelHolds` (`MaxParallelBound`), `WaitingIsUntouched`
(`WaitingRunIsUntouched`) and `ResultIsThatOfTheJobs` (`ResultMatchesJobs`), for
any numbers of runs, jobs, goroutines and reports. They need each other and are
one inductive invariant, `RunInv`. Its part `StageInv` says how far a run must
be for a goroutine to be where it is: runs are numbered as they are submitted,
one goroutine submits a run, and a goroutine dispatches, completes or cancels
only a run that was submitted. With it a run that is not yet running is
untouched. `MaxParallelBound` is
carried through a scan job by job, from the count that `ScanJob` compares with
the limit: the lock makes that count the true one. For the result, `Dirty`
names the goroutines that have changed a job and not yet recomputed the result;
whenever there is none, result and jobs agree.

`ReverseAgentProofs`: `TypeCorrect`, `WaitersAreSafe`, `RoutesAreLive`,
`ExpiryIsKept` and `SurvivorsAreDisplaced` (`OnlyDisplacedSurvive`), from `ReverseAgentAssumption` (distinct null values, bounds).
With the types, each of the first four is inductive as it stands; the type invariant says what
each handler, waiter and exec works on at each of its places, and that is what
the arguments need. `RoutesAreLive` holds for shared session ids too: a caller
can lose its entry to another, but no entry outlives its caller.
`SurvivorsAreDisplaced` needs `ChildInv`: an entry of the bootstrap's table is a
child that was started on that connection under that id; the id of a running
child always has an entry, which after the clean-up is another's.

`BrokerProofs`: `TypeCorrect`, `MessagesInOnePlace` (`OnePlace`),
`ImplementsMailbox` (`IsMailbox`) and `RoundRobinIsFair` (`FairShare`), for any numbers of messages, sessions and
polls and any capacity, from `BrokerAssumption`. `OnePlace` counts occurrences,
which is not inductive. `PlaceInv` says instead that no sequence (the pending
list, a batch, a remainder, a channel) holds a message twice (`Distinct`), that
no two of them hold the same one (`Apart`), and that a message is in one of
them, received or lost exactly when its sender has let go of it (`Settled`).
Each step moves one message from the head of one sequence to the end of
another, or appends a remainder to the pending list; the lemmas about heads,
tails and appends do the rest. The refinement follows from the same invariant:
a message that moves has left no copy behind, so its place changes along one
edge of `Mailbox` and no other place changes. `FairShare` bounds the difference
of two shares, which says nothing about who is next; `ShareInv` says that shares
do not fall with the distance from the index and grow by at most one in all:
the session that is tried next has the least.

`EcsBackendProofs`: `TypeCorrect`, `ChannelsCloseOnce` (`NoDoubleClose`),
`RemovalIsFinal` (`RemovedStaysHidden`), `OneTaskLives` (`OneLiveTask`) and
`StartedStaysFound` (`StartedIsFound`), for any number of containers,
overlapping calls, launchers, waiters, tasks and restarts, from
`EcsAssumption`. `TypeInv` adds to the types what each call holds at each of
its places. `ChannelInv` says that a channel in the map is open and was made,
and that no two containers have the same one: whoever closes takes it out of
the map first. `HiddenInv` says that tasks are numbered as they are run, and
that every task in `erased` is marked in the registry; a task that is run later
is not among them, and only a restart of the backend undoes a mark.

None has a hypothesis: what the properties except is in their statements, as the
history of the container concerned, and calls on it and on others overlap
freely. `OneTaskLives` and `StartedStaysFound` rest on `OwnInv` (cached and
awaited tasks carry the tag of their container, and no two goroutines await the
same one) and `UseInv` (goroutines work on a container only when it is there).
`LiveInv` says of a container whose calls did not overlap and that has no loose
tasks that a task that is meant to run is visible, alone, the cached one, and
PENDING only under a start; and that there is none when a call is about to run
one or to hide it. `CountInv` counts: a container has at least as many visible
tasks as goroutines wait for tasks of it, and one more when `PendingCreates`
does not stand for it. Each waiting goroutine may take the entry out once, and
each restart hides one task and puts the entry back, so that a mere "one is
visible" is not inductive; a task that expires while it stands for the
container breaks the count, which is what `past` records.

`AdminProjectsProofs`: `TypeCorrect`, `NoDoubleClose` (`NoPanic`),
`ChildrenAreTracked` (`LiveIsTracked`), `StartRollsBack`
(`StartIsAllOrNothing`) and `BackendsStopFirst` (`SimOutlivesBackends`), for any
project, whatever its backends name, and any numbers of overlapping requests,
runs and registrations, from `AdminAssumption` alone. They are one inductive
invariant, `MainInv`. `EntryOK` and `RunOK` tie an entry that was never reused to
its run, and the run to the goroutine or request that will close its channel
once (`Closes`), to the Stop that waits for it (`Attended`) and to the table
(`Reached`). `RequestOK` says how far a request is: the run it is making or
ending, and that a child it answers for that still lives is one of an instance
it has yet to stop (`Ahead`), or another request is about to stop it
(`Answers`). `Apart` says that two calls of `Start` make two runs. That `Order`
is a permutation in which no sim follows a backend is proved from the
definition of `Place`.

`RunnerDispatcherProofs`: `TypeCorrect`, `NoSecondRunner` (`OneRunnerPerJob`)
and `LivingAreSpared` (`SweepSparesTheLiving`), for any numbers of jobs, runs
and troubles, from `DispatcherAssumption`. `SpawnInv` says that a task that is
there to run is known to the dispatcher (its job is in the seen-set, it is the
task being started, or the dispatcher is down and will read it from the cloud),
and that its job is not about to be started again. `SweepInv` says that the
lists the clean-up works through stay right while the runners go on: what has
ended does not come back, and what was listed as live covers every task that is
there to run.

Every safety invariant and action property of a passing run is proved. Only
model-checked: the liveness properties (`RunReachesEnd`,
`DeadSessionIsDropped`, `ExecEndsWithConn`, `WaitEnds`, `RequestsReturn`,
`QueuedJobIsServed`, `LeftoversAreSwept`), as fairness and ENABLED are out of the
reach of the proof system. The properties of the two violation runs are false.

## 5. Plan

1. *Proofs*: what one concurrency group admits when submissions do not overlap.
2. *Composition*: the engine over `Mailbox`, which now stands for the broker;
   an abstract exec (started, ended, failed) that the reverse agent implements
   up to the observations above.
3. *More of the system*, in this order: `EventBus`, `IPAllocator`, pods and
   their deferred start, webhook deliveries with retries, what a restart of
   bleephub forgets, the Lambda and Cloud Run backends by their differences
   from the ECS backend.
4. *Pure algorithms* against a reference definition over bounded inputs:
   matrix expansion with include and exclude, `validateJobGraph` (Kahn) against
   acyclicity, and the status functions of the expression evaluator.

## 6. Not modelled, and why

- Outputs passed between jobs, logs, artifacts, timelines: data without
  control over the protocol.
- Stdin payloads, signals, resizes and heartbeats of the reverse agent; writes
  that block with a mutex held; the forward agent server and attach.
- `BaseServer`'s container lifecycle: every shipped backend overrides it, and
  `Store.StopContainer` with its restart hook has no caller outside the tests.
- The other cloud backends: each follows the shape of the ECS backend over
  another API; the ECS model is the one to compare them with.
- The AWS and Azure spawners of the dispatchers, offline runner registrations,
  several regions in one configuration.
- The pool of Cloud Run functions: only release and prewarm are left, nothing
  claims a warm function any more.
- Persistence of bleephub: planned (a restart).
- REST and GraphQL CRUD, authentication, image and registry code, cloud API
  translations, simulators, CLI and UI: I/O or independent records. They are
  most of the repository's lines, which is why the mapped share of it is small.
