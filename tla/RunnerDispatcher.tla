-------------------------- MODULE RunnerDispatcher --------------------------
(***************************************************************************)
(* The GitHub runner dispatcher for Google Cloud: a loop that polls GitHub *)
(* for queued jobs, starts a runner (a Cloud Run Job, here a task) for     *)
(* each, remembers for five minutes what it has started, and sweeps away   *)
(* tasks that have ended and the services that their runners left behind.  *)
(*                                                                         *)
(* The loop has no state outside memory: after a crash it learns from the  *)
(* labels of the tasks in the cloud.  A step is one call of GitHub or of   *)
(* the cloud, or the memory changed between two of them; jobs and runners  *)
(* go on in between.  There is one project and region.                     *)
(***************************************************************************)
EXTENDS Naturals, FiniteSets

CONSTANTS Jobs,        \* workflow jobs of GitHub
          Runs,        \* workflow runs
          RunOf,       \* RunOf[j]: the run of job j
          None,
          MaxTroubles  \* bound: calls that fail, end early or are rate limited,
                       \*   crashes, shutdowns, and jobs that are forgotten
                       \*   after they had a runner

\* Task <<j, n>> is the n-th one that is made for job j.  A job is started
\* again only after some trouble, so there are always enough.
Tasks == Jobs \X (1 .. MaxTroubles + 1)

ASSUME DispatcherAssumption ==
    /\ RunOf \in [Jobs -> Runs]
    /\ None \notin Jobs \cup Tasks
    /\ MaxTroubles \in Nat

VARIABLES
  \* GitHub
  known,     \* jobs with a label of the configuration
  job,       \* job[j]: the status of job j
  \* the cloud
  task,      \* task[t]: the state of task t and of its execution
  doing,     \* doing[t]: the job that the runner in task t has taken
  svc,       \* svc[t]: the service that the runner in task t made
  \* the dispatcher
  pc,        \* the next call of the loop
  stopping,  \* the sweep in progress is the one at shutdown
  Seen,      \* poller.Client.Seen
  runSeen,   \* poller.Client.runSeen
  limited,   \* now is before rateLimitedUntil
  todo,      \* PollOnce: runs whose jobs are yet to be listed
  found,     \* Step: jobs yet to be handled
  cur,       \* Spawn: the task being started, or None
  ended,     \* Cleanup: terminal tasks yet to be deleted
  live,      \* Cleanup: liveOwners
  orphans,   \* Cleanup: services yet to be deleted
  \* history and the counter of the bound
  cut,       \* the listing of tasks of this sweep ended early
  forgot,    \* jobs that the dispatcher may start again
  troubles

github == <<known, job>>
cloud == <<task, doing, svc>>
memory == <<Seen, runSeen>>
poll == <<todo, found, cur>>
sweep == <<ended, live, orphans, cut>>
vars == <<github, cloud, memory, poll, sweep, troubles, pc, stopping, limited, forgot>>

-----------------------------------------------------------------------------
Exists(t) == task[t] \in {"created", "running", "ended"}
Managed == {t \in Tasks : Exists(t)}
Queued == {j \in Jobs : job[j] = "queued"}

\* A step goes well, or is one of finitely many that do not.
Smooth == UNCHANGED troubles
Trouble == troubles < MaxTroubles /\ troubles' = troubles + 1

\* A listing that stops at the first error returns what it has.
Listing(S, L) == \/ Smooth /\ L = S
                 \/ Trouble /\ L \in SUBSET S /\ L # S

Init ==
    /\ known \in SUBSET Jobs
    /\ job = [j \in Jobs |-> "absent"]
    /\ task = [t \in Tasks |-> "none"]
    /\ doing = [t \in Tasks |-> None]
    /\ svc = [t \in Tasks |-> "none"]
    /\ pc = "down" /\ stopping = FALSE
    /\ Seen = {} /\ runSeen = {} /\ limited = FALSE
    /\ todo = {} /\ found = {} /\ cur = None
    /\ ended = {} /\ live = {} /\ orphans = {} /\ cut = FALSE
    /\ forgot = {}
    /\ troubles = 0

-----------------------------------------------------------------------------
\* GitHub and the runners.

JobQueued(j) ==
    /\ job[j] = "absent" /\ job' = [job EXCEPT ![j] = "queued"]
    /\ UNCHANGED <<known, cloud, memory, poll, sweep, troubles, pc, stopping, limited, forgot>>

JobCancelled(j) ==
    /\ job[j] = "queued" /\ job' = [job EXCEPT ![j] = "done"]
    /\ UNCHANGED <<known, cloud, memory, poll, sweep, troubles, pc, stopping, limited, forgot>>

\* GitHub gives a runner any queued job with its labels, not only the one it
\* was started for.
RunnerTakes(t, j) ==
    /\ task[t] = "running" /\ doing[t] = None
    /\ job[j] = "queued" /\ j \in known
    /\ job' = [job EXCEPT ![j] = "in_progress"]
    /\ doing' = [doing EXCEPT ![t] = j]
    /\ UNCHANGED <<known, task, svc, memory, poll, sweep, troubles, pc,
                   stopping, limited, forgot>>

RunnerMakesService(t) ==
    /\ doing[t] # None /\ svc[t] = "none"
    /\ svc' = [svc EXCEPT ![t] = "up"]
    /\ UNCHANGED <<github, task, doing, memory, poll, sweep, troubles, pc,
                   stopping, limited, forgot>>

\* The runner ends, with its job or without one, and may leave its service.
RunnerEnds(t) ==
    /\ task[t] = "running"
    /\ task' = [task EXCEPT ![t] = "ended"]
    /\ job' = [j \in Jobs |-> IF doing[t] = j THEN "done" ELSE job[j]]
    /\ doing' = [doing EXCEPT ![t] = None]
    /\ \/ UNCHANGED svc
       \/ svc[t] = "up" /\ svc' = [svc EXCEPT ![t] = "gone"]
    /\ UNCHANGED <<known, memory, poll, sweep, troubles, pc, stopping,
                   limited, forgot>>

-----------------------------------------------------------------------------
\* The start of the dispatcher, and its end.

\* Mutant: nothing is recovered.
RecoverState_Nothing(L) == Seen' = {}

\* Every task that is listed counts, also one that has ended.
RecoverState(L) == Seen' = {t[1] : t \in L}

\* main up to the loop: scopes.Verify is retried until it succeeds.
Boot ==
    /\ pc = "down" /\ pc' = "top"
    /\ \E L \in SUBSET Managed :
          /\ Listing(Managed, L)
          /\ RecoverState(L)
          /\ forgot' = forgot \cup {t[1] : t \in Managed \ L}
    /\ runSeen' = {}
    /\ UNCHANGED <<github, cloud, poll, sweep, stopping, limited>>

\* All that was in memory is lost.
Crash ==
    /\ pc # "down" /\ Trouble
    /\ pc' = "down" /\ stopping' = FALSE /\ limited' = FALSE
    /\ Seen' = {} /\ runSeen' = {}
    /\ todo' = {} /\ found' = {} /\ cur' = None
    /\ ended' = {} /\ live' = {} /\ orphans' = {} /\ cut' = FALSE
    /\ UNCHANGED <<github, cloud, forgot>>

-----------------------------------------------------------------------------
\* PollOnce.

\* The loop skips Step within the window of a rate limit.
SkipStep ==
    /\ pc = "top" /\ limited /\ pc' = "select"
    /\ UNCHANGED <<github, cloud, memory, poll, sweep, troubles, stopping, limited, forgot>>

LimitOver ==
    /\ limited /\ limited' = FALSE
    /\ UNCHANGED <<github, cloud, memory, poll, sweep, troubles, pc, stopping, forgot>>

ListQueuedRuns ==
    /\ pc = "top" /\ ~limited
    /\ pc' = "poll" /\ todo' = {RunOf[j] : j \in Queued}
    /\ Smooth
    /\ UNCHANGED <<github, cloud, memory, found, cur, sweep, stopping,
                   limited, forgot>>

\* A call of the poll fails: Step returns, with what was found so far thrown
\* away, and perhaps a rate limit.
PollFails ==
    /\ (pc = "top" /\ ~limited) \/ (pc = "poll" /\ todo # {})
    /\ Trouble
    /\ pc' = "select" /\ todo' = {} /\ found' = {}
    /\ limited' \in BOOLEAN
    /\ UNCHANGED <<github, cloud, memory, cur, sweep, stopping, forgot>>

SkipRun(r) ==
    /\ pc = "poll" /\ r \in todo /\ r \in runSeen
    /\ todo' = todo \ {r}
    /\ UNCHANGED <<github, cloud, memory, found, cur, sweep, troubles, pc, stopping,
                   limited, forgot>>

NewJobs(r) == {j \in Queued : RunOf[j] = r} \ Seen

ListRunJobs(r) ==
    /\ pc = "poll" /\ r \in todo /\ r \notin runSeen
    /\ todo' = todo \ {r}
    /\ found' = found \cup NewJobs(r)
    /\ runSeen' = IF \E j \in Queued : RunOf[j] = r THEN runSeen ELSE runSeen \cup {r}
    /\ Smooth
    /\ UNCHANGED <<github, cloud, Seen, cur, sweep, pc, stopping,
                   limited, forgot>>

PollDone ==
    /\ pc = "poll" /\ todo = {} /\ pc' = "spawn"
    /\ UNCHANGED <<github, cloud, memory, poll, sweep, troubles, stopping, limited, forgot>>

\* Entries older than the TTL are purged by the next lookup: an entry may be
\* gone at any time, in whatever order.
Expire(j) ==
    /\ j \in Seen /\ Seen' = Seen \ {j}
    /\ IF \E t \in Tasks : t[1] = j /\ task[t] \notin {"none", "created"}
       THEN Trouble ELSE Smooth
    /\ forgot' = forgot \cup {j}
    /\ UNCHANGED <<github, cloud, runSeen, poll, sweep, pc, stopping, limited>>

\* Mutant: runs are never purged.
ExpireRun_Never(r) == FALSE /\ UNCHANGED vars

ExpireRun(r) ==
    /\ r \in runSeen /\ runSeen' = runSeen \ {r}
    /\ UNCHANGED <<github, cloud, Seen, poll, sweep, troubles, pc, stopping, limited, forgot>>

-----------------------------------------------------------------------------
\* Step: one runner for each job that was found.

\* pickKnownLabel finds nothing: the job is marked so that it is not skipped
\* again with every poll.
SkipUnknown(j) ==
    /\ pc = "spawn" /\ j \in found /\ j \notin known
    /\ found' = found \ {j}
    /\ Seen' = Seen \cup {j}
    /\ UNCHANGED <<github, cloud, runSeen, todo, cur, sweep, troubles, pc, stopping,
                   limited, forgot>>

\* The job is skipped, not marked: no token, or no task.
SkipFailed(j) ==
    /\ pc = "spawn" /\ j \in found \cap known
    /\ Trouble
    /\ found' = found \ {j}
    /\ UNCHANGED <<github, cloud, memory, todo, cur, sweep, pc, stopping,
                   limited, forgot>>

\* CreateJob; its wait may fail although the task is there.
CreateJob(j) ==
    \E n \in 1 .. MaxTroubles + 1 :
        /\ pc = "spawn" /\ j \in found \cap known
        /\ \A i \in 1 .. MaxTroubles + 1 : i < n <=> task[<<j, i>>] # "none"
        /\ task' = [task EXCEPT ![<<j, n>>] = "created"]
        /\ found' = found \ {j}
        /\ \/ Smooth /\ cur' = <<j, n>> /\ pc' = "run" /\ UNCHANGED forgot
           \/ Trouble /\ forgot' = forgot \cup {j} /\ UNCHANGED <<cur, pc>>
        /\ UNCHANGED <<github, doing, svc, memory, todo, sweep, stopping, limited>>

\* Mutant: the next job finds the task of the last one.
RunJob_KeepsTask ==
    /\ pc = "run"
    /\ \/ Smooth /\ task' = [task EXCEPT ![cur] = "running"] /\ pc' = "mark"
          /\ UNCHANGED <<cur, forgot>>
       \/ Trouble /\ pc' = "spawn" /\ UNCHANGED cur /\ forgot' = forgot \cup {cur[1]}
          /\ task' \in {task, [task EXCEPT ![cur] = "running"]}
    /\ UNCHANGED <<github, doing, svc, memory, todo, found, sweep,
                   stopping, limited>>

\* RunJob starts the execution, or fails and leaves the task as it is; a
\* request whose answer is lost has started it all the same.
RunJob ==
    /\ pc = "run"
    /\ \/ Smooth /\ task' = [task EXCEPT ![cur] = "running"] /\ pc' = "mark"
          /\ UNCHANGED <<cur, forgot>>
       \/ Trouble /\ pc' = "spawn" /\ cur' = None /\ forgot' = forgot \cup {cur[1]}
          /\ task' \in {task, [task EXCEPT ![cur] = "running"]}
    /\ UNCHANGED <<github, doing, svc, memory, todo, found, sweep,
                   stopping, limited>>

Mark ==
    /\ pc = "mark" /\ pc' = "spawn"
    /\ Seen' = Seen \cup {cur[1]}
    /\ cur' = None
    /\ UNCHANGED <<github, cloud, runSeen, todo, found, sweep, troubles, stopping, limited,
                   forgot>>

StepDone ==
    /\ pc = "spawn" /\ found = {} /\ pc' = "select"
    /\ UNCHANGED <<github, cloud, memory, poll, sweep, troubles, stopping, limited, forgot>>

-----------------------------------------------------------------------------
\* The select of the loop: the next poll, the cleanup ticker, or a signal.

Timer ==
    /\ pc = "select" /\ pc' = "top"
    /\ UNCHANGED <<github, cloud, memory, poll, sweep, troubles, stopping, limited, forgot>>

CleanupTick ==
    /\ pc = "select" /\ pc' = "list"
    /\ UNCHANGED <<github, cloud, memory, poll, sweep, troubles, stopping, limited, forgot>>

Signal ==
    /\ pc = "select" /\ pc' = "list"
    /\ Trouble
    /\ stopping' = TRUE
    /\ UNCHANGED <<github, cloud, memory, poll, sweep, limited, forgot>>

-----------------------------------------------------------------------------
\* Cleanup.

Terminal(t) == task[t] = "ended"

\* Mutant: owners under their full resource names match no label.
LiveOwners_FullName(L, U) == {}

LiveOwners(L, U) == {t \in L : t \in U \/ ~Terminal(t)}

\* ListManaged: the tasks L, with the states of their executions; those of U
\* could not be read, and count as not terminal.
ListManaged ==
    /\ pc = "list" /\ pc' = "reap"
    /\ \E L \in SUBSET Managed : \E U \in SUBSET L :
          /\ \/ Listing(Managed, L) /\ U = {}
             \/ Trouble /\ U # {}
          /\ live' = LiveOwners(L, U)
          /\ ended' = {t \in L \ U : Terminal(t)}
          /\ cut' = (L # Managed)
    /\ UNCHANGED <<github, cloud, memory, poll, orphans, stopping, limited,
                   forgot>>

\* Where the sweep of the region ends, also when a listing is refused.
AfterSweep == IF stopping THEN "down" ELSE "top"
Forget == /\ Seen' = IF stopping THEN {} ELSE Seen
          /\ runSeen' = IF stopping THEN {} ELSE runSeen
          /\ limited' = (limited /\ ~stopping)
          /\ stopping' = FALSE

SweepRefused ==
    /\ pc \in {"list", "services"}
    /\ Trouble
    /\ pc' = AfterSweep /\ Forget
    /\ live' = {} /\ cut' = FALSE
    /\ UNCHANGED <<github, cloud, poll, ended, orphans, forgot>>

Delete(t) ==
    /\ pc = "reap" /\ t \in ended
    /\ ended' = ended \ {t}
    /\ \/ Smooth /\ task' = [task EXCEPT ![t] = "deleted"]
          /\ doing' = [doing EXCEPT ![t] = None]
       \/ Trouble /\ UNCHANGED <<task, doing>>
    /\ UNCHANGED <<github, svc, memory, poll, live, orphans, cut,
                   pc, stopping, limited, forgot>>

ReapDone ==
    /\ pc = "reap" /\ ended = {} /\ pc' = "services"
    /\ UNCHANGED <<github, cloud, memory, poll, sweep, troubles, stopping, limited, forgot>>

\* Mutant: only services whose owner is still there.
Orphans_OwnerKnown(L) == {t \in L : t \notin live /\ Exists(t)}

Orphans(L) == {t \in L : t \notin live}

ListManagedServices ==
    /\ pc = "services" /\ pc' = "orphans"
    /\ \E L \in SUBSET {t \in Tasks : svc[t] = "up"} :
          /\ Listing({t \in Tasks : svc[t] = "up"}, L)
          /\ orphans' = Orphans(L)
    /\ UNCHANGED <<github, cloud, memory, poll, ended, live, cut, stopping,
                   limited, forgot>>

DeleteService(t) ==
    /\ pc = "orphans" /\ t \in orphans
    /\ orphans' = orphans \ {t}
    /\ \/ Smooth /\ svc' = [svc EXCEPT ![t] = "gone"]
       \/ Trouble /\ UNCHANGED svc
    /\ UNCHANGED <<github, task, doing, memory, poll, ended, live, cut,
                   pc, stopping, limited, forgot>>

SweepDone ==
    /\ pc = "orphans" /\ orphans = {}
    /\ pc' = AfterSweep /\ Forget
    /\ live' = {} /\ cut' = FALSE
    /\ UNCHANGED <<github, cloud, poll, ended, orphans, troubles, forgot>>

-----------------------------------------------------------------------------
Loop ==
    \/ SkipStep \/ ListQueuedRuns \/ PollFails \/ PollDone
    \/ \E r \in Runs : SkipRun(r) \/ ListRunJobs(r)
    \/ \E j \in Jobs : SkipUnknown(j) \/ SkipFailed(j) \/ CreateJob(j)
    \/ RunJob \/ Mark \/ StepDone
    \/ Timer \/ CleanupTick \/ Signal
    \/ ListManaged \/ SweepRefused \/ ReapDone \/ ListManagedServices \/ SweepDone
    \/ \E t \in Tasks : Delete(t) \/ DeleteService(t)

Outside ==
    \/ \E j \in Jobs : JobQueued(j) \/ JobCancelled(j)
    \/ \E t \in Tasks :
          \/ RunnerMakesService(t) \/ RunnerEnds(t)
          \/ \E j \in Jobs : RunnerTakes(t, j)

Next ==
    \/ Loop \/ Outside \/ Boot \/ Crash \/ LimitOver
    \/ \E j \in Jobs : Expire(j)
    \/ \E r \in Runs : ExpireRun(r)

Spec == Init /\ [][Next]_vars

\* The loop goes on, a dispatcher that is down is started again, windows and
\* entries end with time, and a ticker that is due is not passed over for
\* ever.  Nothing is asked of GitHub, the runners or the cloud.
FairSpec ==
    /\ Spec
    /\ WF_vars(Loop) /\ WF_vars(Boot) /\ WF_vars(LimitOver) /\ SF_vars(CleanupTick)
    /\ \A j \in Jobs : WF_vars(Expire(j))
    /\ \A r \in Runs : WF_vars(ExpireRun(r))

-----------------------------------------------------------------------------
\* Every variable has its type, Spawn has a task exactly while it starts one,
\* and each phase of Cleanup has only its own lists.
TypeOK ==
    /\ known \subseteq Jobs
    /\ job \in [Jobs -> {"absent", "queued", "in_progress", "done"}]
    /\ task \in [Tasks -> {"none", "created", "running", "ended", "deleted"}]
    /\ doing \in [Tasks -> Jobs \cup {None}]
    /\ svc \in [Tasks -> {"none", "up", "gone"}]
    /\ pc \in {"down", "top", "poll", "spawn", "run", "mark", "select", "list", "reap",
               "services", "orphans"}
    /\ Seen \subseteq Jobs /\ runSeen \subseteq Runs
    /\ todo \subseteq Runs /\ found \subseteq Jobs
    /\ cur \in Tasks \cup {None} /\ (cur # None <=> pc \in {"run", "mark"})
    /\ ended \subseteq Tasks /\ live \subseteq Tasks /\ orphans \subseteq Tasks
    /\ (ended # {} => pc = "reap") /\ (orphans # {} => pc = "orphans")
    /\ stopping \in BOOLEAN /\ limited \in BOOLEAN /\ cut \in BOOLEAN
    /\ forgot \subseteq Jobs
    /\ troubles \in 0 .. MaxTroubles

\* At most one task of a job is there to run, across polls, crashes at any
\* point of Spawn and restarts, unless the dispatcher had reason to start the
\* job again: its entry expired, a call of Spawn failed, or the listing of
\* RecoverState ended early.
OneRunnerPerJob ==
    \A t, u \in Tasks :
        t[1] = u[1] /\ t[1] \notin forgot
        /\ {task[t], task[u]} \subseteq {"created", "running"} => t = u

\* Cleanup deletes no runner at work, and no service of one, although both
\* go on changing while it works through lists it took before; a listing of
\* the tasks that ended early is the one exception.
SweepSparesTheLiving ==
    [][\A t \in Tasks :
          task[t] \in {"created", "running"} =>
              /\ task'[t] # "deleted"
              /\ pc = "orphans" /\ svc[t] = "up" /\ svc'[t] = "gone" /\ task'[t] # "ended"
                    => cut]_vars

\* A queued job with a label of the configuration is given a runner, unless
\* it leaves the queue by itself, whatever polls fail and whenever the
\* dispatcher is stopped; also a job that joins a run which was remembered as
\* having none.
QueuedJobIsServed ==
    \A j \in Jobs :
        job[j] = "queued" /\ j \in known
            ~> \/ job[j] # "queued"
               \/ \E t \in Tasks : t[1] = j /\ task[t] \notin {"none", "created"}

\* What a runner leaves behind goes: its task and its service, also when the
\* sweep that deleted the task did not get to the service.
LeftoversAreSwept ==
    \A t \in Tasks :
        task[t] \in {"ended", "deleted"} ~> task[t] = "deleted" /\ svc[t] # "up"
=============================================================================
