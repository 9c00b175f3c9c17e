----------------------- MODULE RunnerDispatcherProofs -----------------------
(***************************************************************************)
(* Theorems about RunnerDispatcher, for any numbers of jobs, runs and      *)
(* troubles: failed and partial calls, crashes, shutdowns, expired entries *)
(* at any point and in any order.                                          *)
(***************************************************************************)
EXTENDS RunnerDispatcher, TLAPS

\* A task is a job with a number.
LEMMA TaskType == /\ \A j \in Jobs : \A n \in 1 .. MaxTroubles + 1 : <<j, n>> \in Tasks
                  /\ \A t \in Tasks : t[1] \in Jobs
  BY DEF Tasks

-----------------------------------------------------------------------------
LEMMA TypeInit == Init => TypeOK
  <1> SUFFICES ASSUME Init PROVE TypeOK
    OBVIOUS
  <1>1. stopping \in BOOLEAN /\ limited \in BOOLEAN /\ cut \in BOOLEAN
    BY DEF Init
  <1>2. troubles \in 0 .. MaxTroubles
    BY DispatcherAssumption DEF Init
  <1> QED BY <1>1, <1>2 DEF Init, TypeOK

LEMMA TypeStep == TypeOK /\ [Next]_vars => TypeOK'
  <1> SUFFICES ASSUME TypeOK, [Next]_vars PROVE TypeOK'
    OBVIOUS
  <1> USE DispatcherAssumption, TaskType
         DEF TypeOK, github, cloud, memory, poll, sweep, Smooth, Trouble
  <1>1. CASE SkipStep
    BY <1>1 DEF SkipStep
  <1>2. CASE ListQueuedRuns
    BY <1>2 DEF ListQueuedRuns, Queued
  <1>3. CASE PollFails
    BY <1>3 DEF PollFails
  <1>4. CASE PollDone
    BY <1>4 DEF PollDone
  <1>5. ASSUME NEW r \in Runs, SkipRun(r) PROVE TypeOK'
    BY <1>5 DEF SkipRun
  <1>6. ASSUME NEW r \in Runs, ListRunJobs(r) PROVE TypeOK'
    BY <1>6 DEF ListRunJobs, NewJobs, Queued
  <1>7. ASSUME NEW j \in Jobs, SkipUnknown(j) PROVE TypeOK'
    BY <1>7 DEF SkipUnknown
  <1>8. ASSUME NEW j \in Jobs, SkipFailed(j) PROVE TypeOK'
    BY <1>8 DEF SkipFailed
  <1>9. ASSUME NEW j \in Jobs, CreateJob(j) PROVE TypeOK'
    BY <1>9 DEF CreateJob
  <1>10. CASE RunJob
    BY <1>10 DEF RunJob
  <1>11. CASE Mark
    BY <1>11 DEF Mark
  <1>12. CASE StepDone
    BY <1>12 DEF StepDone
  <1>13. CASE Timer
    BY <1>13 DEF Timer
  <1>14. CASE CleanupTick
    BY <1>14 DEF CleanupTick
  <1>15. CASE Signal
    BY <1>15 DEF Signal
  <1>16. CASE ListManaged
    BY <1>16 DEF ListManaged, LiveOwners, Terminal, Listing, Managed
  <1>17. CASE SweepRefused
    <2>1. pc' \in {"down", "top"} /\ ended' = {} /\ orphans' = {} /\ cur' = None
      BY <1>17 DEF SweepRefused, AfterSweep
    <2>2. troubles' \in 0 .. MaxTroubles
      BY <1>17 DEF SweepRefused
    <2>3. stopping' \in BOOLEAN /\ limited' \in BOOLEAN /\ cut' \in BOOLEAN
      BY <1>17 DEF SweepRefused, Forget
    <2> QED BY <1>17, <2>1, <2>2, <2>3 DEF SweepRefused, Forget
  <1>18. CASE ReapDone
    BY <1>18 DEF ReapDone
  <1>19. CASE ListManagedServices
    BY <1>19 DEF ListManagedServices, Orphans, Listing
  <1>20. CASE SweepDone
    BY <1>20 DEF SweepDone, AfterSweep, Forget
  <1>21. ASSUME NEW t \in Tasks, Delete(t) PROVE TypeOK'
    BY <1>21 DEF Delete
  <1>22. ASSUME NEW t \in Tasks, DeleteService(t) PROVE TypeOK'
    BY <1>22 DEF DeleteService
  <1>23. ASSUME NEW j \in Jobs, JobQueued(j) PROVE TypeOK'
    BY <1>23 DEF JobQueued
  <1>24. ASSUME NEW j \in Jobs, JobCancelled(j) PROVE TypeOK'
    BY <1>24 DEF JobCancelled
  <1>25. ASSUME NEW t \in Tasks, RunnerMakesService(t) PROVE TypeOK'
    BY <1>25 DEF RunnerMakesService
  <1>26. ASSUME NEW t \in Tasks, RunnerEnds(t) PROVE TypeOK'
    BY <1>26 DEF RunnerEnds
  <1>27. CASE Boot
    BY <1>27 DEF Boot, RecoverState, Listing, Managed
  <1>28. CASE Crash
    <2>1. cur' = None /\ pc' = "down" /\ troubles' \in 0 .. MaxTroubles
      BY <1>28 DEF Crash
    <2>2. stopping' \in BOOLEAN /\ limited' \in BOOLEAN /\ cut' \in BOOLEAN
      BY <1>28 DEF Crash
    <2> QED BY <1>28, <2>1, <2>2 DEF Crash
  <1>29. CASE LimitOver
    BY <1>29 DEF LimitOver
  <1>30. ASSUME NEW j \in Jobs, Expire(j) PROVE TypeOK'
    BY <1>30 DEF Expire
  <1>31. ASSUME NEW r \in Runs, ExpireRun(r) PROVE TypeOK'
    BY <1>31 DEF ExpireRun
  <1>32. ASSUME NEW t \in Tasks, NEW j \in Jobs, RunnerTakes(t, j) PROVE TypeOK'
    BY <1>32 DEF RunnerTakes
  <1>33. CASE UNCHANGED vars
    BY <1>33 DEF vars
  <1> QED BY <1>1, <1>2, <1>3, <1>4, <1>5, <1>6, <1>7, <1>8, <1>9, <1>10,
     <1>11, <1>12, <1>13, <1>14, <1>15, <1>16, <1>17, <1>18, <1>19, <1>20,
     <1>21, <1>22, <1>23, <1>24, <1>25, <1>26, <1>27, <1>28, <1>29, <1>30,
     <1>31, <1>32, <1>33
     DEF Next, Loop, Outside

\* The type invariant of the dispatcher: Spawn has a task exactly while it
\* starts one, each phase of Cleanup has only its own lists, whatever fails.
THEOREM TypeCorrect == Spec => []TypeOK
  BY TypeInit, TypeStep, PTL DEF Spec

-----------------------------------------------------------------------------
\* The task is there to run.
Active(t) == task[t] \in {"created", "running"}

\* The dispatcher knows of the task: its job is in Seen, or the task is the
\* one that Spawn is starting, or the next Boot will read it from the cloud.
Remembered(t) == t[1] \in Seen \/ t = cur \/ pc = "down"

\* A job with a task that is there to run is remembered and not about to be
\* started again, and has no second one.
SpawnInv ==
    /\ pc = "run" => task[cur] = "created"
    /\ \A t \in Tasks :
          Active(t) /\ t[1] \notin forgot => Remembered(t) /\ t[1] \notin found
    /\ OneRunnerPerJob


LEMMA SpawnInit == Init => SpawnInv
  BY DEF Init, SpawnInv, OneRunnerPerJob, Active

LEMMA SpawnStep == TypeOK /\ SpawnInv /\ [Next]_vars => SpawnInv'
  <1> SUFFICES ASSUME TypeOK, SpawnInv, [Next]_vars PROVE SpawnInv'
    OBVIOUS
  <1> USE DispatcherAssumption, TaskType
         DEF TypeOK, SpawnInv, OneRunnerPerJob, Active, Remembered, github, cloud,
             memory, poll, sweep
  <1>1. CASE SkipStep
    BY <1>1 DEF SkipStep
  <1>2. CASE ListQueuedRuns
    BY <1>2 DEF ListQueuedRuns, Queued
  <1>3. CASE PollFails
    BY <1>3 DEF PollFails
  <1>4. CASE PollDone
    BY <1>4 DEF PollDone
  <1>5. ASSUME NEW r \in Runs, SkipRun(r) PROVE SpawnInv'
    BY <1>5 DEF SkipRun
  <1>6. ASSUME NEW r \in Runs, ListRunJobs(r) PROVE SpawnInv'
    BY <1>6 DEF ListRunJobs, NewJobs, Queued
  <1>7. ASSUME NEW j \in Jobs, SkipUnknown(j) PROVE SpawnInv'
    BY <1>7 DEF SkipUnknown
  <1>8. ASSUME NEW j \in Jobs, SkipFailed(j) PROVE SpawnInv'
    BY <1>8 DEF SkipFailed
  <1>9. ASSUME NEW j \in Jobs, CreateJob(j) PROVE SpawnInv'
    BY <1>9 DEF CreateJob
  <1>10. CASE RunJob
    BY <1>10 DEF RunJob
  <1>11. CASE Mark
    BY <1>11 DEF Mark
  <1>12. CASE StepDone
    BY <1>12 DEF StepDone
  <1>13. CASE Timer
    BY <1>13 DEF Timer
  <1>14. CASE CleanupTick
    BY <1>14 DEF CleanupTick
  <1>15. CASE Signal
    BY <1>15 DEF Signal
  <1>16. CASE ListManaged
    BY <1>16 DEF ListManaged, LiveOwners, Terminal, Listing, Managed
  <1>17. CASE SweepRefused
    BY <1>17 DEF SweepRefused, AfterSweep, Forget
  <1>18. CASE ReapDone
    BY <1>18 DEF ReapDone
  <1>19. CASE ListManagedServices
    BY <1>19 DEF ListManagedServices, Orphans, Listing
  <1>20. CASE SweepDone
    BY <1>20 DEF SweepDone, AfterSweep, Forget
  <1>21. ASSUME NEW t \in Tasks, Delete(t) PROVE SpawnInv'
    BY <1>21 DEF Delete
  <1>22. ASSUME NEW t \in Tasks, DeleteService(t) PROVE SpawnInv'
    BY <1>22 DEF DeleteService
  <1>23. ASSUME NEW j \in Jobs, JobQueued(j) PROVE SpawnInv'
    BY <1>23 DEF JobQueued
  <1>24. ASSUME NEW j \in Jobs, JobCancelled(j) PROVE SpawnInv'
    BY <1>24 DEF JobCancelled
  <1>25. ASSUME NEW t \in Tasks, RunnerMakesService(t) PROVE SpawnInv'
    BY <1>25 DEF RunnerMakesService
  <1>26. ASSUME NEW t \in Tasks, RunnerEnds(t) PROVE SpawnInv'
    BY <1>26 DEF RunnerEnds
  <1>27. CASE Boot
    BY <1>27 DEF Boot, RecoverState, Listing, Managed, Exists
  <1>28. CASE Crash
    BY <1>28 DEF Crash
  <1>29. CASE LimitOver
    BY <1>29 DEF LimitOver
  <1>30. ASSUME NEW j \in Jobs, Expire(j) PROVE SpawnInv'
    BY <1>30 DEF Expire
  <1>31. ASSUME NEW r \in Runs, ExpireRun(r) PROVE SpawnInv'
    BY <1>31 DEF ExpireRun
  <1>32. ASSUME NEW t \in Tasks, NEW j \in Jobs, RunnerTakes(t, j) PROVE SpawnInv'
    BY <1>32 DEF RunnerTakes
  <1>33. CASE UNCHANGED vars
    BY <1>33 DEF vars
  <1> QED BY <1>1, <1>2, <1>3, <1>4, <1>5, <1>6, <1>7, <1>8, <1>9, <1>10,
     <1>11, <1>12, <1>13, <1>14, <1>15, <1>16, <1>17, <1>18, <1>19, <1>20,
     <1>21, <1>22, <1>23, <1>24, <1>25, <1>26, <1>27, <1>28, <1>29, <1>30,
     <1>31, <1>32, <1>33
     DEF Next, Loop, Outside

\* OneRunnerPerJob: across polls, crashes at any point of Spawn, restarts and
\* expired entries no job has two tasks that are there to run, unless the
\* dispatcher had reason to start it again.
THEOREM NoSecondRunner == Spec => []OneRunnerPerJob
  <1>1. Spec => []SpawnInv
    BY SpawnInit, SpawnStep, TypeCorrect, PTL DEF Spec
  <1>2. SpawnInv => OneRunnerPerJob
    BY DEF SpawnInv
  <1> QED BY <1>1, <1>2, PTL

-----------------------------------------------------------------------------
\* What Cleanup relies on while it works through its lists: a task it is to
\* delete has ended for good, a service it is to delete has no live owner on
\* its list, and the list has every task that is there to run, unless the
\* listing ended early.
SweepInv ==
    /\ \A t \in ended : task[t] = "ended"
    /\ orphans \cap live = {}
    /\ pc \in {"reap", "services", "orphans"} /\ ~cut
          => \A t \in Tasks : Active(t) => t \in live


LEMMA SweepInit == Init => SweepInv
  BY DEF Init, SweepInv

LEMMA SweepStep == TypeOK /\ SpawnInv /\ SweepInv /\ [Next]_vars => SweepInv'
  <1> SUFFICES ASSUME TypeOK, SpawnInv, SweepInv, [Next]_vars PROVE SweepInv'
    OBVIOUS
  <1> USE DispatcherAssumption, TaskType
         DEF TypeOK, SpawnInv, SweepInv, Active, github, cloud, memory, poll, sweep
  <1>1. CASE SkipStep
    BY <1>1 DEF SkipStep
  <1>2. CASE ListQueuedRuns
    BY <1>2 DEF ListQueuedRuns, Queued
  <1>3. CASE PollFails
    BY <1>3 DEF PollFails
  <1>4. CASE PollDone
    BY <1>4 DEF PollDone
  <1>5. ASSUME NEW r \in Runs, SkipRun(r) PROVE SweepInv'
    BY <1>5 DEF SkipRun
  <1>6. ASSUME NEW r \in Runs, ListRunJobs(r) PROVE SweepInv'
    BY <1>6 DEF ListRunJobs, NewJobs, Queued
  <1>7. ASSUME NEW j \in Jobs, SkipUnknown(j) PROVE SweepInv'
    BY <1>7 DEF SkipUnknown
  <1>8. ASSUME NEW j \in Jobs, SkipFailed(j) PROVE SweepInv'
    BY <1>8 DEF SkipFailed
  <1>9. ASSUME NEW j \in Jobs, CreateJob(j) PROVE SweepInv'
    BY <1>9 DEF CreateJob
  <1>10. CASE RunJob
    BY <1>10 DEF RunJob
  <1>11. CASE Mark
    BY <1>11 DEF Mark
  <1>12. CASE StepDone
    BY <1>12 DEF StepDone
  <1>13. CASE Timer
    BY <1>13 DEF Timer
  <1>14. CASE CleanupTick
    BY <1>14 DEF CleanupTick
  <1>15. CASE Signal
    BY <1>15 DEF Signal
  <1>16. CASE ListManaged
    BY <1>16, ZenonT(60) DEF ListManaged, LiveOwners, Terminal, Listing, Managed, Exists
  <1>17. CASE SweepRefused
    BY <1>17 DEF SweepRefused, AfterSweep, Forget
  <1>18. CASE ReapDone
    BY <1>18 DEF ReapDone
  <1>19. CASE ListManagedServices
    BY <1>19 DEF ListManagedServices, Orphans, Listing
  <1>20. CASE SweepDone
    BY <1>20 DEF SweepDone, AfterSweep, Forget
  <1>21. ASSUME NEW t \in Tasks, Delete(t) PROVE SweepInv'
    BY <1>21 DEF Delete
  <1>22. ASSUME NEW t \in Tasks, DeleteService(t) PROVE SweepInv'
    BY <1>22 DEF DeleteService
  <1>23. ASSUME NEW j \in Jobs, JobQueued(j) PROVE SweepInv'
    BY <1>23 DEF JobQueued
  <1>24. ASSUME NEW j \in Jobs, JobCancelled(j) PROVE SweepInv'
    BY <1>24 DEF JobCancelled
  <1>25. ASSUME NEW t \in Tasks, RunnerMakesService(t) PROVE SweepInv'
    BY <1>25 DEF RunnerMakesService
  <1>26. ASSUME NEW t \in Tasks, RunnerEnds(t) PROVE SweepInv'
    BY <1>26 DEF RunnerEnds
  <1>27. CASE Boot
    BY <1>27 DEF Boot, RecoverState, Listing, Managed
  <1>28. CASE Crash
    BY <1>28 DEF Crash
  <1>29. CASE LimitOver
    BY <1>29 DEF LimitOver
  <1>30. ASSUME NEW j \in Jobs, Expire(j) PROVE SweepInv'
    BY <1>30 DEF Expire
  <1>31. ASSUME NEW r \in Runs, ExpireRun(r) PROVE SweepInv'
    BY <1>31 DEF ExpireRun
  <1>32. ASSUME NEW t \in Tasks, NEW j \in Jobs, RunnerTakes(t, j) PROVE SweepInv'
    BY <1>32 DEF RunnerTakes
  <1>33. CASE UNCHANGED vars
    BY <1>33 DEF vars
  <1> QED BY <1>1, <1>2, <1>3, <1>4, <1>5, <1>6, <1>7, <1>8, <1>9, <1>10,
     <1>11, <1>12, <1>13, <1>14, <1>15, <1>16, <1>17, <1>18, <1>19, <1>20,
     <1>21, <1>22, <1>23, <1>24, <1>25, <1>26, <1>27, <1>28, <1>29, <1>30,
     <1>31, <1>32, <1>33
     DEF Next, Loop, Outside

\* SweepSparesTheLiving, for one task and one step.
Spared(t) == task[t] \in {"created", "running"} =>
                 /\ task'[t] # "deleted"
                 /\ pc = "orphans" /\ svc[t] = "up" /\ svc'[t] = "gone" /\ task'[t] # "ended"
                       => cut

\* The steps that change what is in the cloud; the others spare everything.
LEMMA SweepSpares ==
  ASSUME TypeOK, SpawnInv, SweepInv, [Next]_vars, NEW u \in Tasks
  PROVE  Spared(u)
  <1> USE TaskType DEF TypeOK, SpawnInv, SweepInv, Active, Spared
  <1>1. ASSUME NEW t \in Tasks, Delete(t) PROVE Spared(u)
    BY <1>1 DEF Delete
  <1>2. ASSUME NEW t \in Tasks, DeleteService(t) PROVE Spared(u)
    BY <1>2 DEF DeleteService
  <1>3. ASSUME NEW t \in Tasks, RunnerEnds(t) PROVE Spared(u)
    BY <1>3 DEF RunnerEnds
  <1>4. ASSUME NEW t \in Tasks, RunnerMakesService(t) PROVE Spared(u)
    BY <1>4 DEF RunnerMakesService
  <1>5. ASSUME NEW j \in Jobs, CreateJob(j) PROVE Spared(u)
    BY <1>5 DEF CreateJob
  <1>6. CASE RunJob
    BY <1>6 DEF RunJob
  <1>7. ASSUME UNCHANGED <<task, svc>> PROVE Spared(u)
    BY <1>7
  <1>8. ASSUME Next PROVE \/ \E t \in Tasks : \/ Delete(t) \/ DeleteService(t)
                                            \/ RunnerEnds(t) \/ RunnerMakesService(t)
                          \/ \E j \in Jobs : CreateJob(j)
                          \/ RunJob
                          \/ UNCHANGED <<task, svc>>
    BY <1>8 DEF Next, Loop, Outside, cloud, SkipStep, ListQueuedRuns, PollFails,
       PollDone, SkipRun, ListRunJobs, SkipUnknown, SkipFailed, Mark, StepDone,
       Timer, CleanupTick, Signal, ListManaged, SweepRefused, ReapDone,
       ListManagedServices, SweepDone, JobQueued, JobCancelled, RunnerTakes,
       Boot, Crash, LimitOver, Expire, ExpireRun
  <1>9. CASE UNCHANGED vars
    BY <1>9 DEF vars, cloud
  <1> QED BY <1>1, <1>2, <1>3, <1>4, <1>5, <1>6, <1>7, <1>8, <1>9

\* SweepSparesTheLiving: no step deletes a task that is there to run, and
\* Cleanup deletes no service of one, although runners end and make services
\* while it works, unless its listing of the tasks ended early.
THEOREM LivingAreSpared == Spec => SweepSparesTheLiving
  <1>1. Spec => []SpawnInv
    BY SpawnInit, SpawnStep, TypeCorrect, PTL DEF Spec
  <1>2. Spec => []SweepInv
    BY <1>1, SweepInit, SweepStep, TypeCorrect, PTL DEF Spec
  <1>3. ASSUME TypeOK, SpawnInv, SweepInv, [Next]_vars
        PROVE  [\A t \in Tasks : Spared(t)]_vars
    BY <1>3, SweepSpares
  <1>4. [][\A t \in Tasks : Spared(t)]_vars => SweepSparesTheLiving
    BY PTL DEF Spared, SweepSparesTheLiving
  <1> QED BY <1>1, <1>2, <1>3, <1>4, TypeCorrect, PTL DEF Spec
=============================================================================
