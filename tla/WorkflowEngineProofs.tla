------------------------ MODULE WorkflowEngineProofs ------------------------
(***************************************************************************)
(* Theorems about WorkflowEngine, for every set of jobs and definitions,   *)
(* every number of runs and goroutines and all bounds.                     *)
(***************************************************************************)
EXTENDS WorkflowEngine, FiniteSetTheorems, TLAPS

\* normalizeResult maps what a runner reports to a result of a job.
LEMMA NormalizeType ==
    ASSUME NEW r \in ReportedResults PROVE normalizeResult(r) \in JobResults
  BY DEF normalizeResult, ReportedResults, JobResults, Empty

\* Definitions have the type ConstantsAssumption gives them.
LEMMA DefFacts ==
    ASSUME RunTypeOK, NEW w \in Runs
    PROVE  /\ DefType(def[w])
           /\ JobsOf(w) \subseteq Jobs
  BY ConstantsAssumption DEF RunTypeOK, DefType, JobsOf

\* The two moves that most steps of a goroutine end with.
LEMMA ExitType ==
    ASSUME ThreadTypeOK, NEW t \in Threads, Exit(t) PROVE ThreadTypeOK'
  BY DEF ThreadTypeOK, Exit, PCs, ReportedResults

LEMMA GotoType ==
    ASSUME ThreadTypeOK, NEW t \in Threads, NEW p \in PCs \ {"complete", "cancel"},
           tw[t] \in Runs, Goto(t, p)
    PROVE  ThreadTypeOK'
  BY DEF ThreadTypeOK, Goto, PCs

\* The goroutine that takes a step other than a scan's does not hold the lock,
\* and nobody else does.
LEMMA FreeLock ==
    ASSUME ScanTypeOK, NEW t \in Threads, NEW p, At(t, p),
           todo' \in [Threads -> SUBSET Jobs], UNCHANGED <<left, changed, lock>>
    PROVE  ScanTypeOK'
  BY ConstantsAssumption DEF ScanTypeOK, At

\* The initial state, of NewStore, has the right types.
LEMMA InitType == Init => TypeOK
  <1> SUFFICES ASSUME Init PROVE TypeOK
    OBVIOUS
  <1> USE ConstantsAssumption DEF Init
  <1>1. RunTypeOK BY DEF RunTypeOK, RunStatuses, Runs
  <1>2. JobTypeOK BY DEF JobTypeOK, JobStatuses, JobResults
  <1>3. RequestTypeOK BY DEF RequestTypeOK, ReportedResults
  <1>4. ThreadTypeOK BY DEF ThreadTypeOK, PCs, ReportedResults
  <1>5. ScanTypeOK BY DEF ScanTypeOK
  <1>6. BoundTypeOK BY DEF BoundTypeOK
  <1> QED
    BY <1>1, <1>2, <1>3, <1>4, <1>5, <1>6 DEF TypeOK

\* The steps of submitWorkflow keep the types.
LEMMA SubmitType ==
    ASSUME TypeOK, NEW t \in Threads,
           \/ \E w \in Runs : SubmitWorkflow(t, w)
           \/ LookupActive(t) \/ EnqueuePending(t) \/ StoreRun(t)
    PROVE  TypeOK'
  <1> USE DEF TypeOK, boundVars, reqVars, jobVars, scanVars
  <1>1. BoundTypeOK' /\ RequestTypeOK' /\ JobTypeOK'
    BY DEF BoundTypeOK, RequestTypeOK, JobTypeOK, SubmitWorkflow, LookupActive, EnqueuePending, StoreRun
  <1>2. ScanTypeOK'
    BY FreeLock DEF ScanTypeOK, SubmitWorkflow, LookupActive, EnqueuePending, StoreRun
  <1>3. ASSUME NEW w \in Runs, SubmitWorkflow(t, w) PROVE RunTypeOK' /\ ThreadTypeOK'
    <2>1. PICK m \in MaxParallelChoices(def[w]) : maxPar' = [maxPar EXCEPT ![w] = m]
      BY <1>3 DEF SubmitWorkflow
    <2>2. m \in Nat
      <3>1. \A j \in def[w].jobs : def[w].parallel[j] \in Nat
        BY DefFacts DEF DefType, JobsOf
      <3>2. m = 0 \/ \E j \in def[w].jobs : m = def[w].parallel[j]
        BY <2>1 DEF MaxParallelChoices
      <3> QED BY <3>1, <3>2
    <2>3. /\ UNCHANGED <<def, stored, wresult>>
          /\ nextRun' = nextRun + 1
          /\ wstatus' = [wstatus EXCEPT ![w] = "building"]
      BY <1>3 DEF SubmitWorkflow
    <2>4. RunTypeOK'
      BY <2>1, <2>2, <2>3 DEF RunTypeOK, RunStatuses
    <2>5. ThreadTypeOK'
      BY <1>3 DEF ThreadTypeOK, SubmitWorkflow, At, PCs
    <2> QED BY <2>4, <2>5
  <1>4. ASSUME LookupActive(t) PROVE RunTypeOK' /\ ThreadTypeOK'
    <2>1. RunTypeOK'
      BY <1>4 DEF RunTypeOK, LookupActive, wfVars
    <2>2. tw[t] \in Runs
      BY <1>4 DEF ThreadTypeOK, LookupActive, At
    <2>3. CASE Goto(t, "store") \/ Goto(t, "enqueue")
      BY <2>1, <2>2, <2>3, GotoType DEF PCs
    <2>4. CASE ~ (Goto(t, "store") \/ Goto(t, "enqueue"))
      <3>1. PICK v \in RunningRuns : active' = [active EXCEPT ![t] = v]
        BY <1>4, <2>4 DEF LookupActive
      <3>2. v \in Runs
        BY <3>1 DEF RunningRuns, RunTypeOK
      <3>3. /\ pc' = [pc EXCEPT ![t] = "cancel"]
            /\ cont' = [cont EXCEPT ![t] = "store"]
            /\ UNCHANGED <<tw, tj, tres>>
        BY <1>4, <2>4 DEF LookupActive
      <3> QED
        BY <2>1, <2>2, <3>1, <3>2, <3>3 DEF ThreadTypeOK, PCs
    <2> QED BY <2>1, <2>3, <2>4
  <1>5. ASSUME EnqueuePending(t) \/ StoreRun(t) PROVE RunTypeOK' /\ ThreadTypeOK'
    <2>1. tw[t] \in Runs
      BY <1>5 DEF ThreadTypeOK, EnqueuePending, StoreRun, At
    <2>2. RunTypeOK'
      BY <1>5, <2>1 DEF RunTypeOK, EnqueuePending, StoreRun, RunStatuses
    <2>3. ThreadTypeOK'
      BY <1>5, <2>1, ExitType, GotoType DEF EnqueuePending, StoreRun, PCs
    <2> QED BY <2>2, <2>3
  <1> QED
    BY <1>1, <1>2, <1>3, <1>4, <1>5
\* The steps of dispatchReadyJobs keep the types.
LEMMA DispatchType ==
    ASSUME TypeOK, NEW t \in Threads,
           \/ ScanBegin(t) \/ ScanEnd(t) \/ DispatchLoop(t)
           \/ \E j \in Jobs : ScanJob(t, j) \/ DispatchJob(t, j)
    PROVE  TypeOK'
  <1> USE DEF TypeOK, boundVars, wfVars, threadVars
  <1>1. BoundTypeOK' /\ RunTypeOK'
    BY DEF BoundTypeOK, RunTypeOK, ScanBegin, ScanEnd, DispatchLoop, ScanJob, DispatchJob
  <1>2. CASE ScanBegin(t)
    <2>1. PendingJobs(tw[t]) \subseteq Jobs
      BY <1>2, DefFacts DEF PendingJobs, ScanBegin, At, ThreadTypeOK
    <2>2. ScanTypeOK'
      BY <1>2, <2>1, ConstantsAssumption DEF ScanTypeOK, ScanBegin, At
    <2>3. JobTypeOK' /\ RequestTypeOK' /\ ThreadTypeOK'
      BY <1>2 DEF JobTypeOK, RequestTypeOK, ThreadTypeOK, ScanBegin, jobVars, reqVars
    <2> QED BY <1>1, <2>2, <2>3
  <1>3. ASSUME NEW j \in Jobs, ScanJob(t, j) PROVE TypeOK'
    <2>1. pc[t] = "dispatch" /\ tw[t] \in Runs
      BY <1>3 DEF ScanJob, ScanTypeOK, ThreadTypeOK
    <2>2. RequestTypeOK' /\ ThreadTypeOK'
      BY <1>3 DEF RequestTypeOK, ThreadTypeOK, ScanJob, reqVars
    <2>3. CASE LeaveJob(t, tw[t], j)
      <3>1. JobTypeOK'
        BY <2>3 DEF JobTypeOK, LeaveJob, jobVars
      <3>2. ScanTypeOK'
        BY <1>3, <2>3 DEF ScanTypeOK, ScanJob, LeaveJob
      <3> QED BY <1>1, <2>2, <3>1, <3>2
    <2>4. CASE SkipReadyJob(t, tw[t], j)
      <3>1. JobTypeOK'
        BY <2>1, <2>4 DEF JobTypeOK, SkipReadyJob, JobStatuses, JobResults
      <3>2. ScanTypeOK'
        BY <1>3, <2>4 DEF ScanTypeOK, ScanJob, SkipReadyJob
      <3> QED BY <1>1, <2>2, <3>1, <3>2
    <2>5. CASE QueueReadyJob(t, tw[t], j)
      <3>1. JobTypeOK'
        BY <2>1, <2>5 DEF JobTypeOK, QueueReadyJob, JobStatuses
      <3>2. ScanTypeOK'
        BY <1>3, <2>5 DEF ScanTypeOK, ScanJob, QueueReadyJob
      <3> QED BY <1>1, <2>2, <3>1, <3>2
    <2> QED BY <1>3, <2>3, <2>4, <2>5 DEF ScanJob
  <1>4. CASE ScanEnd(t)
    <2>1. JobTypeOK' /\ RequestTypeOK'
      BY <1>4 DEF JobTypeOK, RequestTypeOK, ScanEnd, jobVars, reqVars
    <2>2. ScanTypeOK'
      BY <1>4, ConstantsAssumption DEF ScanTypeOK, ScanEnd
    <2>3. tw[t] \in Runs
      BY <1>4 DEF ScanEnd, ScanTypeOK, ThreadTypeOK
    <2>4. ThreadTypeOK'
      BY <1>4, <2>3, GotoType, ExitType DEF ScanEnd, PCs
    <2> QED BY <1>1, <2>1, <2>2, <2>4
  <1>5. ASSUME NEW j \in Jobs, DispatchJob(t, j) PROVE TypeOK'
    <2>1. tw[t] \in Runs
      BY <1>5 DEF DispatchJob, At, ThreadTypeOK
    <2>2. JobTypeOK' /\ ThreadTypeOK'
      BY <1>5 DEF JobTypeOK, ThreadTypeOK, DispatchJob, jobVars
    <2>3. RequestTypeOK'
      BY <1>5, <2>1 DEF RequestTypeOK, DispatchJob
    <2>4. todo' \in [Threads -> SUBSET Jobs]
      BY <1>5 DEF ScanTypeOK, DispatchJob
    <2>5. ScanTypeOK'
      BY <1>5, <2>4 DEF DispatchJob, ScanTypeOK
    <2> QED BY <1>1, <2>2, <2>3, <2>5
  <1>6. CASE DispatchLoop(t)
    <2>1. JobTypeOK' /\ RequestTypeOK'
      BY <1>6 DEF JobTypeOK, RequestTypeOK, DispatchLoop, jobVars, reqVars
    <2>2. tw[t] \in Runs
      BY <1>6 DEF DispatchLoop, At, ThreadTypeOK
    <2>3. ThreadTypeOK'
      BY <1>6, <2>2, GotoType DEF DispatchLoop, PCs
    <2>4. ScanTypeOK'
      BY <1>6, FreeLock DEF DispatchLoop, scanVars, ScanTypeOK
    <2> QED BY <1>1, <2>1, <2>3, <2>4
  <1> QED
    BY <1>2, <1>3, <1>4, <1>5, <1>6

\* The requests of the runner keep the types.
LEMMA RunnerType ==
    ASSUME TypeOK, NEW w \in Runs, NEW j \in Jobs, RenewRequest(w, j) \/ RunnerReport(w, j)
    PROVE  TypeOK'
  <1> USE DEF TypeOK
  <1>1. CASE RenewRequest(w, j)
    <2>1. RunTypeOK' /\ JobTypeOK' /\ ThreadTypeOK' /\ ScanTypeOK' /\ BoundTypeOK'
      BY <1>1 DEF RenewRequest, RunTypeOK, JobTypeOK, ThreadTypeOK, ScanTypeOK, BoundTypeOK,
                  wfVars, jobVars, threadVars, scanVars, boundVars
    <2>2. RequestTypeOK'
      BY <1>1 DEF RenewRequest, RequestTypeOK
    <2> QED BY <2>1, <2>2
  <1>2. ASSUME NEW t \in Threads, NEW r \in ReportedResults, Report(t, w, j, r) PROVE TypeOK'
    <2>1. RunTypeOK' /\ JobTypeOK' /\ BoundTypeOK'
      BY <1>2 DEF Report, RunTypeOK, JobTypeOK, BoundTypeOK, wfVars, jobVars, boundVars
    <2>2. ScanTypeOK'
      BY <1>2, FreeLock DEF Report, ScanTypeOK, scanVars
    <2>3. RequestTypeOK'
      BY <1>2 DEF Report, RequestTypeOK
    <2>4. ThreadTypeOK'
      BY <1>2 DEF Report, ThreadTypeOK, PCs
    <2> QED BY <2>1, <2>2, <2>3, <2>4
  <1>3. CASE RunnerReport(w, j)
    <2>1. PICK t \in Threads, r \in RunnerResults :
             FinishJob(t, w, j, r) \/ CompleteRequest(t, w, j, r)
      BY <1>3 DEF RunnerReport
    <2>2. rresult[w][j] \in ReportedResults
      BY DEF RequestTypeOK
    <2>3. \E q \in ReportedResults : Report(t, w, j, q)
      BY <2>1, <2>2 DEF FinishJob, CompleteRequest, ReportedResults
    <2> QED BY <1>2, <2>3
  <1> QED
    BY <1>1, <1>3
\* The sections of onJobCompleted keep the types.
LEMMA CompletionType ==
    ASSUME TypeOK, NEW t \in Threads,
           OnJobCompleted(t) \/ CheckAllDone(t) \/ StartPending(t)
    PROVE  TypeOK'
  <1> USE DEF TypeOK
  <1>1. BoundTypeOK' /\ RequestTypeOK'
    BY DEF BoundTypeOK, RequestTypeOK, OnJobCompleted, CheckAllDone, StartPending, boundVars, reqVars
  <1>2. ScanTypeOK'
    BY FreeLock DEF ScanTypeOK, OnJobCompleted, CheckAllDone, StartPending, scanVars
  <1>3. tw[t] \in Runs
    BY DEF OnJobCompleted, CheckAllDone, StartPending, At, ThreadTypeOK
  <1>4. CASE OnJobCompleted(t)
    <2>1. RunTypeOK'
      BY <1>4 DEF RunTypeOK, OnJobCompleted, wfVars
    <2>2. tj[t] \in Jobs
      BY <1>4 DEF OnJobCompleted, At, ThreadTypeOK
    <2>3. CASE tw[t] \in stored
      <3>1. PICK raw \in {tres[t], rresult[tw[t]][tj[t]]} :
              LET r == normalizeResult(raw)
                  victims == FailFastVictims(tw[t], tj[t], r)
              IN  /\ jstatus' = [jstatus EXCEPT ![tw[t]] = [k \in Jobs |->
                         IF k \in victims \cup {tj[t]} THEN "completed" ELSE @[k]]]
                  /\ jresult' = [jresult EXCEPT ![tw[t]] = [k \in Jobs |->
                         IF k = tj[t] THEN r ELSE
                         IF k \in victims THEN "cancelled" ELSE @[k]]]
        BY <1>4, <2>3 DEF OnJobCompleted
      <3>2. normalizeResult(raw) \in JobResults
        BY <1>3, <2>2, NormalizeType DEF ThreadTypeOK, RequestTypeOK
      <3>3. JobTypeOK'
        BY <1>3, <3>1, <3>2 DEF JobTypeOK, JobStatuses, JobResults
      <3>4. ThreadTypeOK'
        BY <1>3, <1>4, <2>3 DEF OnJobCompleted, ThreadTypeOK, PCs, ReportedResults
      <3> QED BY <1>1, <1>2, <2>1, <3>3, <3>4
    <2>4. CASE tw[t] \notin stored
      BY <1>1, <1>2, <1>4, <2>1, <2>4, ExitType DEF OnJobCompleted, JobTypeOK, jobVars
    <2> QED BY <2>3, <2>4
  <1>5. CASE CheckAllDone(t)
    <2>1. JobTypeOK'
      BY <1>5 DEF JobTypeOK, CheckAllDone, jobVars
    <2>2. RunTypeOK'
      BY <1>3, <1>5 DEF RunTypeOK, CheckAllDone, RunStatuses
    <2>3. ThreadTypeOK'
      BY <1>3, <1>5, ExitType, GotoType DEF CheckAllDone, PCs
    <2> QED BY <1>1, <1>2, <2>1, <2>2, <2>3
  <1>6. CASE StartPending(t)
    <2>1. JobTypeOK'
      BY <1>6 DEF JobTypeOK, StartPending, jobVars
    <2>2. CASE Exit(t) /\ UNCHANGED wstatus
      <3>1. RunTypeOK'
        BY <1>6, <2>2 DEF RunTypeOK, StartPending
      <3> QED BY <1>1, <1>2, <2>1, <2>2, <3>1, ExitType
    <2>3. CASE ~ (Exit(t) /\ UNCHANGED wstatus)
      <3>1. PICK v \in stored :
              /\ wstatus' = [wstatus EXCEPT ![v] = "running"]
              /\ tw' = [tw EXCEPT ![t] = v]
              /\ pc' = [pc EXCEPT ![t] = "dispatch"]
              /\ cont' = [cont EXCEPT ![t] = "end"]
              /\ UNCHANGED <<tj, tres, active>>
        BY <1>6, <2>3 DEF StartPending
      <3>2. RunTypeOK'
        BY <1>6, <3>1 DEF RunTypeOK, StartPending, RunStatuses
      <3>3. ThreadTypeOK'
        BY <3>1 DEF ThreadTypeOK, RunTypeOK, PCs
      <3> QED BY <1>1, <1>2, <2>1, <3>2, <3>3
    <2> QED BY <2>2, <2>3
  <1> QED
    BY <1>4, <1>5, <1>6

\* Cancellation, timeouts and the removal of a run keep the types.
LEMMA CancelType ==
    ASSUME TypeOK, NEW t \in Threads,
           \/ CancelWorkflow(t)
           \/ \E w \in Runs : BeginCancel(t, w)
           \/ \E w \in Runs, late \in SUBSET Jobs : CheckJobTimeouts(t, w, late)
    PROVE  TypeOK'
  <1> USE DEF TypeOK
  <1>1. ASSUME NEW v \in Runs, NEW S, CancelOpenJobs(v, S) PROVE JobTypeOK'
    BY <1>1 DEF CancelOpenJobs, JobTypeOK, JobStatuses, JobResults
  <1>2. ASSUME NEW w \in Runs, BeginCancel(t, w) PROVE TypeOK'
    <2>1. RunTypeOK' /\ JobTypeOK' /\ RequestTypeOK' /\ BoundTypeOK'
      BY <1>2 DEF BeginCancel, RunTypeOK, JobTypeOK, RequestTypeOK, BoundTypeOK,
                  wfVars, jobVars, reqVars
    <2>2. ScanTypeOK'
      BY <1>2, FreeLock DEF BeginCancel, ScanTypeOK, scanVars
    <2>3. ThreadTypeOK'
      BY <1>2 DEF BeginCancel, ThreadTypeOK, PCs
    <2> QED BY <2>1, <2>2, <2>3
  <1>3. CASE CancelWorkflow(t)
    <2>1. active[t] \in Runs
      BY <1>3 DEF CancelWorkflow, At, ThreadTypeOK
    <2>2. RequestTypeOK' /\ BoundTypeOK'
      BY <1>3 DEF CancelWorkflow, RequestTypeOK, BoundTypeOK, reqVars, boundVars
    <2>3. ScanTypeOK'
      BY <1>3, FreeLock DEF CancelWorkflow, ScanTypeOK, scanVars
    <2>4. JobTypeOK'
      BY <1>1, <1>3, <2>1 DEF CancelWorkflow
    <2>5. RunTypeOK'
      BY <1>3, <2>1 DEF CancelWorkflow, RunTypeOK, RunStatuses
    <2>6. CASE cont[t] = "store"
      <3>1. ThreadTypeOK'
        BY <1>3, <2>6 DEF CancelWorkflow, ThreadTypeOK, PCs
      <3> QED BY <2>2, <2>3, <2>4, <2>5, <3>1
    <2>7. CASE cont[t] # "store"
      BY <1>3, <2>2, <2>3, <2>4, <2>5, <2>7, ExitType DEF CancelWorkflow
    <2> QED BY <2>6, <2>7
  <1>4. ASSUME NEW w \in Runs, NEW late \in SUBSET Jobs, CheckJobTimeouts(t, w, late)
        PROVE  TypeOK'
    <2>1. RunTypeOK' /\ RequestTypeOK'
      BY <1>4 DEF CheckJobTimeouts, RunTypeOK, RequestTypeOK, wfVars, reqVars
    <2>2. ScanTypeOK'
      BY <1>4, FreeLock DEF CheckJobTimeouts, ScanTypeOK, scanVars
    <2>3. ThreadTypeOK'
      BY <1>4 DEF CheckJobTimeouts, ThreadTypeOK, PCs
    <2>4. JobTypeOK'
      BY <1>1, <1>4 DEF CheckJobTimeouts
    <2>5. Cardinality(late) \in Nat
      BY <1>4, ConstantsAssumption, FS_Subset, FS_CardinalityType
    <2>6. BoundTypeOK'
      BY <1>4, <2>5 DEF CheckJobTimeouts, BoundTypeOK
    <2> QED BY <2>1, <2>2, <2>3, <2>4, <2>6
  <1> QED
    BY <1>2, <1>3, <1>4

LEMMA DeleteType ==
    ASSUME TypeOK, NEW w \in Runs, DeleteRun(w) PROVE TypeOK'
  <1>1. JobTypeOK' /\ RequestTypeOK' /\ ThreadTypeOK' /\ ScanTypeOK'
    BY DEF TypeOK, DeleteRun, JobTypeOK, RequestTypeOK, ThreadTypeOK, ScanTypeOK,
           jobVars, reqVars, threadVars, scanVars
  <1>2. RunTypeOK' /\ BoundTypeOK'
    BY DEF TypeOK, DeleteRun, RunTypeOK, BoundTypeOK
  <1> QED BY <1>1, <1>2 DEF TypeOK

\* Every step of the engine, its handlers and its watchers keeps the types.
LEMMA NextType ==
    ASSUME TypeOK, [Next]_vars PROVE TypeOK'
  <1>1. ASSUME NEW t \in Threads, ThreadStep(t) PROVE TypeOK'
    BY <1>1, SubmitType, DispatchType, CompletionType, CancelType DEF ThreadStep
  <1>2. ASSUME NEW t \in Threads, NEW w \in Runs,
               \/ HandleSubmitWorkflow(t, w) \/ RerunWorkflowRun(t, w)
               \/ DispatchWorkflow(t, w) \/ TriggerWorkflow(t, w)
        PROVE  TypeOK'
    BY <1>2, SubmitType
       DEF HandleSubmitWorkflow, RerunWorkflowRun, DispatchWorkflow, TriggerWorkflow
  <1>3. ASSUME NEW t \in Threads, NEW w \in Runs,
               HandleCancelWorkflow(t, w) \/ HandleCancelWorkflowRun(t, w)
        PROVE  TypeOK'
    BY <1>3, CancelType DEF HandleCancelWorkflow, HandleCancelWorkflowRun
  <1>4. CASE UNCHANGED vars
    BY <1>4 DEF TypeOK, RunTypeOK, JobTypeOK, RequestTypeOK, ThreadTypeOK, ScanTypeOK, BoundTypeOK,
                vars, wfVars, jobVars, reqVars, threadVars, scanVars, boundVars
  <1> QED
    BY <1>1, <1>2, <1>3, <1>4, RunnerType, CancelType, DeleteType DEF Next

-----------------------------------------------------------------------------
\* Type correctness of the engine: TypeOK holds in every reachable state.
THEOREM TypeCorrect == Spec => []TypeOK
  BY InitType, NextType, PTL DEF Spec
=============================================================================
