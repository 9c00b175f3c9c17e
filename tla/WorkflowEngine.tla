--------------------------- MODULE WorkflowEngine ---------------------------
(***************************************************************************)
(* The workflow engine of bleephub (bleephub/workflows.go) with the HTTP   *)
(* handlers that drive it (jobs.go, run_service.go, gh_actions_rest.go).   *)
(*                                                                         *)
(* A handler, or the timeout watcher of a run, is a goroutine.  One step   *)
(* of a goroutine is one critical section of store.mu, or one stretch of   *)
(* code between two critical sections that others can observe; whatever    *)
(* happens between two sections of the code may happen between two steps   *)
(* here.  The only section that takes several steps is the scan of         *)
(* dispatchReadyJobs, which visits the jobs in Go's arbitrary map order:   *)
(* it holds the variable lock while it scans.                              *)
(*                                                                         *)
(* Time is abstracted away: a job that was dispatched may exceed its       *)
(* timeout at any moment.  The message broker is Broker.tla; here a        *)
(* dispatched job is one that a runner may have and may report.            *)
(***************************************************************************)
EXTENDS Naturals, FiniteSets

CONSTANTS
    NumRuns,       \* bound: how many runs are ever submitted
    Jobs,          \* job keys
    Defs,          \* the workflow definitions a run may be submitted with
    Threads,       \* bound: goroutines that can be inside the engine at once
    Nobody,        \* value of lock when store.mu is free
    NoJob,         \* value of tj when no completion is being handled
    Names,         \* names of concurrency groups and matrix groups
    RunnerResults, \* result strings a runner may report
    MaxWorkflows,  \* maxConcurrentWorkflows, 0 for no cap
    MaxReports,    \* bound: completion reports per job (FinishJob, DELETE)
    MaxTimeouts,   \* bound: jobs that exceed their timeout
    MaxCancels,    \* bound: cancel requests
    MaxDeletes     \* bound: delete-run requests

Runs == 1 .. NumRuns

\* Go's empty string: an unset result, no group.
Empty == "empty"

(***************************************************************************)
(* A definition after expandMatrixJobs: the keys of its jobs, for each its *)
(* needs, if: condition, matrix group (Empty outside a matrix) and the     *)
(* max-parallel of its strategy (0 when absent), the jobs with             *)
(* continue-on-error and with fail-fast, and the concurrency group of the  *)
(* run (Empty for none).                                                   *)
(***************************************************************************)
Conds == {"none", "always", "failure", "success", "notFailure", "never"}

DefType(d) ==
    /\ d.jobs \subseteq Jobs
    /\ d.needs \in [Jobs -> SUBSET Jobs]
    /\ d.cond \in [Jobs -> Conds]
    /\ d.matrix \in [Jobs -> Names \cup {Empty}]
    /\ d.parallel \in [Jobs -> Nat]
    /\ d.continueOnError \subseteq Jobs
    /\ d.failFast \subseteq Jobs
    /\ d.group \in Names \cup {Empty}
    /\ d.cancelInProgress \in BOOLEAN

ASSUME ConstantsAssumption ==
    /\ NumRuns \in Nat
    /\ IsFiniteSet(Jobs)
    /\ \A d \in Defs : DefType(d)
    /\ Nobody \notin Threads /\ NoJob \notin Jobs
    /\ {MaxWorkflows, MaxReports, MaxTimeouts, MaxCancels, MaxDeletes} \subseteq Nat

VARIABLES
    def,       \* def[w]: the definition run w is (to be) submitted with
    nextRun,   \* the next run to be submitted; runs are numbered by CreatedAt
    stored,    \* the runs in store.Workflows
    wstatus,   \* Workflow.Status; "new" before the submission begins
    wresult,   \* Workflow.Result
    maxPar,    \* Workflow.MaxParallel
    jstatus,   \* WorkflowJob.Status
    jresult,   \* WorkflowJob.Result
    rstatus,   \* Job.Status of the job request in store.Jobs, "none" if absent
    rresult,   \* Job.Result of the job request
    reports,   \* completion reports received for a job
    pc,        \* pc[t]: where goroutine t is; "idle" when it has no work
    tw,        \* tw[t]: the run goroutine t works on, or 0
    tj,        \* tj[t]: the job whose completion t handles, or NoJob
    tres,      \* tres[t]: the result t wrote to the job request
    active,    \* active[t]: the run t is about to cancel, or 0
    cont,      \* cont[t]: what t does when its current subroutine returns
    todo,      \* todo[t]: toDispatch, queued jobs t has yet to send
    left,      \* left[t]: pending jobs the scan of t has yet to visit
    changed,   \* changed[t]: the scan of t changed a job
    lock,      \* the goroutine that scans, or Nobody
    timeouts, cancels, deletes   \* counters of the bounds

wfVars == <<def, nextRun, stored, wstatus, wresult, maxPar>>
jobVars == <<jstatus, jresult>>
reqVars == <<rstatus, rresult, reports>>
scanVars == <<todo, left, changed, lock>>
threadVars == <<pc, tw, tj, tres, active, cont>>
boundVars == <<timeouts, cancels, deletes>>
vars == <<wfVars, jobVars, reqVars, scanVars, threadVars, boundVars>>

-----------------------------------------------------------------------------

JobsOf(w) == def[w].jobs
GroupOf(w) == def[w].group
MatrixOf(w, j) == def[w].matrix[j]
NeedsOf(w, j) == def[w].needs[j]

Finished == {"completed", "skipped"}

\* normalizeResult: an unknown string is passed through, an empty one succeeds.
normalizeResult(r) ==
    IF r \in {"Succeeded", Empty} THEN "success"
    ELSE IF r = "Failed" THEN "failure"
    ELSE IF r = "Cancelled" THEN "cancelled"
    ELSE r

\* validateJobGraph: every need is a job of the definition, and no cycle.
ValidJobGraph(d) ==
    /\ \A j \in d.jobs : d.needs[j] \subseteq d.jobs
    /\ \A S \in SUBSET d.jobs : S # {} => \E j \in S : d.needs[j] \cap S = {}

\* Workflow.MaxParallel: the map order decides which strategy's value stays.
MaxParallelChoices(d) ==
    LET limits == {d.parallel[j] : j \in {k \in d.jobs : d.matrix[k] # Empty}} \ {0}
    IN  IF limits = {} THEN {0} ELSE limits

\* Mutant: one finished need is enough.
DepsFinished_Any(w, j) ==
    NeedsOf(w, j) # {} => \E k \in NeedsOf(w, j) : jstatus[w][k] \in Finished

DepsFinished(w, j) == \A k \in NeedsOf(w, j) : jstatus[w][k] \in Finished

AnyDepFailed(w, j) ==
    \E k \in NeedsOf(w, j) :
        jresult[w][k] # "success" /\ k \notin def[w].continueOnError

\* EvalExpr on the results of the dependencies, for the conditions of Conds.
EvalCond(w, j) ==
    LET results == {jresult[w][k] : k \in NeedsOf(w, j)}
    IN  CASE def[w].cond[j] = "never" -> FALSE
          [] def[w].cond[j] = "success" -> results \subseteq {"success", "skipped"}
          [] def[w].cond[j] = "failure" -> "failure" \in results
          [] def[w].cond[j] = "notFailure" -> "failure" \notin results
          [] OTHER -> TRUE

\* ExprContainsStatusFunction: always() or failure() occurs in the condition.
OverridesDepFailure(w, j) == def[w].cond[j] \in {"always", "failure", "notFailure"}

SkipJob(w, j) ==
    \/ ~ EvalCond(w, j)
    \/ AnyDepFailed(w, j) /\ ~ OverridesDepFailure(w, j)

MatrixActive(w, g) ==
    {k \in JobsOf(w) : jstatus[w][k] = "queued" /\ MatrixOf(w, k) = g}

\* Mutant: off by one.
AtMaxParallel_OffByOne(w, j) ==
    /\ maxPar[w] > 0
    /\ MatrixOf(w, j) # Empty
    /\ Cardinality(MatrixActive(w, MatrixOf(w, j)) \ {j}) > maxPar[w]

AtMaxParallel(w, j) ==
    /\ maxPar[w] > 0
    /\ MatrixOf(w, j) # Empty
    /\ Cardinality(MatrixActive(w, MatrixOf(w, j)) \ {j}) >= maxPar[w]

\* Mutant: the result is written to the status too.
CancelOpenJobs_BadStatus(w, S) ==
    /\ jstatus' = [jstatus EXCEPT ![w] =
                     [j \in Jobs |-> IF j \in S THEN "cancelled" ELSE jstatus[w][j]]]
    /\ jresult' = [jresult EXCEPT ![w] =
                     [j \in Jobs |-> IF j \in S THEN "cancelled" ELSE jresult[w][j]]]

CancelOpenJobs(w, S) ==
    /\ jstatus' = [jstatus EXCEPT ![w] =
                     [j \in Jobs |-> IF j \in S THEN "completed" ELSE jstatus[w][j]]]
    /\ jresult' = [jresult EXCEPT ![w] =
                     [j \in Jobs |-> IF j \in S THEN "cancelled" ELSE jresult[w][j]]]

\* Mutants: the scan revisits jobs that ended, a failed job is overlooked.
PendingJobs_Ended(w) == {j \in JobsOf(w) : jstatus[w][j] # "queued"}
FailedJobs_CancelledOnly(w) == {j \in JobsOf(w) : jresult[w][j] = "cancelled"}

PendingJobs(w) == {j \in JobsOf(w) : jstatus[w][j] = "pending"}
OpenJobs(w) == {j \in JobsOf(w) : jstatus[w][j] \notin Finished}
FailedJobs(w) == {j \in JobsOf(w) : jresult[w][j] \in {"failure", "cancelled"}}

RunningRuns == {w \in stored : wstatus[w] = "running"}

-----------------------------------------------------------------------------
Init ==
    /\ def \in [Runs -> Defs]
    /\ nextRun = 1
    /\ stored = {}
    /\ wstatus = [w \in Runs |-> "new"]
    /\ wresult = [w \in Runs |-> Empty]
    /\ maxPar = [w \in Runs |-> 0]
    /\ jstatus = [w \in Runs |-> [j \in Jobs |-> "pending"]]
    /\ jresult = [w \in Runs |-> [j \in Jobs |-> Empty]]
    /\ rstatus = [w \in Runs |-> [j \in Jobs |-> "none"]]
    /\ rresult = [w \in Runs |-> [j \in Jobs |-> Empty]]
    /\ reports = [w \in Runs |-> [j \in Jobs |-> 0]]
    /\ pc = [t \in Threads |-> "idle"]
    /\ tw = [t \in Threads |-> 0]
    /\ tj = [t \in Threads |-> NoJob]
    /\ tres = [t \in Threads |-> Empty]
    /\ active = [t \in Threads |-> 0]
    /\ cont = [t \in Threads |-> "end"]
    /\ todo = [t \in Threads |-> {}]
    /\ left = [t \in Threads |-> {}]
    /\ changed = [t \in Threads |-> FALSE]
    /\ lock = Nobody
    /\ timeouts = 0 /\ cancels = 0 /\ deletes = 0

-----------------------------------------------------------------------------
\* Moves of a goroutine.  Exit also forgets its local variables.
Goto(t, p) ==
    /\ pc' = [pc EXCEPT ![t] = p]
    /\ UNCHANGED <<tw, tj, tres, active, cont>>

Exit(t) ==
    /\ pc' = [pc EXCEPT ![t] = "idle"]
    /\ tw' = [tw EXCEPT ![t] = 0]
    /\ tj' = [tj EXCEPT ![t] = NoJob]
    /\ tres' = [tres EXCEPT ![t] = Empty]
    /\ active' = [active EXCEPT ![t] = 0]
    /\ cont' = [cont EXCEPT ![t] = "end"]

At(t, p) == pc[t] = p /\ lock = Nobody

-----------------------------------------------------------------------------
(***************************************************************************)
(* submitWorkflow up to its concurrency check, and its callers.  A request *)
(* that is refused, by the cap or for its job graph, changes nothing.      *)
(***************************************************************************)
SubmitWorkflow(t, w) ==
    /\ At(t, "idle") /\ w = nextRun /\ w \in Runs
    /\ ValidJobGraph(def[w])
    /\ nextRun' = nextRun + 1
    /\ wstatus' = [wstatus EXCEPT ![w] = "building"]
    /\ \E m \in MaxParallelChoices(def[w]) : maxPar' = [maxPar EXCEPT ![w] = m]
    /\ pc' = [pc EXCEPT ![t] = "lookup"]
    /\ tw' = [tw EXCEPT ![t] = w]
    /\ UNCHANGED <<def, stored, wresult, jobVars, reqVars, scanVars,
                   tj, tres, active, cont, boundVars>>

\* POST /api/v3/bleephub/workflow: the only caller that looks at the cap.
HandleSubmitWorkflow(t, w) ==
    /\ MaxWorkflows > 0 => Cardinality(RunningRuns) < MaxWorkflows
    /\ SubmitWorkflow(t, w)

\* Rerun: the cached definition of a stored run is submitted again.
RerunWorkflowRun(t, w) ==
    /\ \E v \in stored : def[v] = def[w]
    /\ SubmitWorkflow(t, w)

\* workflow_dispatch and the webhook trigger submit a stored workflow file.
DispatchWorkflow(t, w) == SubmitWorkflow(t, w)
TriggerWorkflow(t, w) == SubmitWorkflow(t, w)

\* The concurrency check, under a read lock that is released at its end.
LookupActive(t) ==
    LET w == tw[t]
        rivals == {v \in RunningRuns : GroupOf(v) = GroupOf(w)}
    IN
    /\ At(t, "lookup")
    /\ \/ /\ GroupOf(w) = Empty \/ rivals = {}
          /\ Goto(t, "store")
       \/ /\ GroupOf(w) # Empty
          /\ ~ def[w].cancelInProgress /\ rivals # {}
          /\ Goto(t, "enqueue")
       \/ /\ GroupOf(w) # Empty /\ def[w].cancelInProgress
          /\ \E v \in rivals : active' = [active EXCEPT ![t] = v]
          /\ pc' = [pc EXCEPT ![t] = "cancel"]
          /\ cont' = [cont EXCEPT ![t] = "store"]
          /\ UNCHANGED <<tw, tj, tres>>
    /\ UNCHANGED <<wfVars, jobVars, reqVars, scanVars, boundVars>>

\* Mutant: the early return is missing.
EnqueuePending_NoReturn(t) ==
    /\ At(t, "enqueue")
    /\ stored' = stored \cup {tw[t]}
    /\ wstatus' = [wstatus EXCEPT ![tw[t]] = "pending_concurrency"]
    /\ Goto(t, "dispatch")
    /\ UNCHANGED <<def, nextRun, wresult, maxPar, jobVars, reqVars, scanVars, boundVars>>

\* Queue this workflow behind the active one.
EnqueuePending(t) ==
    /\ At(t, "enqueue")
    /\ stored' = stored \cup {tw[t]}
    /\ wstatus' = [wstatus EXCEPT ![tw[t]] = "pending_concurrency"]
    /\ Exit(t)
    /\ UNCHANGED <<def, nextRun, wresult, maxPar, jobVars, reqVars, scanVars, boundVars>>

StoreRun(t) ==
    /\ At(t, "store")
    /\ stored' = stored \cup {tw[t]}
    /\ wstatus' = [wstatus EXCEPT ![tw[t]] = "running"]
    /\ Goto(t, "dispatch")
    /\ UNCHANGED <<def, nextRun, wresult, maxPar, jobVars, reqVars, scanVars, boundVars>>

-----------------------------------------------------------------------------
(***************************************************************************)
(* dispatchReadyJobs: a scan of the pending jobs under the lock, then the  *)
(* collected jobs are sent without it, until a scan changes nothing.       *)
(***************************************************************************)
ScanBegin(t) ==
    /\ At(t, "dispatch")
    /\ lock' = t
    /\ left' = [left EXCEPT ![t] = PendingJobs(tw[t])]
    /\ changed' = [changed EXCEPT ![t] = FALSE]
    /\ UNCHANGED <<wfVars, jobVars, reqVars, todo, threadVars, boundVars>>

\* A visited job stays pending while a need is open or its matrix group is full.
LeaveJob(t, w, j) ==
    /\ ~ DepsFinished(w, j) \/ (~ SkipJob(w, j) /\ AtMaxParallel(w, j))
    /\ UNCHANGED <<jobVars, todo, changed>>

SkipReadyJob(t, w, j) ==
    /\ DepsFinished(w, j) /\ SkipJob(w, j)
    /\ jstatus' = [jstatus EXCEPT ![w][j] = "skipped"]
    /\ jresult' = [jresult EXCEPT ![w][j] = "skipped"]
    /\ changed' = [changed EXCEPT ![t] = TRUE]
    /\ UNCHANGED todo

\* Mutants: the job is not collected, or not marked under the lock.
QueueReadyJob_NotCollected(t, w, j) ==
    /\ DepsFinished(w, j) /\ ~ SkipJob(w, j) /\ ~ AtMaxParallel(w, j)
    /\ jstatus' = [jstatus EXCEPT ![w][j] = "queued"]
    /\ changed' = [changed EXCEPT ![t] = TRUE]
    /\ UNCHANGED <<jresult, todo>>

QueueReadyJob_Unmarked(t, w, j) ==
    /\ DepsFinished(w, j) /\ ~ SkipJob(w, j) /\ ~ AtMaxParallel(w, j)
    /\ todo' = [todo EXCEPT ![t] = @ \cup {j}]
    /\ changed' = [changed EXCEPT ![t] = TRUE]
    /\ UNCHANGED jobVars

QueueReadyJob(t, w, j) ==
    /\ DepsFinished(w, j) /\ ~ SkipJob(w, j) /\ ~ AtMaxParallel(w, j)
    /\ jstatus' = [jstatus EXCEPT ![w][j] = "queued"]
    /\ todo' = [todo EXCEPT ![t] = @ \cup {j}]
    /\ changed' = [changed EXCEPT ![t] = TRUE]
    /\ UNCHANGED jresult

ScanJob(t, j) ==
    /\ lock = t /\ j \in left[t]
    /\ left' = [left EXCEPT ![t] = @ \ {j}]
    /\ \/ LeaveJob(t, tw[t], j)
       \/ SkipReadyJob(t, tw[t], j)
       \/ QueueReadyJob(t, tw[t], j)
    /\ UNCHANGED <<wfVars, reqVars, lock, threadVars, boundVars>>

\* The end of a scan: send what was collected, or return to the caller.
ScanEnd(t) ==
    /\ lock = t /\ left[t] = {}
    /\ lock' = Nobody
    /\ \/ changed[t] /\ Goto(t, "send")
       \/ ~ changed[t] /\ cont[t] = "check" /\ Goto(t, "check")
       \/ ~ changed[t] /\ cont[t] = "end" /\ Exit(t)
    /\ UNCHANGED <<wfVars, jobVars, reqVars, todo, left, changed, boundVars>>

\* dispatchWorkflowJob: the request is stored and the message is sent.
DispatchJob(t, j) ==
    /\ At(t, "send") /\ j \in todo[t]
    /\ todo' = [todo EXCEPT ![t] = @ \ {j}]
    /\ rstatus' = [rstatus EXCEPT ![tw[t]][j] = "queued"]
    /\ UNCHANGED <<wfVars, jobVars, rresult, reports, left, changed, lock,
                   threadVars, boundVars>>

\* Mutant: the loop ends after its first round and its caller with it.
DispatchLoop_Return(t) ==
    /\ At(t, "send") /\ todo[t] = {}
    /\ Exit(t)
    /\ UNCHANGED <<wfVars, jobVars, reqVars, scanVars, boundVars>>

DispatchLoop(t) ==
    /\ At(t, "send") /\ todo[t] = {}
    /\ Goto(t, "dispatch")
    /\ UNCHANGED <<wfVars, jobVars, reqVars, scanVars, boundVars>>

-----------------------------------------------------------------------------
(***************************************************************************)
(* The runner: it renews the request of a job it runs, reports the result  *)
(* with POST FinishJob and closes the request with DELETE AgentRequest.    *)
(***************************************************************************)
RenewRequest(w, j) ==
    /\ lock = Nobody
    /\ rstatus[w][j] = "queued"
    /\ rstatus' = [rstatus EXCEPT ![w][j] = "running"]
    /\ UNCHANGED <<wfVars, jobVars, rresult, reports, scanVars, threadVars, boundVars>>

Report(t, w, j, r) ==
    /\ At(t, "idle") /\ rstatus[w][j] # "none"
    /\ reports[w][j] < MaxReports
    /\ reports' = [reports EXCEPT ![w][j] = @ + 1]
    /\ rstatus' = [rstatus EXCEPT ![w][j] = "completed"]
    /\ rresult' = [rresult EXCEPT ![w][j] = r]
    /\ pc' = [pc EXCEPT ![t] = "complete"]
    /\ tw' = [tw EXCEPT ![t] = w]
    /\ tj' = [tj EXCEPT ![t] = j]
    /\ tres' = [tres EXCEPT ![t] = r]
    /\ UNCHANGED <<wfVars, jobVars, scanVars, active, cont, boundVars>>

\* An empty result becomes Succeeded here ...
FinishJob(t, w, j, r) ==
    Report(t, w, j, IF r = Empty THEN "Succeeded" ELSE r)

\* ... and keeps the earlier one here.
CompleteRequest(t, w, j, r) ==
    Report(t, w, j, IF r = Empty THEN rresult[w][j] ELSE r)

\* The matrix siblings that fail-fast cancels when job j ends with result r.
FailFastVictims(w, j, r) ==
    IF r = "failure" /\ MatrixOf(w, j) # Empty /\ j \in def[w].failFast
    THEN {k \in JobsOf(w) \ {j} : /\ MatrixOf(w, k) = MatrixOf(w, j)
                                  /\ jstatus[w][k] \in {"pending", "queued"}}
    ELSE {}

(***************************************************************************)
(* onJobCompleted, first section.  The handler reads job.Result after it   *)
(* released the lock, so it may see its own result or that of a report     *)
(* handled since.  The job is marked whatever its status is.               *)
(***************************************************************************)
OnJobCompleted(t) ==
    LET w == tw[t]
        j == tj[t]
    IN
    /\ At(t, "complete")
    /\ \/ /\ w \in stored
          /\ \E raw \in {tres[t], rresult[w][j]} :
               LET r == normalizeResult(raw)
                   victims == FailFastVictims(w, j, r)
               IN  /\ jstatus' = [jstatus EXCEPT ![w] = [k \in Jobs |->
                         IF k \in victims \cup {j} THEN "completed" ELSE @[k]]]
                   /\ jresult' = [jresult EXCEPT ![w] = [k \in Jobs |->
                         IF k = j THEN r ELSE
                         IF k \in victims THEN "cancelled" ELSE @[k]]]
          /\ pc' = [pc EXCEPT ![t] = "dispatch"]
          /\ cont' = [cont EXCEPT ![t] = "check"]
          /\ tj' = [tj EXCEPT ![t] = NoJob]
          /\ tres' = [tres EXCEPT ![t] = Empty]
          /\ UNCHANGED <<tw, active>>
       \/ /\ w \notin stored
          /\ Exit(t)
          /\ UNCHANGED jobVars
    /\ UNCHANGED <<wfVars, reqVars, scanVars, boundVars>>

\* onJobCompleted, last section: is the whole run done?
CheckAllDone(t) ==
    LET w == tw[t] IN
    /\ At(t, "check")
    /\ \/ /\ OpenJobs(w) = {}
          /\ wstatus' = [wstatus EXCEPT ![w] = "completed"]
          /\ wresult' = [wresult EXCEPT ![w] =
                           IF FailedJobs(w) # {} THEN "failure" ELSE "success"]
          /\ IF GroupOf(w) # Empty THEN Goto(t, "startPending") ELSE Exit(t)
       \/ /\ OpenJobs(w) # {}
          /\ Exit(t)
          /\ UNCHANGED <<wstatus, wresult>>
    /\ UNCHANGED <<def, nextRun, stored, maxPar, jobVars, reqVars, scanVars, boundVars>>

\* startPendingConcurrencyWorkflow: the oldest waiting run of the group.
StartPending(t) ==
    LET waiting == {v \in stored : /\ wstatus[v] = "pending_concurrency"
                                   /\ GroupOf(v) = GroupOf(tw[t])}
    IN
    /\ At(t, "startPending")
    /\ \/ /\ waiting = {}
          /\ Exit(t)
          /\ UNCHANGED wstatus
       \/ \E v \in waiting :
          /\ \A u \in waiting : v <= u
          /\ wstatus' = [wstatus EXCEPT ![v] = "running"]
          /\ tw' = [tw EXCEPT ![t] = v]
          /\ pc' = [pc EXCEPT ![t] = "dispatch"]
          /\ cont' = [cont EXCEPT ![t] = "end"]
          /\ UNCHANGED <<tj, tres, active>>
    /\ UNCHANGED <<def, nextRun, stored, wresult, maxPar, jobVars, reqVars,
                   scanVars, boundVars>>

-----------------------------------------------------------------------------
(***************************************************************************)
(* Cancellation.  handleCancelWorkflow refuses a completed run, but reads  *)
(* the status before cancelWorkflow takes the lock;                        *)
(* handleCancelWorkflowRun does not look at the status.                    *)
(***************************************************************************)
BeginCancel(t, w) ==
    /\ At(t, "idle") /\ w \in stored
    /\ cancels < MaxCancels
    /\ cancels' = cancels + 1
    /\ pc' = [pc EXCEPT ![t] = "cancel"]
    /\ active' = [active EXCEPT ![t] = w]
    /\ UNCHANGED <<wfVars, jobVars, reqVars, scanVars, tw, tj, tres, cont,
                   timeouts, deletes>>

HandleCancelWorkflow(t, w) == wstatus[w] # "completed" /\ BeginCancel(t, w)
HandleCancelWorkflowRun(t, w) == BeginCancel(t, w)

\* Mutant: the jobs already queued are left alone.
CancelWorkflow_PendingOnly(t) ==
    LET w == active[t] IN
    /\ At(t, "cancel")
    /\ CancelOpenJobs(w, {j \in JobsOf(w) : jstatus[w][j] = "pending"})
    /\ wstatus' = [wstatus EXCEPT ![w] = "completed"]
    /\ wresult' = [wresult EXCEPT ![w] = "cancelled"]
    /\ \/ /\ cont[t] = "store"
          /\ pc' = [pc EXCEPT ![t] = "store"]
          /\ active' = [active EXCEPT ![t] = 0]
          /\ cont' = [cont EXCEPT ![t] = "end"]
          /\ UNCHANGED <<tw, tj, tres>>
       \/ cont[t] = "end" /\ Exit(t)
    /\ UNCHANGED <<def, nextRun, stored, maxPar, reqVars, scanVars, boundVars>>

\* cancelWorkflow, on behalf of a request or of a submission (cont = "store").
CancelWorkflow(t) ==
    LET w == active[t] IN
    /\ At(t, "cancel")
    /\ CancelOpenJobs(w, {j \in JobsOf(w) : jstatus[w][j] \in {"pending", "queued"}})
    /\ wstatus' = [wstatus EXCEPT ![w] = "completed"]
    /\ wresult' = [wresult EXCEPT ![w] = "cancelled"]
    /\ \/ /\ cont[t] = "store"
          /\ pc' = [pc EXCEPT ![t] = "store"]
          /\ active' = [active EXCEPT ![t] = 0]
          /\ cont' = [cont EXCEPT ![t] = "end"]
          /\ UNCHANGED <<tw, tj, tres>>
       \/ cont[t] = "end" /\ Exit(t)
    /\ UNCHANGED <<def, nextRun, stored, maxPar, reqVars, scanVars, boundVars>>

(***************************************************************************)
(* checkJobTimeouts, run by the timeout watcher of run w: the jobs of late *)
(* are the queued ones that exceeded their timeout.  A watcher outlives    *)
(* the removal of its run from the store.                                  *)
(***************************************************************************)
CheckJobTimeouts(t, w, late) ==
    /\ At(t, "idle") /\ wstatus[w] = "running"
    /\ late # {} /\ \A j \in late : jstatus[w][j] = "queued"
    /\ timeouts + Cardinality(late) <= MaxTimeouts
    /\ timeouts' = timeouts + Cardinality(late)
    /\ CancelOpenJobs(w, late)
    /\ pc' = [pc EXCEPT ![t] = "dispatch"]
    /\ tw' = [tw EXCEPT ![t] = w]
    /\ UNCHANGED <<wfVars, reqVars, scanVars, tj, tres, active, cont, cancels, deletes>>

\* handleDeleteWorkflowRun: the run leaves the store, whatever its status.
DeleteRun(w) ==
    /\ lock = Nobody /\ w \in stored
    /\ deletes < MaxDeletes
    /\ deletes' = deletes + 1
    /\ stored' = stored \ {w}
    /\ UNCHANGED <<def, nextRun, wstatus, wresult, maxPar, jobVars, reqVars,
                   scanVars, threadVars, timeouts, cancels>>

-----------------------------------------------------------------------------
\* The steps a goroutine takes once it has started.
ThreadStep(t) ==
    \/ LookupActive(t) \/ EnqueuePending(t) \/ StoreRun(t)
    \/ ScanBegin(t) \/ (\E j \in Jobs : ScanJob(t, j)) \/ ScanEnd(t)
    \/ (\E j \in Jobs : DispatchJob(t, j)) \/ DispatchLoop(t)
    \/ OnJobCompleted(t) \/ CheckAllDone(t) \/ StartPending(t)
    \/ CancelWorkflow(t)

RunnerReport(w, j) ==
    \E t \in Threads, r \in RunnerResults :
        FinishJob(t, w, j, r) \/ CompleteRequest(t, w, j, r)

Next ==
    \/ \E t \in Threads : ThreadStep(t)
    \/ \E t \in Threads, w \in Runs :
          \/ HandleSubmitWorkflow(t, w) \/ RerunWorkflowRun(t, w)
          \/ DispatchWorkflow(t, w) \/ TriggerWorkflow(t, w)
          \/ HandleCancelWorkflow(t, w) \/ HandleCancelWorkflowRun(t, w)
    \/ \E w \in Runs, j \in Jobs : RenewRequest(w, j) \/ RunnerReport(w, j)
    \/ \E t \in Threads, w \in Runs, late \in SUBSET Jobs : CheckJobTimeouts(t, w, late)
    \/ \E w \in Runs : DeleteRun(w)

Spec == Init /\ [][Next]_vars

(***************************************************************************)
(* Fairness: the Go scheduler runs every goroutine that can run, and a     *)
(* runner eventually reports every job it was given.                       *)
(***************************************************************************)
Fairness ==
    /\ \A t \in Threads : WF_vars(ThreadStep(t))
    /\ \A w \in Runs, j \in Jobs : WF_vars(RunnerReport(w, j))

FairSpec == Spec /\ Fairness

-----------------------------------------------------------------------------
PCs == {"idle", "lookup", "enqueue", "store", "dispatch", "send", "complete",
        "check", "startPending", "cancel"}
RunStatuses == {"new", "building", "running", "pending_concurrency", "completed"}
JobStatuses == {"pending", "queued", "completed", "skipped"}
ReportedResults == RunnerResults \cup {Empty, "Succeeded"}
JobResults == RunnerResults \cup {Empty, "success", "failure", "cancelled", "skipped"}

RunTypeOK ==
    /\ def \in [Runs -> Defs]
    /\ nextRun \in Nat
    /\ stored \in SUBSET Runs
    /\ wstatus \in [Runs -> RunStatuses]
    /\ wresult \in [Runs -> {Empty, "success", "failure", "cancelled"}]
    /\ maxPar \in [Runs -> Nat]

JobTypeOK ==
    /\ jstatus \in [Runs -> [Jobs -> JobStatuses]]
    /\ jresult \in [Runs -> [Jobs -> JobResults]]

RequestTypeOK ==
    /\ rstatus \in [Runs -> [Jobs -> {"none", "queued", "running", "completed"}]]
    /\ rresult \in [Runs -> [Jobs -> ReportedResults]]
    /\ reports \in [Runs -> [Jobs -> Nat]]

ThreadTypeOK ==
    /\ pc \in [Threads -> PCs]
    /\ tw \in [Threads -> {0} \cup Runs]
    /\ tj \in [Threads -> {NoJob} \cup Jobs]
    /\ tres \in [Threads -> ReportedResults]
    /\ active \in [Threads -> {0} \cup Runs]
    /\ cont \in [Threads -> {"end", "check", "store"}]
    /\ \A t \in Threads :
          /\ pc[t] \notin {"idle", "cancel"} \/ cont[t] = "store" => tw[t] \in Runs
          /\ pc[t] = "complete" => tj[t] \in Jobs
          /\ pc[t] = "cancel" => active[t] \in Runs

ScanTypeOK ==
    /\ todo \in [Threads -> SUBSET Jobs]
    /\ left \in [Threads -> SUBSET Jobs]
    /\ changed \in [Threads -> BOOLEAN]
    /\ lock \in Threads \cup {Nobody}
    /\ \A t \in Threads : lock = t => pc[t] = "dispatch"

BoundTypeOK == timeouts \in Nat /\ cancels \in Nat /\ deletes \in Nat

\* Every variable holds a value of the Go type, or of the enumeration of
\* strings, that the code gives it; a goroutine at work knows the run and the
\* job it works on, and holds store.mu only inside the scan of
\* dispatchReadyJobs.
TypeOK ==
    RunTypeOK /\ JobTypeOK /\ RequestTypeOK /\ ThreadTypeOK /\ ScanTypeOK /\ BoundTypeOK

\* A job that dispatchReadyJobs queued, or that was handed to a runner, has
\* all its needs behind it: no race between overlapping scans, completions,
\* timeouts and cancellations starts a job too early.
NeedsFinished ==
    \A w \in Runs : \A j \in JobsOf(w) :
        jstatus[w][j] = "queued" \/ rstatus[w][j] # "none"
            => \A k \in NeedsOf(w, j) : jstatus[w][k] \in {"completed", "skipped"}

\* A job marked queued under the lock is not forgotten after the unlock: its
\* request is in store.Jobs or a goroutine is about to put it there.
QueuedJobHasOwner ==
    \A w \in Runs : \A j \in JobsOf(w) :
        jstatus[w][j] = "queued"
            => \/ rstatus[w][j] # "none"
               \/ \E t \in Threads : tw[t] = w /\ j \in todo[t]

\* Overlapping dispatch loops never send one job twice: what a goroutine is
\* about to send was not sent before and is nobody else's to send.
DispatchedAtMostOnce ==
    \A t \in Threads : \A j \in todo[t] :
        /\ rstatus[tw[t]][j] = "none"
        /\ \A u \in Threads \ {t} : tw[u] = tw[t] => j \notin todo[u]

\* A completed run, however it ended, has no job that could still start.
CompletedRunIsClosed ==
    \A w \in Runs : wstatus[w] = "completed" =>
        \A j \in JobsOf(w) : jstatus[w][j] \in {"completed", "skipped"}

\* Once nobody handles a completion of a run, its stored result is the one
\* its jobs have: success means that no job failed or was cancelled, failure
\* that one did.  (A report that arrives late rewrites both.)
ResultMatchesJobs ==
    \A w \in stored :
        (\A t \in Threads : tw[t] # w) =>
            LET bad == \E j \in JobsOf(w) : jresult[w][j] \in {"failure", "cancelled"}
            IN  /\ wresult[w] = "success" => ~ bad
                /\ wresult[w] = "failure" => bad

\* Concurrent scans of one run together respect the run's max-parallel.
MaxParallelBound ==
    \A w \in Runs : maxPar[w] > 0 =>
        \A j \in JobsOf(w) : MatrixOf(w, j) # Empty =>
            Cardinality({k \in JobsOf(w) : /\ jstatus[w][k] = "queued"
                                           /\ MatrixOf(w, k) = MatrixOf(w, j)})
                <= maxPar[w]

\* A run that waits for its concurrency group has not begun any work.
WaitingRunIsUntouched ==
    \A w \in Runs : wstatus[w] = "pending_concurrency" =>
        \A j \in JobsOf(w) : jstatus[w][j] = "pending" /\ rstatus[w][j] = "none"

\* A job that ended never becomes pending or queued again, whichever of
\* completion, timeout, fail-fast and cancellation reached it first.
FinishedStaysFinished ==
    [][\A w \in Runs, j \in Jobs :
          jstatus[w][j] \in {"completed", "skipped"}
              => jstatus'[w][j] \in {"completed", "skipped"}]_vars

-----------------------------------------------------------------------------
\* Liveness: a run that started comes to its end.
RunReachesEnd ==
    \A w \in Runs : wstatus[w] = "running" ~> wstatus[w] = "completed"

\* Liveness: a run queued behind the active run of its group gets its turn.
WaitingRunStarts ==
    \A w \in Runs : wstatus[w] = "pending_concurrency" ~> wstatus[w] = "running"

=============================================================================
