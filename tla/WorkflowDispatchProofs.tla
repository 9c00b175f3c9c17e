----------------------- MODULE WorkflowDispatchProofs -----------------------
(***************************************************************************)
(* The dispatch loop of the workflow engine is correct whatever overlaps:  *)
(* no job starts before its needs, none is sent twice, none is forgotten   *)
(* between the unlock and the send, and none that ended is revived.        *)
(*                                                                         *)
(* The four properties are proved together, from the inductive invariant   *)
(* SchedInv.  It says what the lock protects (the jobs a scan has yet to   *)
(* visit are pending) and what a goroutine owns between the unlock and the *)
(* send (the jobs of toDispatch, which nobody has sent or collected).      *)
(***************************************************************************)
EXTENDS WorkflowEngineProofs

NeedsDone(w, j) == \A k \in NeedsOf(w, j) : jstatus[w][k] \in Finished

\* Nobody changes the jobs that the scan of the lock's holder has yet to visit.
LeftIsPending ==
    \A t \in Threads : lock = t => \A j \in left[t] : jstatus[tw[t]][j] = "pending"

\* Only a goroutine inside dispatchReadyJobs has jobs to send, and a scan that
\* collected one knows that it changed something.
TodoIsBusy ==
    \A t \in Threads : todo[t] # {} => pc[t] = "send" \/ (lock = t /\ changed[t])

\* What is to be sent is ready.
TodoIsReady == \A t \in Threads : \A j \in todo[t] : NeedsDone(tw[t], j)

\* A pending job was neither sent nor collected.
PendingIsUnsent ==
    \A w \in Runs, j \in Jobs : jstatus[w][j] = "pending" =>
        /\ rstatus[w][j] = "none"
        /\ \A t \in Threads : tw[t] = w => j \notin todo[t]

SchedInv ==
    /\ LeftIsPending /\ TodoIsBusy /\ TodoIsReady /\ PendingIsUnsent
    /\ NeedsFinished /\ QueuedJobHasOwner /\ DispatchedAtMostOnce

-----------------------------------------------------------------------------
\* Needs are jobs, and a goroutine with jobs to send has a run.
LEMMA NeedsAreJobs ==
    ASSUME TypeOK, NEW w \in Runs, NEW j \in Jobs PROVE NeedsOf(w, j) \subseteq Jobs
  BY DefFacts DEF TypeOK, DefType, NeedsOf

LEMMA BusyHasRun ==
    ASSUME TypeOK, TodoIsBusy, NEW t \in Threads, todo[t] # {}
    PROVE  tw[t] \in Runs
  BY DEF TypeOK, ThreadTypeOK, ScanTypeOK, TodoIsBusy

LEMMA TodoAreJobs ==
    ASSUME TypeOK, NEW t \in Threads PROVE todo[t] \subseteq Jobs
  BY DEF TypeOK, ScanTypeOK

\* In the initial state nothing is queued, collected or sent.
LEMMA InitSched == Init => SchedInv
  <1> SUFFICES ASSUME Init PROVE SchedInv
    OBVIOUS
  <1>1. /\ \A w \in Runs, j \in Jobs : jstatus[w][j] = "pending" /\ rstatus[w][j] = "none"
        /\ \A t \in Threads : todo[t] = {}
        /\ lock = Nobody
    BY DEF Init
  <1>2. LeftIsPending
    BY <1>1, ConstantsAssumption DEF LeftIsPending
  <1>3. \A w \in Runs : JobsOf(w) \subseteq Jobs
    BY InitType, DefFacts DEF TypeOK
  <1>4. TodoIsBusy /\ TodoIsReady /\ PendingIsUnsent /\ DispatchedAtMostOnce
    BY <1>1 DEF TodoIsBusy, TodoIsReady, PendingIsUnsent, DispatchedAtMostOnce
  <1>5. NeedsFinished /\ QueuedJobHasOwner
    BY <1>1, <1>3 DEF NeedsFinished, QueuedJobHasOwner
  <1> QED BY <1>2, <1>4, <1>5 DEF SchedInv

-----------------------------------------------------------------------------
(***************************************************************************)
(* What every step other than the scan and the send does to the variables  *)
(* of SchedInv: jobs may end, and a goroutine that has jobs to send stays  *)
(* where it is.                                                            *)
(***************************************************************************)
JobsMayEnd ==
    \A w \in Runs, j \in Jobs : jstatus'[w][j] \in {jstatus[w][j], "completed"}

RequestsStay ==
    \A w \in Runs, j \in Jobs : rstatus'[w][j] = "none" <=> rstatus[w][j] = "none"

SendersStay ==
    \A t \in Threads : todo[t] # {} => tw'[t] = tw[t] /\ pc'[t] = pc[t]

Quiet ==
    /\ lock = Nobody /\ UNCHANGED <<lock, todo, def>>
    /\ JobsMayEnd /\ RequestsStay /\ SendersStay

\* A goroutine that moves, and was not about to send, leaves the others alone.
LEMMA MoverIsNotSender ==
    ASSUME TypeOK, TodoIsBusy, NEW t \in Threads, lock = Nobody,
           pc[t] # "send" \/ todo[t] = {},
           \A u \in Threads \ {t} : tw'[u] = tw[u] /\ pc'[u] = pc[u]
    PROVE  SendersStay
  BY ConstantsAssumption DEF TodoIsBusy, SendersStay

\* Goto and Exit touch one goroutine.
LEMMA MovesAreLocal ==
    ASSUME TypeOK, NEW t \in Threads, NEW p, Goto(t, p) \/ Exit(t)
    PROVE  \A u \in Threads \ {t} : tw'[u] = tw[u] /\ pc'[u] = pc[u]
  BY DEF TypeOK, ThreadTypeOK, Goto, Exit

\* CancelOpenJobs ends jobs and does nothing else to a status.
LEMMA CancelEnds ==
    ASSUME TypeOK, NEW v \in Runs, NEW S, CancelOpenJobs(v, S) PROVE JobsMayEnd
  BY DEF TypeOK, JobTypeOK, CancelOpenJobs, JobsMayEnd

\* The steps of a submission are quiet.
LEMMA SubmitQuiet ==
    ASSUME TypeOK, TodoIsBusy, NEW t \in Threads,
           \/ \E w \in Runs : SubmitWorkflow(t, w)
           \/ LookupActive(t) \/ EnqueuePending(t) \/ StoreRun(t)
    PROVE  Quiet
  <1>1. /\ lock = Nobody /\ UNCHANGED <<lock, todo, def, jstatus, rstatus>>
        /\ pc[t] \in {"idle", "lookup", "enqueue", "store"}
    BY DEF SubmitWorkflow, LookupActive, EnqueuePending, StoreRun, At, scanVars, wfVars,
           jobVars, reqVars
  <1>2. \A u \in Threads \ {t} : tw'[u] = tw[u] /\ pc'[u] = pc[u]
    BY DEF SubmitWorkflow, LookupActive, EnqueuePending, StoreRun, Goto, Exit, TypeOK, ThreadTypeOK
  <1>3. SendersStay
    BY <1>1, <1>2, MoverIsNotSender
  <1> QED BY <1>1, <1>3 DEF Quiet, JobsMayEnd, RequestsStay

\* The steps of a completion, and the loop of dispatchReadyJobs, are quiet.
LEMMA CompletionQuiet ==
    ASSUME TypeOK, TodoIsBusy, NEW t \in Threads,
           OnJobCompleted(t) \/ CheckAllDone(t) \/ StartPending(t) \/ DispatchLoop(t)
    PROVE  Quiet
  <1>1. /\ lock = Nobody /\ UNCHANGED <<lock, todo, def, rstatus>>
        /\ pc[t] # "send" \/ todo[t] = {}
    BY DEF OnJobCompleted, CheckAllDone, StartPending, DispatchLoop, At, scanVars, wfVars, reqVars
  <1>2. \A u \in Threads \ {t} : tw'[u] = tw[u] /\ pc'[u] = pc[u]
    <2>1. CASE OnJobCompleted(t)
      BY <2>1 DEF OnJobCompleted, Exit, TypeOK, ThreadTypeOK
    <2>2. CASE CheckAllDone(t) \/ DispatchLoop(t)
      BY <2>2, MovesAreLocal DEF CheckAllDone, DispatchLoop
    <2>3. CASE StartPending(t)
      BY <2>3 DEF StartPending, Exit, TypeOK, ThreadTypeOK
    <2> QED BY <2>1, <2>2, <2>3
  <1>3. SendersStay
    BY <1>1, <1>2, MoverIsNotSender
  <1>4. JobsMayEnd
    <2>1. CASE OnJobCompleted(t) /\ tw[t] \in stored
      <3>1. tw[t] \in Runs
        BY <2>1 DEF OnJobCompleted, At, TypeOK, ThreadTypeOK
      <3>2. PICK S : jstatus' = [jstatus EXCEPT ![tw[t]] =
                                   [k \in Jobs |-> IF k \in S THEN "completed" ELSE jstatus[tw[t]][k]]]
        BY <2>1, <3>1 DEF OnJobCompleted, TypeOK, JobTypeOK
      <3> QED BY <3>1, <3>2 DEF TypeOK, JobTypeOK, JobsMayEnd
    <2>2. CASE ~ (OnJobCompleted(t) /\ tw[t] \in stored)
      <3>1. UNCHANGED jstatus
        BY <2>2 DEF OnJobCompleted, CheckAllDone, StartPending, DispatchLoop, jobVars
      <3> QED BY <3>1 DEF JobsMayEnd
    <2> QED BY <2>1, <2>2
  <1> QED BY <1>1, <1>3, <1>4 DEF Quiet, RequestsStay

\* The requests of a runner are quiet: a request that exists stays.
LEMMA RunnerQuiet ==
    ASSUME TypeOK, TodoIsBusy, NEW w \in Runs, NEW j \in Jobs,
           RenewRequest(w, j) \/ RunnerReport(w, j)
    PROVE  Quiet
  <1>1. CASE RenewRequest(w, j)
    BY <1>1 DEF RenewRequest, Quiet, JobsMayEnd, RequestsStay, SendersStay, TypeOK, RequestTypeOK,
                wfVars, jobVars, scanVars, threadVars
  <1>2. ASSUME NEW t \in Threads, NEW r, Report(t, w, j, r) PROVE Quiet
    <2>1. \A u \in Threads \ {t} : tw'[u] = tw[u] /\ pc'[u] = pc[u]
      BY <1>2 DEF Report, TypeOK, ThreadTypeOK
    <2>2. SendersStay
      BY <1>2, <2>1, MoverIsNotSender DEF Report, At
    <2>3. RequestsStay
      BY <1>2 DEF Report, RequestsStay, TypeOK, RequestTypeOK
    <2> QED
      BY <1>2, <2>2, <2>3 DEF Report, At, Quiet, JobsMayEnd, wfVars, jobVars, scanVars
  <1> QED
    BY <1>1, <1>2 DEF RunnerReport, FinishJob, CompleteRequest

\* Cancellation, timeouts and removal are quiet: they end jobs.
LEMMA CancelQuiet ==
    ASSUME TypeOK, TodoIsBusy, NEW t \in Threads,
           \/ CancelWorkflow(t)
           \/ \E w \in Runs : BeginCancel(t, w)
           \/ \E w \in Runs, late \in SUBSET Jobs : CheckJobTimeouts(t, w, late)
    PROVE  Quiet
  <1>1. /\ lock = Nobody /\ UNCHANGED <<lock, todo, def, rstatus>>
        /\ pc[t] \in {"idle", "cancel"}
    BY DEF CancelWorkflow, BeginCancel, CheckJobTimeouts, At, scanVars, wfVars, reqVars
  <1>2. \A u \in Threads \ {t} : tw'[u] = tw[u] /\ pc'[u] = pc[u]
    BY DEF CancelWorkflow, BeginCancel, CheckJobTimeouts, Exit, TypeOK, ThreadTypeOK
  <1>3. SendersStay
    BY <1>1, <1>2, MoverIsNotSender
  <1>4. JobsMayEnd
    <2>1. CASE CancelWorkflow(t)
      BY <2>1, CancelEnds DEF CancelWorkflow, At, TypeOK, ThreadTypeOK
    <2>2. ASSUME NEW w \in Runs, BeginCancel(t, w) PROVE JobsMayEnd
      BY <2>2 DEF BeginCancel, JobsMayEnd, jobVars
    <2>3. ASSUME NEW w \in Runs, NEW late \in SUBSET Jobs, CheckJobTimeouts(t, w, late)
          PROVE  JobsMayEnd
      BY <2>3, CancelEnds DEF CheckJobTimeouts
    <2> QED BY <2>1, <2>2, <2>3
  <1> QED BY <1>1, <1>3, <1>4 DEF Quiet, RequestsStay

LEMMA DeleteQuiet ==
    ASSUME TypeOK, NEW w \in Runs, DeleteRun(w) PROVE Quiet
  BY DEF DeleteRun, Quiet, JobsMayEnd, RequestsStay, SendersStay, jobVars, reqVars,
         scanVars, threadVars

\* Every step is quiet, or a step of a scan, or a send.
LEMMA StepKinds ==
    ASSUME TypeOK, TodoIsBusy, Next
    PROVE  \/ Quiet
           \/ \E t \in Threads : ScanBegin(t) \/ ScanEnd(t)
           \/ \E t \in Threads, j \in Jobs : ScanJob(t, j) \/ DispatchJob(t, j)
  <1>1. ASSUME NEW t \in Threads, ThreadStep(t)
        PROVE  \/ Quiet \/ ScanBegin(t) \/ ScanEnd(t)
               \/ \E j \in Jobs : ScanJob(t, j) \/ DispatchJob(t, j)
    BY <1>1, SubmitQuiet, CompletionQuiet, CancelQuiet DEF ThreadStep
  <1>2. ASSUME NEW t \in Threads, NEW w \in Runs,
               \/ HandleSubmitWorkflow(t, w) \/ RerunWorkflowRun(t, w)
               \/ DispatchWorkflow(t, w) \/ TriggerWorkflow(t, w)
        PROVE  Quiet
    BY <1>2, SubmitQuiet
       DEF HandleSubmitWorkflow, RerunWorkflowRun, DispatchWorkflow, TriggerWorkflow
  <1>3. ASSUME NEW t \in Threads, NEW w \in Runs,
               HandleCancelWorkflow(t, w) \/ HandleCancelWorkflowRun(t, w)
        PROVE  Quiet
    BY <1>3, CancelQuiet DEF HandleCancelWorkflow, HandleCancelWorkflowRun
  <1> QED
    BY <1>1, <1>2, <1>3, RunnerQuiet, CancelQuiet, DeleteQuiet DEF Next

-----------------------------------------------------------------------------
\* What every step does to a job: one that ended stays ended, and none
\* becomes pending.
JobsAdvance ==
    \A w \in Runs, j \in Jobs :
        /\ jstatus[w][j] \in Finished => jstatus'[w][j] \in Finished
        /\ jstatus'[w][j] = "pending" => jstatus[w][j] = "pending"

LEMMA DoneStaysDone ==
    ASSUME TypeOK, JobsAdvance, UNCHANGED def, NEW w \in Runs, NEW j \in Jobs, NeedsDone(w, j)
    PROVE  NeedsDone(w, j)'
  BY NeedsAreJobs DEF JobsAdvance, NeedsDone, NeedsOf

LEMMA QuietAdvances ==
    ASSUME TypeOK, Quiet PROVE JobsAdvance
  BY DEF Quiet, JobsMayEnd, JobsAdvance, Finished

\* A quiet step keeps the invariant.
LEMMA QuietSched ==
    ASSUME TypeOK, TypeOK', SchedInv, Quiet PROVE SchedInv'
  <1> USE DEF SchedInv
  <1>1. JobsAdvance
    BY QuietAdvances
  <1>2. \A t \in Threads : todo'[t] = todo[t] /\ lock' # t
    BY ConstantsAssumption DEF Quiet
  <1>3. LeftIsPending'
    BY <1>2 DEF LeftIsPending
  <1>4. TodoIsBusy'
    BY <1>2, ConstantsAssumption DEF TodoIsBusy, Quiet, SendersStay
  <1>5. \A t \in Threads : \A j \in todo[t] :
            j \in Jobs /\ tw'[t] = tw[t] /\ tw[t] \in Runs
    BY BusyHasRun, TodoAreJobs DEF Quiet, SendersStay
  <1>6. TodoIsReady'
    <2> SUFFICES ASSUME NEW t \in Threads, NEW j \in todo'[t] PROVE NeedsDone(tw[t], j)'
      BY <1>2, <1>5 DEF TodoIsReady
    <2> QED
      BY <1>1, <1>2, <1>5, DoneStaysDone DEF TodoIsReady, Quiet
  <1>7. PendingIsUnsent'
    <2> SUFFICES ASSUME NEW w \in Runs, NEW j \in Jobs, jstatus'[w][j] = "pending"
                 PROVE  /\ rstatus'[w][j] = "none"
                        /\ \A t \in Threads : tw'[t] = w => j \notin todo'[t]
      BY DEF PendingIsUnsent
    <2>1. jstatus[w][j] = "pending"
      BY <1>1 DEF JobsAdvance
    <2> QED
      BY <1>2, <1>5, <2>1 DEF PendingIsUnsent, Quiet, RequestsStay
  <1>8. NeedsFinished'
    <2> SUFFICES ASSUME NEW w \in Runs, NEW j \in JobsOf(w),
                        jstatus'[w][j] = "queued" \/ rstatus'[w][j] # "none"
                 PROVE  NeedsDone(w, j)'
      BY DEF NeedsFinished, NeedsDone, Finished, JobsOf, NeedsOf, Quiet
    <2>1. j \in Jobs
      BY DefFacts DEF TypeOK
    <2>2. jstatus[w][j] = "queued" \/ rstatus[w][j] # "none"
      BY <2>1 DEF Quiet, JobsMayEnd, RequestsStay
    <2>3. NeedsDone(w, j)
      BY <2>2 DEF NeedsFinished, NeedsDone, Finished
    <2> QED BY <1>1, <2>1, <2>3, DoneStaysDone DEF Quiet
  <1>9. QueuedJobHasOwner'
    <2> SUFFICES ASSUME NEW w \in Runs, NEW j \in JobsOf(w), jstatus'[w][j] = "queued",
                        rstatus'[w][j] = "none"
                 PROVE  \E t \in Threads : tw'[t] = w /\ j \in todo'[t]
      BY DEF QueuedJobHasOwner, JobsOf, Quiet
    <2>1. j \in Jobs
      BY DefFacts DEF TypeOK
    <2>2. jstatus[w][j] = "queued" /\ rstatus[w][j] = "none"
      BY <2>1 DEF Quiet, JobsMayEnd, RequestsStay
    <2> QED BY <1>2, <1>5, <2>2 DEF QueuedJobHasOwner
  <1>10. DispatchedAtMostOnce'
    <2> SUFFICES ASSUME NEW t \in Threads, NEW j \in todo'[t]
                 PROVE  /\ rstatus'[tw'[t]][j] = "none"
                        /\ \A u \in Threads \ {t} : tw'[u] = tw'[t] => j \notin todo'[u]
      BY DEF DispatchedAtMostOnce
    <2>1. rstatus'[tw'[t]][j] = "none"
      BY <1>2, <1>5 DEF DispatchedAtMostOnce, Quiet, RequestsStay
    <2>2. \A u \in Threads \ {t} : tw'[u] = tw'[t] => j \notin todo'[u]
      BY <1>2, <1>5 DEF DispatchedAtMostOnce
    <2> QED BY <2>1, <2>2
  <1> QED BY <1>3, <1>4, <1>6, <1>7, <1>8, <1>9, <1>10

\* Taking the lock: the scan begins with pending jobs and nothing collected.
LEMMA ScanBeginSched ==
    ASSUME TypeOK, SchedInv, NEW t \in Threads, ScanBegin(t) PROVE SchedInv' /\ JobsAdvance
  <1> USE DEF SchedInv
  <1>1. /\ UNCHANGED <<def, jstatus, rstatus, todo, tw, pc>>
        /\ lock = Nobody /\ lock' = t /\ pc[t] = "dispatch"
        /\ left'[t] = PendingJobs(tw[t])
    BY DEF ScanBegin, At, wfVars, jobVars, reqVars, threadVars, TypeOK, ScanTypeOK
  <1>2. LeftIsPending'
    BY <1>1 DEF LeftIsPending, PendingJobs
  <1>3. TodoIsBusy'
    BY <1>1, ConstantsAssumption DEF TodoIsBusy
  <1>4. TodoIsReady' /\ PendingIsUnsent' /\ NeedsFinished' /\ QueuedJobHasOwner'
        /\ DispatchedAtMostOnce'
    BY <1>1 DEF TodoIsReady, NeedsDone, PendingIsUnsent, NeedsFinished, QueuedJobHasOwner,
                DispatchedAtMostOnce, JobsOf, NeedsOf
  <1>5. JobsAdvance
    BY <1>1 DEF JobsAdvance
  <1> QED BY <1>2, <1>3, <1>4, <1>5

\* Releasing it: a goroutine that returns has nothing left to send.
LEMMA ScanEndSched ==
    ASSUME TypeOK, SchedInv, NEW t \in Threads, ScanEnd(t) PROVE SchedInv' /\ JobsAdvance
  <1> USE DEF SchedInv
  <1>1. /\ UNCHANGED <<def, jstatus, rstatus, todo>>
        /\ lock = t /\ lock' = Nobody /\ pc[t] = "dispatch"
    BY DEF ScanEnd, wfVars, jobVars, reqVars, TypeOK, ScanTypeOK
  <1>2. LeftIsPending' /\ JobsAdvance
    BY <1>1, ConstantsAssumption DEF LeftIsPending, JobsAdvance
  <1>3. \A u \in Threads \ {t} : tw'[u] = tw[u] /\ pc'[u] = pc[u]
    BY DEF ScanEnd, Goto, Exit, TypeOK, ThreadTypeOK
  <1>4. todo[t] # {} => tw'[t] = tw[t] /\ pc'[t] = "send"
    <2> SUFFICES ASSUME todo[t] # {} PROVE tw'[t] = tw[t] /\ pc'[t] = "send"
      OBVIOUS
    <2>1. changed[t]
      BY <1>1 DEF TodoIsBusy
    <2>2. Goto(t, "send")
      BY <2>1 DEF ScanEnd
    <2> QED BY <2>2 DEF Goto, TypeOK, ThreadTypeOK
  <1>5. \A u \in Threads : todo[u] # {} => tw'[u] = tw[u]
    BY <1>3, <1>4
  <1>6. TodoIsBusy'
    BY <1>1, <1>3, <1>4, ConstantsAssumption DEF TodoIsBusy
  <1>7. TodoIsReady' /\ PendingIsUnsent' /\ NeedsFinished'
    BY <1>1, <1>5 DEF TodoIsReady, NeedsDone, PendingIsUnsent, NeedsFinished, JobsOf, NeedsOf
  <1>8. QueuedJobHasOwner' /\ DispatchedAtMostOnce'
    BY <1>1, <1>5 DEF QueuedJobHasOwner, DispatchedAtMostOnce, JobsOf
  <1> QED BY <1>2, <1>6, <1>7, <1>8

\* A send: the job leaves toDispatch and gets its request, in one step.
LEMMA DispatchSched ==
    ASSUME TypeOK, SchedInv, NEW t \in Threads, NEW j \in Jobs, DispatchJob(t, j)
    PROVE  SchedInv' /\ JobsAdvance
  <1> USE DEF SchedInv
  <1>1. /\ UNCHANGED <<def, jstatus, tw, pc, left, changed, lock>>
        /\ lock = Nobody /\ pc[t] = "send" /\ j \in todo[t] /\ tw[t] \in Runs
        /\ \A u \in Threads : todo'[u] = IF u = t THEN todo[t] \ {j} ELSE todo[u]
    BY DEF DispatchJob, At, wfVars, jobVars, threadVars, TypeOK, ScanTypeOK, ThreadTypeOK
  <1>2. \A w \in Runs, k \in Jobs :
            rstatus'[w][k] = IF w = tw[t] /\ k = j THEN "queued" ELSE rstatus[w][k]
    BY <1>1 DEF DispatchJob, TypeOK, RequestTypeOK
  <1>3. LeftIsPending' /\ JobsAdvance
    BY <1>1 DEF LeftIsPending, JobsAdvance
  <1>4. TodoIsBusy'
    BY <1>1 DEF TodoIsBusy
  <1>5. TodoIsReady'
    BY <1>1 DEF TodoIsReady, NeedsDone, NeedsOf
  <1>6. jstatus[tw[t]][j] # "pending"
    BY <1>1 DEF PendingIsUnsent
  <1>7. PendingIsUnsent'
    BY <1>1, <1>2, <1>6 DEF PendingIsUnsent
  <1>8. \A w \in Runs : JobsOf(w) \subseteq Jobs
    BY DefFacts DEF TypeOK
  <1>9. NeedsFinished'
    <2>1. NeedsDone(tw[t], j)
      BY <1>1 DEF TodoIsReady
    <2> QED BY <1>1, <1>2, <1>8, <2>1 DEF NeedsFinished, NeedsDone, Finished, JobsOf, NeedsOf
  <1>10. QueuedJobHasOwner'
    BY <1>1, <1>2, <1>8 DEF QueuedJobHasOwner, JobsOf
  <1>11. DispatchedAtMostOnce'
    <2> SUFFICES ASSUME NEW u \in Threads, NEW k \in todo'[u]
                 PROVE  /\ rstatus'[tw[u]][k] = "none"
                        /\ \A v \in Threads \ {u} : tw[v] = tw[u] => k \notin todo'[v]
      BY <1>1 DEF DispatchedAtMostOnce
    <2>1. k \in todo[u] /\ k \in Jobs /\ tw[u] \in Runs
      BY <1>1, BusyHasRun, TodoAreJobs
    <2>2. ~ (tw[u] = tw[t] /\ k = j)
      BY <1>1, <2>1 DEF DispatchedAtMostOnce
    <2> QED BY <1>1, <1>2, <2>1, <2>2 DEF DispatchedAtMostOnce
  <1> QED BY <1>3, <1>4, <1>5, <1>7, <1>9, <1>10, <1>11

(***************************************************************************)
(* A visit of the scan: the job is left alone, skipped, or queued and      *)
(* collected.  It was pending, so nobody had collected or sent it.         *)
(***************************************************************************)
LEMMA ScanJobSched ==
    ASSUME TypeOK, SchedInv, NEW t \in Threads, NEW j \in Jobs, ScanJob(t, j)
    PROVE  SchedInv' /\ JobsAdvance
  <1> USE DEF SchedInv
  <1> DEFINE w == tw[t]
  <1>1. /\ UNCHANGED <<def, rstatus, tw, pc, lock>>
        /\ lock = t /\ j \in left[t]
        /\ left'[t] = left[t] \ {j}
        /\ w \in Runs
    BY DEF ScanJob, wfVars, reqVars, threadVars, TypeOK, ScanTypeOK, ThreadTypeOK
  <1>2. /\ jstatus[w][j] = "pending" /\ rstatus[w][j] = "none"
        /\ \A u \in Threads : tw[u] = w => j \notin todo[u]
    BY <1>1 DEF LeftIsPending, PendingIsUnsent
  <1>3. \A v \in Runs : JobsOf(v) \subseteq Jobs
    BY DefFacts DEF TypeOK
  <1>4. \A u \in Threads : lock' = u => u = t
    BY <1>1
  <1>5. CASE LeaveJob(t, w, j)
    <2>1. UNCHANGED <<jstatus, todo, changed>>
      BY <1>5 DEF LeaveJob, jobVars
    <2>2. LeftIsPending' /\ TodoIsBusy' /\ JobsAdvance
      BY <1>1, <1>4, <2>1 DEF LeftIsPending, TodoIsBusy, JobsAdvance
    <2>3. TodoIsReady' /\ PendingIsUnsent' /\ NeedsFinished' /\ QueuedJobHasOwner'
          /\ DispatchedAtMostOnce'
      BY <1>1, <2>1 DEF TodoIsReady, NeedsDone, PendingIsUnsent, NeedsFinished,
                        QueuedJobHasOwner, DispatchedAtMostOnce, JobsOf, NeedsOf
    <2> QED BY <2>2, <2>3
  <1>6. ASSUME NEW s \in {"skipped", "queued"}, jstatus' = [jstatus EXCEPT ![w][j] = s],
               changed' = [changed EXCEPT ![t] = TRUE]
        PROVE  /\ JobsAdvance /\ LeftIsPending'
               /\ \A v \in Runs, k \in Jobs :
                     jstatus'[v][k] = IF v = w /\ k = j THEN s ELSE jstatus[v][k]
               /\ \A u \in Threads : changed[u] => changed'[u]
               /\ changed'[t]
    <2>1. \A v \in Runs, k \in Jobs :
              jstatus'[v][k] = IF v = w /\ k = j THEN s ELSE jstatus[v][k]
      BY <1>1, <1>6 DEF TypeOK, JobTypeOK
    <2>2. JobsAdvance
      BY <1>2, <2>1 DEF JobsAdvance, Finished
    <2>3. left[t] \subseteq Jobs
      BY DEF TypeOK, ScanTypeOK
    <2>4. LeftIsPending'
      BY <1>1, <1>4, <2>1, <2>3 DEF LeftIsPending
    <2>5. (\A u \in Threads : changed[u] => changed'[u]) /\ changed'[t]
      BY <1>6 DEF TypeOK, ScanTypeOK
    <2> QED BY <2>1, <2>2, <2>4, <2>5
  <1>7. CASE SkipReadyJob(t, w, j)
    <2>1. UNCHANGED todo
      BY <1>7 DEF SkipReadyJob
    <2>2. /\ JobsAdvance /\ LeftIsPending'
          /\ \A v \in Runs, k \in Jobs :
                jstatus'[v][k] = IF v = w /\ k = j THEN "skipped" ELSE jstatus[v][k]
          /\ \A u \in Threads : changed[u] => changed'[u]
      BY <1>6, <1>7 DEF SkipReadyJob
    <2>3. TodoIsBusy'
      BY <1>1, <2>1, <2>2 DEF TodoIsBusy
    <2>4. TodoIsReady'
      BY <1>1, <2>1, <2>2, BusyHasRun, TodoAreJobs, DoneStaysDone DEF TodoIsReady
    <2>5. PendingIsUnsent'
      BY <1>1, <2>1, <2>2 DEF PendingIsUnsent
    <2>6. NeedsFinished'
      <3> SUFFICES ASSUME NEW v \in Runs, NEW k \in JobsOf(v),
                          jstatus'[v][k] = "queued" \/ rstatus[v][k] # "none"
                   PROVE  NeedsDone(v, k)'
        BY <1>1 DEF NeedsFinished, NeedsDone, Finished, JobsOf, NeedsOf
      <3>1. k \in Jobs /\ (jstatus[v][k] = "queued" \/ rstatus[v][k] # "none")
        BY <1>3, <2>2
      <3> QED BY <1>1, <2>2, <3>1, DoneStaysDone DEF NeedsFinished, NeedsDone, Finished
    <2>7. QueuedJobHasOwner' /\ DispatchedAtMostOnce'
      BY <1>1, <1>3, <2>1, <2>2 DEF QueuedJobHasOwner, DispatchedAtMostOnce, JobsOf
    <2> QED BY <2>2, <2>3, <2>4, <2>5, <2>6, <2>7
  <1>8. CASE QueueReadyJob(t, w, j)
    <2>1. \A u \in Threads : todo'[u] = IF u = t THEN todo[t] \cup {j} ELSE todo[u]
      BY <1>8 DEF QueueReadyJob, TypeOK, ScanTypeOK
    <2>2. /\ JobsAdvance /\ LeftIsPending'
          /\ \A v \in Runs, k \in Jobs :
                jstatus'[v][k] = IF v = w /\ k = j THEN "queued" ELSE jstatus[v][k]
          /\ \A u \in Threads : changed[u] => changed'[u]
          /\ changed'[t]
      BY <1>6, <1>8 DEF QueueReadyJob
    <2>3. TodoIsBusy'
      BY <1>1, <2>1, <2>2 DEF TodoIsBusy
    <2>4. NeedsDone(w, j)
      BY <1>8 DEF QueueReadyJob, DepsFinished, NeedsDone
    <2>5. TodoIsReady'
      <3> SUFFICES ASSUME NEW u \in Threads, NEW k \in todo'[u] PROVE NeedsDone(tw[u], k)'
        BY <1>1 DEF TodoIsReady
      <3>1. CASE u = t /\ k = j
        BY <1>1, <2>2, <2>4, <3>1, DoneStaysDone
      <3>2. CASE ~ (u = t /\ k = j)
        BY <1>1, <2>1, <2>2, <3>2, BusyHasRun, TodoAreJobs, DoneStaysDone DEF TodoIsReady
      <3> QED BY <3>1, <3>2
    <2>6. PendingIsUnsent'
      BY <1>1, <2>1, <2>2 DEF PendingIsUnsent
    <2>7. NeedsFinished'
      <3> SUFFICES ASSUME NEW v \in Runs, NEW k \in JobsOf(v),
                          jstatus'[v][k] = "queued" \/ rstatus[v][k] # "none"
                   PROVE  NeedsDone(v, k)'
        BY <1>1 DEF NeedsFinished, NeedsDone, Finished, JobsOf, NeedsOf
      <3>1. k \in Jobs
        BY <1>3
      <3>2. CASE v = w /\ k = j
        BY <1>1, <2>2, <2>4, <3>2, DoneStaysDone
      <3>3. CASE ~ (v = w /\ k = j)
        BY <1>1, <2>2, <3>1, <3>3, DoneStaysDone DEF NeedsFinished, NeedsDone, Finished
      <3> QED BY <3>2, <3>3
    <2>8. QueuedJobHasOwner'
      BY <1>1, <1>3, <2>1, <2>2 DEF QueuedJobHasOwner, JobsOf
    <2>9. DispatchedAtMostOnce'
      BY <1>1, <1>2, <2>1 DEF DispatchedAtMostOnce
    <2> QED BY <2>2, <2>3, <2>5, <2>6, <2>7, <2>8, <2>9
  <1> QED
    BY <1>5, <1>7, <1>8 DEF ScanJob

-----------------------------------------------------------------------------
\* Every step keeps the invariant and lets jobs only advance.
LEMMA NextSched ==
    ASSUME TypeOK, SchedInv, [Next]_vars PROVE SchedInv' /\ JobsAdvance
  <1>1. CASE Next
    <2>1. TypeOK'
      BY NextType
    <2>2. CASE Quiet
      BY <2>1, <2>2, QuietSched, QuietAdvances
    <2>3. CASE ~ Quiet
      BY <1>1, <2>3, StepKinds, ScanBeginSched, ScanEndSched, ScanJobSched, DispatchSched
         DEF SchedInv
    <2> QED BY <2>2, <2>3
  <1>2. CASE UNCHANGED vars
    <2>1. UNCHANGED <<def, jstatus, rstatus, todo, left, changed, lock, tw, pc>>
      BY <1>2 DEF vars, wfVars, jobVars, reqVars, scanVars, threadVars
    <2>2. LeftIsPending' /\ TodoIsBusy' /\ JobsAdvance
      BY <2>1 DEF SchedInv, LeftIsPending, TodoIsBusy, JobsAdvance
    <2>3. TodoIsReady' /\ PendingIsUnsent' /\ NeedsFinished' /\ QueuedJobHasOwner'
          /\ DispatchedAtMostOnce'
      BY <2>1 DEF SchedInv, TodoIsReady, NeedsDone, PendingIsUnsent, NeedsFinished,
                  QueuedJobHasOwner, DispatchedAtMostOnce, JobsOf, NeedsOf
    <2> QED BY <2>2, <2>3 DEF SchedInv
  <1> QED BY <1>1, <1>2

\* The invariant of the dispatch loop holds in every reachable state.
THEOREM SchedInvariant == Spec => []SchedInv
  <1>1. Init => SchedInv
    BY InitSched
  <1>2. TypeOK /\ SchedInv /\ [Next]_vars => SchedInv'
    BY NextSched
  <1> QED BY <1>1, <1>2, TypeCorrect, PTL DEF Spec

\* A job that dispatchReadyJobs queued, or that a runner may have, has its
\* needs behind it, however scans, completions, timeouts and cancellations
\* overlap.
THEOREM NeedsFinishedFirst == Spec => []NeedsFinished
  <1>1. SchedInv => NeedsFinished
    BY DEF SchedInv
  <1> QED BY <1>1, SchedInvariant, PTL

\* A job marked queued under the lock is never forgotten after the unlock.
THEOREM QueuedJobIsOwned == Spec => []QueuedJobHasOwner
  <1>1. SchedInv => QueuedJobHasOwner
    BY DEF SchedInv
  <1> QED BY <1>1, SchedInvariant, PTL

\* Overlapping dispatch loops never send one job twice.
THEOREM NoJobSentTwice == Spec => []DispatchedAtMostOnce
  <1>1. SchedInv => DispatchedAtMostOnce
    BY DEF SchedInv
  <1> QED BY <1>1, SchedInvariant, PTL

\* A job that ended is never revived, whatever reached it first.
THEOREM FinishedIsFinal == Spec => FinishedStaysFinished
  <1>1. TypeOK /\ SchedInv /\ [Next]_vars =>
          [\A w \in Runs, j \in Jobs :
              jstatus[w][j] \in {"completed", "skipped"}
                  => jstatus'[w][j] \in {"completed", "skipped"}]_vars
    BY NextSched DEF JobsAdvance, Finished
  <1> QED BY <1>1, TypeCorrect, SchedInvariant, PTL DEF Spec, FinishedStaysFinished
=============================================================================
