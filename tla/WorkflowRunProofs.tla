-------------------------- MODULE WorkflowRunProofs --------------------------
(***************************************************************************)
(* The life of a run: it waits untouched, it respects max-parallel, it is  *)
(* closed when it has ended, and its result is the one its jobs have.      *)
(*                                                                         *)
(* The four properties rest on one inductive invariant, RunInv, whose      *)
(* StageInv says how far a run can be for a goroutine to be where it is,   *)
(* and on SchedInv of WorkflowDispatchProofs.                              *)
(***************************************************************************)
EXTENDS WorkflowDispatchProofs

Early == {"new", "building", "pending_concurrency"}

\* Goroutines inside submitWorkflow before it stores the run, and those that
\* work on a run that has begun.
Submitting(t) == pc[t] \in {"lookup", "enqueue", "store"} \/ cont[t] = "store"
Working(t) == pc[t] \in {"dispatch", "send", "complete", "check", "startPending"}

\* Runs are submitted one after the other and each by one goroutine; a run is
\* in the store, worked on or cancelled only after its submission.
RunsInOrder == \A w \in Runs : w >= nextRun => wstatus[w] = "new"
StoredIsKnown == \A w \in stored : wstatus[w] \notin {"new", "building"}
SubmitterIsOne ==
    \A t \in Threads :
        /\ cont[t] = "store" => pc[t] = "cancel"
        /\ Submitting(t) => /\ wstatus[tw[t]] = "building"
                            /\ \A u \in Threads \ {t} : Submitting(u) => tw[u] # tw[t]
WorkHasBegun ==
    \A t \in Threads : Working(t) => wstatus[tw[t]] \in {"running", "completed"}
CancelIsLate ==
    \A t \in Threads : pc[t] = "cancel" => wstatus[active[t]] \notin {"new", "building"}

\* Until it runs, none of its jobs is touched; until it ends, it has no result.
EarlyIsUntouched ==
    \A w \in Runs : wstatus[w] \in Early =>
        \A j \in Jobs : jstatus[w][j] = "pending" /\ rstatus[w][j] = "none"
ResultComesLast == \A w \in Runs : wstatus[w] # "completed" => wresult[w] = Empty

\* A goroutine that changed a result of a job and has yet to look at the run.
Dirty(t, w) ==
    tw[t] = w /\ cont[t] = "check" /\ pc[t] \in {"dispatch", "send", "check"}
Bad(w) == \E j \in JobsOf(w) : jresult[w][j] \in {"failure", "cancelled"}
Match(w) == (wresult[w] = "success" => ~ Bad(w)) /\ (wresult[w] = "failure" => Bad(w))
ResultIsSettled == \A w \in Runs : (\A t \in Threads : ~ Dirty(t, w)) => Match(w)

StageInv ==
    /\ RunsInOrder /\ StoredIsKnown /\ SubmitterIsOne /\ WorkHasBegun /\ CancelIsLate
    /\ ResultComesLast
RunInv ==
    /\ StageInv
    /\ EarlyIsUntouched /\ CompletedRunIsClosed /\ MaxParallelBound
    /\ ResultIsSettled

-----------------------------------------------------------------------------
\* The goroutines and the stages of a run.

\* A step that only moves goroutine t keeps the stages when it leaves t in
\* order.
OthersStay(t) ==
    \A u \in Threads \ {t} : /\ pc'[u] = pc[u] /\ tw'[u] = tw[u]
                             /\ cont'[u] = cont[u] /\ active'[u] = active[u]

LEMMA StagesStay ==
    ASSUME TypeOK, StageInv, NEW t \in Threads, OthersStay(t),
           UNCHANGED <<nextRun, wstatus, wresult>>, stored' \subseteq stored,
           ~ Submitting(t)' \/ (Submitting(t) /\ tw'[t] = tw[t]),
           cont'[t] = "store" => pc'[t] = "cancel",
           Working(t)' => wstatus[tw'[t]] \in {"running", "completed"},
           pc'[t] = "cancel" => wstatus[active'[t]] \notin {"new", "building"}
    PROVE  StageInv'
  <1> USE DEF StageInv, OthersStay
  <1>1. RunsInOrder' /\ StoredIsKnown' /\ ResultComesLast'
    BY DEF RunsInOrder, StoredIsKnown, ResultComesLast
  <1>2. SubmitterIsOne'
    <2>1. \A u \in Threads : Submitting(u)' => Submitting(u) /\ tw'[u] = tw[u]
      BY DEF Submitting
    <2> QED BY <2>1 DEF SubmitterIsOne
  <1>3. WorkHasBegun'
    BY DEF WorkHasBegun, Working
  <1>4. CancelIsLate'
    BY DEF CancelIsLate
  <1> QED BY <1>1, <1>2, <1>3, <1>4

\* The same for a step that moves a run from one stage to a later one.
LEMMA StageMoves ==
    ASSUME TypeOK, StageInv, NEW t \in Threads, OthersStay(t),
           NEW v \in Runs, NEW s \in {"running", "pending_concurrency", "completed"},
           wstatus' = [wstatus EXCEPT ![v] = s], wstatus[v] # "new",
           s = "pending_concurrency" => wstatus[v] = "building",
           wstatus[v] = "building" => Submitting(t) /\ tw[t] = v,
           wresult' = wresult \/ (s = "completed" /\ \E r : wresult' = [wresult EXCEPT ![v] = r]),
           s # "completed" => wstatus[v] # "completed" /\ wresult' = wresult,
           nextRun' = nextRun, stored' \in {stored, stored \cup {v}},
           ~ Submitting(t)' \/ (Submitting(t) /\ tw'[t] = tw[t] /\ tw[t] # v),
           cont'[t] = "store" => pc'[t] = "cancel",
           Working(t)' => wstatus'[tw'[t]] \in {"running", "completed"},
           pc'[t] # "cancel"
    PROVE  StageInv'
  <1> USE DEF StageInv, OthersStay
  <1>0. \A w \in Runs : wstatus'[w] = IF w = v THEN s ELSE wstatus[w]
    BY DEF TypeOK, RunTypeOK
  <1>1. RunsInOrder' /\ StoredIsKnown'
    BY <1>0 DEF RunsInOrder, StoredIsKnown, TypeOK, RunTypeOK
  <1>2. ResultComesLast'
    BY <1>0 DEF ResultComesLast, TypeOK, RunTypeOK
  <1>3. \A u \in Threads : Submitting(u)' => Submitting(u) /\ tw'[u] = tw[u]
    BY DEF Submitting
  <1>4. \A u \in Threads : Submitting(u) => tw[u] \in Runs
    BY DEF Submitting, TypeOK, ThreadTypeOK
  <1>5. \A u \in Threads : Submitting(u)' => tw[u] # v
    <2> SUFFICES ASSUME NEW u \in Threads, Submitting(u)', tw[u] = v PROVE FALSE
      OBVIOUS
    <2>1. Submitting(u) /\ wstatus[v] = "building" /\ u # t
      BY <1>3 DEF SubmitterIsOne
    <2> QED BY <2>1 DEF SubmitterIsOne
  <1>6. SubmitterIsOne'
    <2>1. \A u \in Threads : cont'[u] = "store" => pc'[u] = "cancel"
      BY DEF SubmitterIsOne
    <2> QED BY <1>0, <1>3, <1>4, <1>5, <2>1 DEF SubmitterIsOne
  <1>7. WorkHasBegun'
    <2>1. \A u \in Threads : Working(u) => tw[u] \in Runs
      BY DEF Working, TypeOK, ThreadTypeOK
    <2>2. ASSUME NEW u \in Threads \ {t}, Working(u)
          PROVE  wstatus'[tw[u]] \in {"running", "completed"}
      <3>1. wstatus[tw[u]] \in {"running", "completed"}
        BY <2>2 DEF WorkHasBegun
      <3> QED BY <1>0, <2>1, <2>2, <3>1
    <2> QED BY <2>2 DEF WorkHasBegun, Working
  <1>8. CancelIsLate'
    <2>1. \A u \in Threads : pc[u] = "cancel" => active[u] \in Runs
      BY DEF TypeOK, ThreadTypeOK
    <2> QED BY <1>0, <2>1 DEF CancelIsLate
  <1> QED BY <1>1, <1>2, <1>6, <1>7, <1>8

LEMMA ExitIsIdle ==
    ASSUME TypeOK, NEW t \in Threads, Exit(t)
    PROVE  pc'[t] = "idle" /\ cont'[t] = "end" /\ tw'[t] = 0 /\ OthersStay(t)
  BY DEF TypeOK, ThreadTypeOK, Exit, OthersStay

LEMMA GotoMoves ==
    ASSUME TypeOK, NEW t \in Threads, NEW p, Goto(t, p)
    PROVE  /\ pc'[t] = p /\ UNCHANGED <<tw, cont, active>> /\ OthersStay(t)
  BY DEF TypeOK, ThreadTypeOK, Goto, OthersStay

LEMMA SubmitStages ==
    ASSUME TypeOK, StageInv, NEW t \in Threads, NEW w \in Runs, SubmitWorkflow(t, w)
    PROVE  StageInv'
  <1> USE DEF StageInv
  <1>1. /\ pc[t] = "idle" /\ w = nextRun /\ nextRun' = nextRun + 1
        /\ UNCHANGED <<stored, wresult, cont, active>>
        /\ \A v \in Runs : wstatus'[v] = IF v = w THEN "building" ELSE wstatus[v]
        /\ \A u \in Threads : pc'[u] = IF u = t THEN "lookup" ELSE pc[u]
        /\ \A u \in Threads : tw'[u] = IF u = t THEN w ELSE tw[u]
    BY DEF SubmitWorkflow, At, TypeOK, RunTypeOK, ThreadTypeOK
  <1>2. wstatus[w] = "new"
    <2>1. w >= nextRun
      BY <1>1 DEF TypeOK, RunTypeOK
    <2> QED BY <2>1 DEF RunsInOrder
  <1>3. RunsInOrder'
    <2>1. nextRun \in Nat /\ Runs \subseteq Nat
      BY DEF TypeOK, RunTypeOK, Runs
    <2>2. \A v \in Runs : v >= nextRun' => v >= nextRun /\ v # w
      BY <1>1, <2>1
    <2> QED BY <1>1, <2>2 DEF RunsInOrder
  <1>4. StoredIsKnown' /\ ResultComesLast'
    BY <1>1, <1>2 DEF StoredIsKnown, ResultComesLast, TypeOK, RunTypeOK
  <1>5. \A u \in Threads : Submitting(u) => tw[u] \in Runs /\ tw[u] # w
    BY <1>2 DEF Submitting, SubmitterIsOne, TypeOK, ThreadTypeOK
  <1>6. SubmitterIsOne'
    <2>1. \A u \in Threads \ {t} : Submitting(u)' <=> Submitting(u)
      BY <1>1 DEF Submitting
    <2> QED BY <1>1, <1>5, <2>1 DEF SubmitterIsOne
  <1>7. WorkHasBegun'
    <2>1. \A u \in Threads : Working(u)' => u # t /\ Working(u) /\ tw[u] \in Runs
      BY <1>1 DEF Working, TypeOK, ThreadTypeOK
    <2> QED BY <1>1, <1>2, <2>1 DEF WorkHasBegun
  <1>8. CancelIsLate'
    BY <1>1, <1>2 DEF CancelIsLate, TypeOK, ThreadTypeOK
  <1> QED BY <1>3, <1>4, <1>6, <1>7, <1>8

LEMMA LookupStages ==
    ASSUME TypeOK, StageInv, NEW t \in Threads, LookupActive(t)
    PROVE  StageInv'
  <1>1. pc[t] = "lookup" /\ UNCHANGED <<nextRun, stored, wstatus, wresult>>
    BY DEF LookupActive, At, wfVars
  <1>2. Submitting(t) /\ cont[t] # "store"
    BY <1>1 DEF Submitting, StageInv, SubmitterIsOne
  <1>3. CASE Goto(t, "store") \/ Goto(t, "enqueue")
    <2>1. pc'[t] \in {"store", "enqueue"} /\ UNCHANGED <<tw, cont, active>> /\ OthersStay(t)
      BY <1>3, GotoMoves
    <2> QED BY <1>1, <1>2, <2>1, StagesStay DEF Working
  <1>4. CASE ~ (Goto(t, "store") \/ Goto(t, "enqueue"))
    <2>1. PICK v \in RunningRuns : active' = [active EXCEPT ![t] = v]
      BY <1>4 DEF LookupActive
    <2>2. /\ pc' = [pc EXCEPT ![t] = "cancel"]
          /\ cont' = [cont EXCEPT ![t] = "store"]
          /\ UNCHANGED tw
      BY <1>4 DEF LookupActive
    <2>3. /\ pc'[t] = "cancel" /\ active'[t] = v /\ OthersStay(t)
      BY <2>1, <2>2 DEF TypeOK, ThreadTypeOK, OthersStay
    <2>4. wstatus[v] = "running"
      BY DEF RunningRuns
    <2> QED BY <1>1, <1>2, <2>2, <2>3, <2>4, StagesStay DEF Working
  <1> QED BY <1>3, <1>4

LEMMA StoreStages ==
    ASSUME TypeOK, StageInv, NEW t \in Threads, EnqueuePending(t) \/ StoreRun(t)
    PROVE  StageInv'
  <1> DEFINE v == tw[t]
  <1>1. /\ pc[t] \in {"enqueue", "store"} /\ v \in Runs
        /\ nextRun' = nextRun /\ wresult' = wresult /\ stored' = stored \cup {v}
    BY DEF EnqueuePending, StoreRun, At, TypeOK, ThreadTypeOK
  <1>2. Submitting(t) /\ cont[t] # "store" /\ wstatus[v] = "building"
    BY <1>1 DEF Submitting, StageInv, SubmitterIsOne
  <1>3. CASE EnqueuePending(t)
    <2>1. pc'[t] = "idle" /\ cont'[t] = "end" /\ OthersStay(t)
      BY <1>3, ExitIsIdle DEF EnqueuePending
    <2>2. ~ Submitting(t)' /\ ~ Working(t)'
      BY <2>1 DEF Submitting, Working
    <2>3. wstatus' = [wstatus EXCEPT ![v] = "pending_concurrency"]
      BY <1>3 DEF EnqueuePending
    <2> HIDE DEF v
    <2> QED BY <1>1, <1>2, <2>1, <2>2, <2>3, StageMoves DEF v
  <1>4. CASE StoreRun(t)
    <2>1. pc'[t] = "dispatch" /\ UNCHANGED <<tw, cont, active>> /\ OthersStay(t)
      BY <1>4, GotoMoves DEF StoreRun
    <2>2. ~ Submitting(t)' /\ tw'[t] = v
      BY <1>2, <2>1 DEF Submitting
    <2>3. wstatus' = [wstatus EXCEPT ![v] = "running"] /\ wstatus'[v] = "running"
      BY <1>1, <1>4 DEF StoreRun, TypeOK, RunTypeOK
    <2> HIDE DEF v
    <2> QED BY <1>1, <1>2, <2>1, <2>2, <2>3, StageMoves DEF v
  <1> QED BY <1>3, <1>4

LEMMA DispatchStages ==
    ASSUME TypeOK, StageInv, NEW t \in Threads,
           \/ ScanBegin(t) \/ ScanEnd(t) \/ DispatchLoop(t)
           \/ \E j \in Jobs : ScanJob(t, j) \/ DispatchJob(t, j)
    PROVE  StageInv'
  <1>1. UNCHANGED <<nextRun, stored, wstatus, wresult>>
    BY DEF ScanBegin, ScanEnd, DispatchLoop, ScanJob, DispatchJob, wfVars
  <1>2. pc[t] \in {"dispatch", "send"}
    BY DEF ScanBegin, ScanEnd, DispatchLoop, ScanJob, DispatchJob, At, TypeOK, ScanTypeOK
  <1>3. ~ Submitting(t) /\ Working(t) /\ cont[t] # "store"
    BY <1>2 DEF Submitting, Working, StageInv, SubmitterIsOne
  <1>4. wstatus[tw[t]] \in {"running", "completed"}
    BY <1>3 DEF StageInv, WorkHasBegun
  <1>5. /\ OthersStay(t)
        /\ \/ pc'[t] \in {"dispatch", "send", "check"} /\ UNCHANGED <<tw, cont, active>>
           \/ pc'[t] = "idle" /\ cont'[t] = "end"
    <2>1. CASE ScanEnd(t)
      BY <2>1, GotoMoves, ExitIsIdle DEF ScanEnd
    <2>2. CASE DispatchLoop(t)
      BY <2>2, GotoMoves DEF DispatchLoop
    <2>3. CASE ScanBegin(t) \/ \E j \in Jobs : ScanJob(t, j) \/ DispatchJob(t, j)
      <3>1. UNCHANGED <<pc, tw, cont, active>>
        BY <2>3 DEF ScanBegin, ScanJob, DispatchJob, threadVars
      <3> QED BY <1>2, <3>1 DEF OthersStay
    <2> QED BY <2>1, <2>2, <2>3
  <1>6. ~ Submitting(t)' /\ cont'[t] # "store" /\ pc'[t] # "cancel"
    BY <1>3, <1>5 DEF Submitting
  <1>7. Working(t)' => wstatus[tw'[t]] \in {"running", "completed"}
    BY <1>4, <1>5 DEF Working
  <1> QED BY <1>1, <1>5, <1>6, <1>7, StagesStay

\* A goroutine that is idle begins to work on a run that has begun.
LEMMA BeginStages ==
    ASSUME TypeOK, StageInv, NEW t \in Threads, NEW w \in Runs, pc[t] = "idle",
           NEW p \in {"complete", "dispatch"}, wstatus[w] \in {"running", "completed"},
           pc' = [pc EXCEPT ![t] = p], tw' = [tw EXCEPT ![t] = w],
           UNCHANGED <<nextRun, stored, wstatus, wresult, cont, active>>
    PROVE  StageInv'
  <1>1. pc'[t] = p /\ tw'[t] = w /\ OthersStay(t)
    BY DEF TypeOK, ThreadTypeOK, OthersStay
  <1>2. cont[t] # "store"
    BY DEF StageInv, SubmitterIsOne
  <1>3. ~ Submitting(t)' /\ cont'[t] # "store" /\ pc'[t] # "cancel"
    BY <1>1, <1>2 DEF Submitting
  <1> QED BY <1>1, <1>3, StagesStay

LEMMA RunnerStages ==
    ASSUME TypeOK, StageInv, EarlyIsUntouched, NEW w \in Runs, NEW j \in Jobs,
           RenewRequest(w, j) \/ RunnerReport(w, j)
    PROVE  StageInv'
  <1>1. CASE RenewRequest(w, j)
    <2>1. UNCHANGED <<nextRun, stored, wstatus, wresult, pc, tw, cont, active>>
      BY <1>1 DEF RenewRequest, wfVars, threadVars
    <2> QED BY <2>1 DEF StageInv, RunsInOrder, StoredIsKnown, SubmitterIsOne, WorkHasBegun,
                        CancelIsLate, ResultComesLast, Submitting, Working
  <1>2. ASSUME NEW t \in Threads, NEW r, Report(t, w, j, r) PROVE StageInv'
    <2>1. /\ pc[t] = "idle" /\ rstatus[w][j] # "none"
          /\ pc' = [pc EXCEPT ![t] = "complete"] /\ tw' = [tw EXCEPT ![t] = w]
          /\ UNCHANGED <<nextRun, stored, wstatus, wresult, cont, active>>
      BY <1>2 DEF Report, At, wfVars
    <2>2. wstatus[w] \in {"running", "completed"}
      BY <2>1 DEF EarlyIsUntouched, Early, TypeOK, RunTypeOK, RunStatuses
    <2> QED BY <2>1, <2>2, BeginStages
  <1> QED BY <1>1, <1>2 DEF RunnerReport, FinishJob, CompleteRequest

LEMMA CompletionStages ==
    ASSUME TypeOK, StageInv, NEW t \in Threads,
           OnJobCompleted(t) \/ CheckAllDone(t) \/ StartPending(t)
    PROVE  StageInv'
  <1> DEFINE w == tw[t]
  <1>1. pc[t] \in {"complete", "check", "startPending"} /\ w \in Runs
    BY DEF OnJobCompleted, CheckAllDone, StartPending, At, TypeOK, ThreadTypeOK
  <1>2. ~ Submitting(t) /\ cont[t] # "store" /\ wstatus[w] \in {"running", "completed"}
    BY <1>1 DEF Submitting, Working, StageInv, SubmitterIsOne, WorkHasBegun
  <1>3. CASE OnJobCompleted(t)
    <2>1. UNCHANGED <<nextRun, stored, wstatus, wresult>>
      BY <1>3 DEF OnJobCompleted, wfVars
    <2>2. /\ OthersStay(t)
          /\ \/ pc'[t] = "dispatch" /\ cont'[t] = "check" /\ tw'[t] = w
             \/ pc'[t] = "idle" /\ cont'[t] = "end"
      <3>1. CASE w \in stored
        BY <1>3, <3>1 DEF OnJobCompleted, TypeOK, ThreadTypeOK, OthersStay
      <3>2. CASE w \notin stored
        BY <1>3, <3>2, ExitIsIdle DEF OnJobCompleted
      <3> QED BY <3>1, <3>2
    <2>3. ~ Submitting(t)' /\ cont'[t] # "store" /\ pc'[t] # "cancel"
      BY <2>2 DEF Submitting
    <2>4. Working(t)' => wstatus[tw'[t]] \in {"running", "completed"}
      BY <1>2, <2>2 DEF Working
    <2> QED BY <2>1, <2>2, <2>3, <2>4, StagesStay
  <1>4. CASE CheckAllDone(t) /\ OpenJobs(w) # {}
    <2>1. UNCHANGED <<nextRun, stored, wstatus, wresult>> /\ Exit(t)
      BY <1>4 DEF CheckAllDone
    <2>2. OthersStay(t) /\ pc'[t] = "idle" /\ cont'[t] = "end"
      BY <2>1, ExitIsIdle
    <2>3. ~ Submitting(t)' /\ ~ Working(t)'
      BY <2>2 DEF Submitting, Working
    <2> QED BY <2>1, <2>2, <2>3, StagesStay
  <1>5. CASE CheckAllDone(t) /\ OpenJobs(w) = {}
    <2>1. /\ UNCHANGED <<nextRun, stored>>
          /\ wstatus' = [wstatus EXCEPT ![w] = "completed"]
          /\ \E r : wresult' = [wresult EXCEPT ![w] = r]
          /\ Goto(t, "startPending") \/ Exit(t)
      BY <1>5 DEF CheckAllDone
    <2>2. /\ OthersStay(t)
          /\ \/ pc'[t] = "startPending" /\ cont'[t] = cont[t] /\ tw'[t] = w
             \/ pc'[t] = "idle" /\ cont'[t] = "end"
      BY <2>1, GotoMoves, ExitIsIdle
    <2>3. ~ Submitting(t)' /\ cont'[t] # "store" /\ pc'[t] # "cancel"
      BY <1>2, <2>2 DEF Submitting
    <2>4. wstatus'[w] = "completed"
      BY <1>1, <2>1 DEF TypeOK, RunTypeOK
    <2>5. Working(t)' => wstatus'[tw'[t]] \in {"running", "completed"}
      BY <2>2, <2>4 DEF Working
    <2> HIDE DEF w
    <2> QED BY <1>1, <1>2, <2>1, <2>2, <2>3, <2>5, StageMoves
  <1>6. CASE StartPending(t)
    <2>0. UNCHANGED <<nextRun, stored, wresult>>
      BY <1>6 DEF StartPending
    <2>1. CASE Exit(t) /\ UNCHANGED wstatus
      <3>1. OthersStay(t) /\ pc'[t] = "idle" /\ cont'[t] = "end"
        BY <2>1, ExitIsIdle
      <3>2. ~ Submitting(t)' /\ ~ Working(t)'
        BY <3>1 DEF Submitting, Working
      <3> QED BY <2>0, <2>1, <3>1, <3>2, StagesStay
    <2>2. CASE ~ (Exit(t) /\ UNCHANGED wstatus)
      <3>1. PICK v \in stored :
              /\ wstatus[v] = "pending_concurrency"
              /\ wstatus' = [wstatus EXCEPT ![v] = "running"]
              /\ tw' = [tw EXCEPT ![t] = v]
              /\ pc' = [pc EXCEPT ![t] = "dispatch"]
              /\ cont' = [cont EXCEPT ![t] = "end"]
              /\ UNCHANGED active
        BY <1>6, <2>2 DEF StartPending
      <3>2. v \in Runs /\ wstatus'[v] = "running"
        BY <3>1 DEF TypeOK, RunTypeOK
      <3>3. OthersStay(t) /\ pc'[t] = "dispatch" /\ cont'[t] = "end" /\ tw'[t] = v
        BY <3>1 DEF TypeOK, ThreadTypeOK, OthersStay
      <3>4. ~ Submitting(t)' /\ cont'[t] # "store" /\ pc'[t] # "cancel"
        BY <3>3 DEF Submitting
      <3>5. Working(t)' => wstatus'[tw'[t]] \in {"running", "completed"}
        BY <3>2, <3>3
      <3> QED BY <2>0, <3>1, <3>2, <3>3, <3>4, <3>5, StageMoves
    <2> QED BY <2>1, <2>2
  <1> QED BY <1>3, <1>4, <1>5, <1>6

LEMMA CancelStages ==
    ASSUME TypeOK, StageInv, NEW t \in Threads,
           \/ CancelWorkflow(t)
           \/ \E w \in Runs : BeginCancel(t, w)
           \/ \E w \in Runs, late \in SUBSET Jobs : CheckJobTimeouts(t, w, late)
    PROVE  StageInv'
  <1>1. ASSUME NEW w \in Runs, BeginCancel(t, w) PROVE StageInv'
    <2>1. /\ pc[t] = "idle" /\ w \in stored
          /\ pc' = [pc EXCEPT ![t] = "cancel"] /\ active' = [active EXCEPT ![t] = w]
          /\ UNCHANGED <<nextRun, stored, wstatus, wresult, tw, cont>>
      BY <1>1 DEF BeginCancel, At, wfVars
    <2>2. pc'[t] = "cancel" /\ active'[t] = w /\ OthersStay(t)
      BY <2>1 DEF TypeOK, ThreadTypeOK, OthersStay
    <2>3. cont[t] # "store"
      BY <2>1 DEF StageInv, SubmitterIsOne
    <2>4. ~ Submitting(t)' /\ ~ Working(t)'
      BY <2>1, <2>2, <2>3 DEF Submitting, Working
    <2>5. wstatus[w] \notin {"new", "building"}
      BY <2>1 DEF StageInv, StoredIsKnown
    <2> QED BY <2>1, <2>2, <2>4, <2>5, StagesStay
  <1>2. ASSUME NEW w \in Runs, NEW late \in SUBSET Jobs, CheckJobTimeouts(t, w, late)
        PROVE  StageInv'
    <2>1. /\ pc[t] = "idle" /\ wstatus[w] = "running"
          /\ pc' = [pc EXCEPT ![t] = "dispatch"] /\ tw' = [tw EXCEPT ![t] = w]
          /\ UNCHANGED <<nextRun, stored, wstatus, wresult, cont, active>>
      BY <1>2 DEF CheckJobTimeouts, At, wfVars
    <2> QED BY <2>1, BeginStages
  <1>3. CASE CancelWorkflow(t)
    <2> DEFINE v == active[t]
    <2>1. /\ pc[t] = "cancel" /\ v \in Runs /\ UNCHANGED <<nextRun, stored>>
          /\ wstatus' = [wstatus EXCEPT ![v] = "completed"]
          /\ wresult' = [wresult EXCEPT ![v] = "cancelled"]
      BY <1>3 DEF CancelWorkflow, At, TypeOK, ThreadTypeOK
    <2>2. wstatus[v] \notin {"new", "building"}
      BY <2>1 DEF StageInv, CancelIsLate
    <2>3. /\ OthersStay(t) /\ pc'[t] \in {"store", "idle"} /\ cont'[t] = "end"
          /\ pc'[t] = "store" => cont[t] = "store" /\ tw'[t] = tw[t]
      <3>1. CASE cont[t] = "store"
        BY <1>3, <3>1 DEF CancelWorkflow, TypeOK, ThreadTypeOK, OthersStay
      <3>2. CASE cont[t] # "store"
        BY <1>3, <3>2, ExitIsIdle DEF CancelWorkflow
      <3> QED BY <3>1, <3>2
    <2>4. cont[t] = "store" => Submitting(t) /\ wstatus[tw[t]] = "building"
      BY DEF Submitting, StageInv, SubmitterIsOne
    <2>5. ~ Submitting(t)' \/ (Submitting(t) /\ tw'[t] = tw[t] /\ tw[t] # v)
      BY <2>2, <2>3, <2>4 DEF Submitting
    <2>6. ~ Working(t)' /\ pc'[t] # "cancel" /\ cont'[t] # "store"
      BY <2>3 DEF Working
    <2> HIDE DEF v
    <2> QED BY <2>1, <2>2, <2>3, <2>5, <2>6, StageMoves
  <1> QED BY <1>1, <1>2, <1>3

LEMMA DeleteStages ==
    ASSUME StageInv, NEW w \in Runs, DeleteRun(w) PROVE StageInv'
  <1>1. /\ UNCHANGED <<nextRun, wstatus, wresult, pc, tw, cont, active>>
        /\ stored' \subseteq stored
    BY DEF DeleteRun, threadVars
  <1> QED BY <1>1 DEF StageInv, RunsInOrder, StoredIsKnown, SubmitterIsOne, WorkHasBegun,
                      CancelIsLate, ResultComesLast, Submitting, Working

\* Every step of the engine keeps the stages.
LEMMA NextStages ==
    ASSUME TypeOK, StageInv, EarlyIsUntouched, [Next]_vars PROVE StageInv'
  <1>1. ASSUME NEW t \in Threads, ThreadStep(t) PROVE StageInv'
    BY <1>1, LookupStages, StoreStages, DispatchStages, CompletionStages, CancelStages
       DEF ThreadStep
  <1>2. ASSUME NEW t \in Threads, NEW w \in Runs,
               \/ HandleSubmitWorkflow(t, w) \/ RerunWorkflowRun(t, w)
               \/ DispatchWorkflow(t, w) \/ TriggerWorkflow(t, w)
        PROVE  StageInv'
    BY <1>2, SubmitStages
       DEF HandleSubmitWorkflow, RerunWorkflowRun, DispatchWorkflow, TriggerWorkflow
  <1>3. ASSUME NEW t \in Threads, NEW w \in Runs,
               HandleCancelWorkflow(t, w) \/ HandleCancelWorkflowRun(t, w)
        PROVE  StageInv'
    BY <1>3, CancelStages DEF HandleCancelWorkflow, HandleCancelWorkflowRun
  <1>4. CASE UNCHANGED vars
    <2>1. UNCHANGED <<nextRun, stored, wstatus, wresult, pc, tw, cont, active>>
      BY <1>4 DEF vars, wfVars, threadVars
    <2> QED BY <2>1 DEF StageInv, RunsInOrder, StoredIsKnown, SubmitterIsOne, WorkHasBegun,
                        CancelIsLate, ResultComesLast, Submitting, Working
  <1> QED
    BY <1>1, <1>2, <1>3, <1>4, RunnerStages, CancelStages, DeleteStages DEF Next

-----------------------------------------------------------------------------
(***************************************************************************)
(* What a step does to the jobs of a run, and to the run itself: it        *)
(* touches the jobs of a run only after that run has begun, it completes   *)
(* only a run whose jobs have all ended, and when it leaves a run's result *)
(* behind its jobs' results some goroutine is bound to look at the run     *)
(* again.                                                                  *)
(***************************************************************************)
EarlyStays ==
    \A w \in Runs : wstatus'[w] \in Early =>
        /\ wstatus[w] \in Early
        /\ \A j \in Jobs : /\ jstatus'[w][j] = jstatus[w][j]
                           /\ rstatus[w][j] = "none" => rstatus'[w][j] = "none"

ClosedStays ==
    \A w \in Runs : wstatus'[w] = "completed" =>
        wstatus[w] = "completed" \/ \A j \in JobsOf(w) : jstatus'[w][j] \in Finished

SettledStays ==
    \A w \in Runs :
        \/ \E t \in Threads : Dirty(t, w)'
        \/ Match(w)'
        \/ /\ wresult'[w] = wresult[w]
           /\ \A j \in JobsOf(w) : jresult'[w][j] = jresult[w][j]
           /\ \A t \in Threads : Dirty(t, w) => Dirty(t, w)'

Steady == UNCHANGED def /\ EarlyStays /\ ClosedStays /\ SettledStays

LEMMA SettledKeeps ==
    ASSUME NEW t \in Threads, OthersStay(t), UNCHANGED <<wresult, jresult>>,
           \A w \in Runs : Dirty(t, w) => Dirty(t, w)'
    PROVE  SettledStays
  BY DEF SettledStays, Dirty, OthersStay

\* A goroutine without a completion in hand has nothing to settle.
LEMMA IdleIsClean ==
    ASSUME NEW t \in Threads, pc[t] \notin {"dispatch", "send", "check"}
    PROVE  \A w \in Runs : ~ Dirty(t, w)
  BY DEF Dirty

\* The submission, the start of a waiting run, and the other steps that leave
\* the jobs alone and do not end a run.
LEMMA MoveSteady ==
    ASSUME TypeOK, NEW t \in Threads, OthersStay(t),
           UNCHANGED <<def, wresult, jobVars, rstatus>>,
           \A w \in Runs : /\ wstatus'[w] \in Early => wstatus[w] \in Early
                           /\ wstatus'[w] = "completed" => wstatus[w] = "completed",
           \A w \in Runs : Dirty(t, w) => Dirty(t, w)'
    PROVE  Steady
  <1>1. SettledStays
    BY SettledKeeps DEF jobVars
  <1> QED BY <1>1 DEF Steady, EarlyStays, ClosedStays, jobVars

LEMMA SubmitSteady ==
    ASSUME TypeOK, StageInv, NEW t \in Threads,
           \/ \E w \in Runs : SubmitWorkflow(t, w)
           \/ LookupActive(t) \/ EnqueuePending(t) \/ StoreRun(t)
    PROVE  Steady
  <1>1. /\ pc[t] \in {"idle", "lookup", "enqueue", "store"}
        /\ UNCHANGED <<def, wresult, jobVars, rstatus>>
    BY DEF SubmitWorkflow, LookupActive, EnqueuePending, StoreRun, At, wfVars, jobVars, reqVars
  <1>2. OthersStay(t)
    BY DEF SubmitWorkflow, LookupActive, EnqueuePending, StoreRun, Goto, Exit, OthersStay,
           TypeOK, ThreadTypeOK
  <1>3. \A w \in Runs : ~ Dirty(t, w)
    BY <1>1, IdleIsClean
  <1>4. \A w \in Runs : /\ wstatus'[w] \in Early => wstatus[w] \in Early
                        /\ wstatus'[w] = "completed" => wstatus[w] = "completed"
    <2>1. ASSUME NEW w \in Runs, SubmitWorkflow(t, w)
          PROVE  wstatus[w] = "new" /\ wstatus' = [wstatus EXCEPT ![w] = "building"]
      <3>1. w = nextRun /\ wstatus' = [wstatus EXCEPT ![w] = "building"]
        BY <2>1 DEF SubmitWorkflow
      <3>2. w >= nextRun
        BY <3>1 DEF TypeOK, RunTypeOK
      <3> QED BY <3>1, <3>2 DEF StageInv, RunsInOrder
    <2>2. CASE \E w \in Runs : SubmitWorkflow(t, w)
      BY <2>1, <2>2 DEF Early, TypeOK, RunTypeOK
    <2>3. CASE LookupActive(t)
      BY <2>3 DEF LookupActive, wfVars
    <2>4. CASE EnqueuePending(t) \/ StoreRun(t)
      <3>1. pc[t] \in {"enqueue", "store"} /\ tw[t] \in Runs
        BY <2>4 DEF EnqueuePending, StoreRun, At, TypeOK, ThreadTypeOK
      <3>2. wstatus[tw[t]] = "building"
        BY <3>1 DEF StageInv, SubmitterIsOne, Submitting
      <3>3. wstatus' = [wstatus EXCEPT ![tw[t]] = "pending_concurrency"]
            \/ wstatus' = [wstatus EXCEPT ![tw[t]] = "running"]
        BY <2>4 DEF EnqueuePending, StoreRun
      <3> QED BY <3>1, <3>2, <3>3 DEF Early, TypeOK, RunTypeOK
    <2> QED BY <2>2, <2>3, <2>4
  <1> QED BY <1>1, <1>2, <1>3, <1>4, MoveSteady

LEMMA LoopSteady ==
    ASSUME TypeOK, StageInv, NEW t \in Threads,
           \/ ScanBegin(t) \/ ScanEnd(t) \/ DispatchLoop(t)
           \/ \E j \in Jobs : DispatchJob(t, j)
    PROVE  Steady
  <1>1. /\ UNCHANGED <<def, wstatus, wresult, jobVars>> /\ pc[t] \in {"dispatch", "send"}
    BY DEF ScanBegin, ScanEnd, DispatchLoop, DispatchJob, At, TypeOK, ScanTypeOK, wfVars, jobVars
  <1>2. /\ OthersStay(t)
        /\ \/ pc'[t] \in {"dispatch", "send", "check"} /\ UNCHANGED <<tw, cont, active>>
           \/ cont[t] = "end"
    <2>1. CASE ScanEnd(t)
      BY <2>1, GotoMoves, ExitIsIdle DEF ScanEnd
    <2>2. CASE DispatchLoop(t)
      BY <2>2, GotoMoves DEF DispatchLoop
    <2>3. CASE ScanBegin(t) \/ \E j \in Jobs : DispatchJob(t, j)
      <3>1. UNCHANGED <<pc, tw, cont, active>>
        BY <2>3 DEF ScanBegin, DispatchJob, threadVars
      <3> QED BY <1>1, <3>1 DEF OthersStay
    <2> QED BY <2>1, <2>2, <2>3
  <1>3. \A w \in Runs : Dirty(t, w) => Dirty(t, w)'
    BY <1>2 DEF Dirty
  <1>4. SettledStays
    BY <1>1, <1>2, <1>3, SettledKeeps DEF jobVars
  <1>5. EarlyStays
    <2>1. CASE \E j \in Jobs : DispatchJob(t, j)
      <3>1. PICK j \in Jobs : DispatchJob(t, j)
        BY <2>1
      <3>2. Working(t) /\ tw[t] \in Runs
        BY <1>1 DEF Working, TypeOK, ThreadTypeOK
      <3>3. wstatus[tw[t]] \notin Early
        BY <3>2 DEF StageInv, WorkHasBegun, Early
      <3>4. \A w \in Runs \ {tw[t]} : rstatus'[w] = rstatus[w]
        BY <3>1 DEF DispatchJob, TypeOK, RequestTypeOK
      <3> QED BY <1>1, <3>3, <3>4 DEF EarlyStays, jobVars
    <2>2. CASE ~ \E j \in Jobs : DispatchJob(t, j)
      <3>1. UNCHANGED rstatus
        BY <2>2 DEF ScanBegin, ScanEnd, DispatchLoop, reqVars
      <3> QED BY <1>1, <3>1 DEF EarlyStays, jobVars
    <2> QED BY <2>1, <2>2
  <1> QED BY <1>1, <1>4, <1>5 DEF Steady, ClosedStays

LEMMA RunnerSteady ==
    ASSUME TypeOK, NEW w \in Runs, NEW j \in Jobs, RenewRequest(w, j) \/ RunnerReport(w, j)
    PROVE  Steady
  <1>1. ASSUME NEW s, rstatus[w][j] # "none", rstatus' = [rstatus EXCEPT ![w][j] = s],
               UNCHANGED <<def, wstatus, jobVars>>
        PROVE  EarlyStays /\ ClosedStays
    <2>1. \A v \in Runs, k \in Jobs : rstatus[v][k] = "none" => rstatus'[v][k] = "none"
      BY <1>1 DEF TypeOK, RequestTypeOK
    <2> QED BY <1>1, <2>1 DEF EarlyStays, ClosedStays, jobVars
  <1>2. CASE RenewRequest(w, j)
    <2>1. /\ UNCHANGED <<def, wstatus, wresult, jobVars, pc, tw, cont>>
          /\ rstatus[w][j] # "none" /\ rstatus' = [rstatus EXCEPT ![w][j] = "running"]
      BY <1>2 DEF RenewRequest, wfVars, threadVars
    <2>2. EarlyStays /\ ClosedStays
      BY <1>1, <2>1
    <2>3. SettledStays
      BY <2>1 DEF SettledStays, Dirty, jobVars
    <2> QED BY <2>1, <2>2, <2>3 DEF Steady
  <1>3. ASSUME NEW t \in Threads, NEW r, Report(t, w, j, r) PROVE Steady
    <2>1. /\ UNCHANGED <<def, wstatus, wresult, jobVars>> /\ pc[t] = "idle"
          /\ rstatus[w][j] # "none" /\ rstatus' = [rstatus EXCEPT ![w][j] = "completed"]
      BY <1>3 DEF Report, At, wfVars
    <2>2. EarlyStays /\ ClosedStays
      BY <1>1, <2>1
    <2>3. OthersStay(t)
      BY <1>3 DEF Report, OthersStay, TypeOK, ThreadTypeOK
    <2>4. SettledStays
      BY <2>1, <2>3, IdleIsClean, SettledKeeps DEF jobVars
    <2> QED BY <2>1, <2>2, <2>4 DEF Steady
  <1> QED BY <1>2, <1>3 DEF RunnerReport, FinishJob, CompleteRequest

LEMMA StartSteady ==
    ASSUME TypeOK, NEW t \in Threads, StartPending(t) \/ \E w \in Runs : BeginCancel(t, w)
    PROVE  Steady
  <1>1. /\ UNCHANGED <<def, wresult, jobVars, rstatus>>
        /\ pc[t] \in {"idle", "startPending"}
    BY DEF StartPending, BeginCancel, At, wfVars, jobVars, reqVars
  <1>2. OthersStay(t)
    BY DEF StartPending, BeginCancel, Exit, OthersStay, TypeOK, ThreadTypeOK
  <1>3. \A w \in Runs : /\ wstatus'[w] \in Early => wstatus[w] \in Early
                        /\ wstatus'[w] = "completed" => wstatus[w] = "completed"
    BY DEF StartPending, BeginCancel, wfVars, Early, TypeOK, RunTypeOK
  <1> QED BY <1>1, <1>2, <1>3, IdleIsClean, MoveSteady

\* A run with an open job has not ended, so it has no result yet.
LEMMA OpenHasNoResult ==
    ASSUME TypeOK, StageInv, CompletedRunIsClosed, NEW w \in Runs, OpenJobs(w) # {}
    PROVE  wstatus[w] # "completed" /\ wresult[w] = Empty
  BY DEF OpenJobs, Finished, CompletedRunIsClosed, StageInv, ResultComesLast

LEMMA CheckSteady ==
    ASSUME TypeOK, StageInv, CompletedRunIsClosed, NEW t \in Threads, CheckAllDone(t)
    PROVE  Steady
  <1>0. PICK w \in Runs : w = tw[t]
    BY DEF CheckAllDone, At, TypeOK, ThreadTypeOK
  <1>1. UNCHANGED <<def, jobVars, rstatus>>
    BY DEF CheckAllDone, reqVars
  <1>2. OthersStay(t)
    <2>1. Goto(t, "startPending") \/ Exit(t)
      BY DEF CheckAllDone
    <2> QED BY <2>1, GotoMoves, ExitIsIdle
  <1>3. \A v \in Runs \ {w} : /\ wstatus'[v] = wstatus[v] /\ wresult'[v] = wresult[v]
                              /\ ~ Dirty(t, v)
    BY <1>0 DEF CheckAllDone, TypeOK, RunTypeOK, Dirty
  <1>4. Match(w)' /\ (wstatus'[w] = wstatus[w]
                      \/ (wstatus'[w] = "completed" /\ OpenJobs(w) = {}))
    <2>1. CASE OpenJobs(w) = {}
      <3>1. /\ wstatus'[w] = "completed"
            /\ wresult'[w] = IF FailedJobs(w) # {} THEN "failure" ELSE "success"
        BY <1>0, <2>1 DEF CheckAllDone, TypeOK, RunTypeOK
      <3>3. FailedJobs(w) # {} <=> Bad(w)'
        BY <1>1 DEF FailedJobs, Bad, JobsOf, jobVars
      <3>4. (wresult'[w] = "success" => ~ Bad(w)') /\ (wresult'[w] = "failure" => Bad(w)')
        BY <3>1, <3>3
      <3> QED BY <2>1, <3>1, <3>4 DEF Match
    <2>2. CASE OpenJobs(w) # {}
      <3>1. wresult[w] = Empty
        BY <1>1, <2>2, OpenHasNoResult
      <3>2. UNCHANGED <<wstatus, wresult>>
        BY <1>0, <2>2 DEF CheckAllDone
      <3> QED BY <3>1, <3>2 DEF Match, Empty
    <2> QED BY <2>1, <2>2
  <1>5. EarlyStays
    BY <1>1, <1>3, <1>4 DEF EarlyStays, Early, jobVars
  <1>6. ClosedStays
    BY <1>1, <1>3, <1>4 DEF ClosedStays, OpenJobs, jobVars
  <1>7. SettledStays
    <2> SUFFICES ASSUME NEW v \in Runs \ {w}
                 PROVE  /\ wresult'[v] = wresult[v] /\ UNCHANGED jresult
                        /\ \A u \in Threads : Dirty(u, v) => Dirty(u, v)'
      BY <1>4 DEF SettledStays
    <2> QED BY <1>1, <1>2, <1>3 DEF jobVars, Dirty, OthersStay
  <1> QED BY <1>1, <1>5, <1>6, <1>7 DEF Steady

\* The scan changes pending jobs of a run that has begun; the run of a pending
\* job is open.
LEMMA ScanSteady ==
    ASSUME TypeOK, StageInv, LeftIsPending, CompletedRunIsClosed,
           NEW t \in Threads, NEW j \in Jobs, ScanJob(t, j)
    PROVE  Steady
  <1>0. PICK w \in Runs : w = tw[t]
    BY DEF ScanJob, TypeOK, ScanTypeOK, ThreadTypeOK
  <1>1. /\ UNCHANGED <<def, wstatus, wresult, rstatus, pc, tw, cont>>
        /\ lock = t /\ j \in left[t]
    BY DEF ScanJob, wfVars, reqVars, threadVars
  <1>2. pc[t] = "dispatch" /\ jstatus[w][j] = "pending"
    BY <1>0, <1>1 DEF TypeOK, ScanTypeOK, LeftIsPending
  <1>3. wstatus[w] \notin Early
    BY <1>0, <1>2 DEF StageInv, WorkHasBegun, Working, Early
  <1>4. /\ \A v \in Runs \ {w} : jstatus'[v] = jstatus[v] /\ jresult'[v] = jresult[v]
        /\ \A k \in Jobs \ {j} : jresult'[w][k] = jresult[w][k]
    BY <1>0 DEF ScanJob, LeaveJob, SkipReadyJob, QueueReadyJob, jobVars, TypeOK, JobTypeOK
  <1>5. EarlyStays /\ ClosedStays
    BY <1>1, <1>3, <1>4 DEF EarlyStays, ClosedStays
  <1>6. \A u \in Threads, v \in Runs : Dirty(u, v)' <=> Dirty(u, v)
    BY <1>1 DEF Dirty
  <1>7. CASE j \in JobsOf(w)
    <2>1. OpenJobs(w) # {}
      BY <1>2, <1>7 DEF OpenJobs, Finished
    <2>2. wresult'[w] = Empty
      BY <1>1, <1>2, <2>1, OpenHasNoResult
    <2>3. Match(w)'
      BY <2>2 DEF Match, Empty
    <2> QED BY <1>1, <1>4, <1>5, <1>6, <2>3 DEF Steady, SettledStays
  <1>8. CASE j \notin JobsOf(w)
    BY <1>1, <1>4, <1>5, <1>6, <1>8, DefFacts DEF Steady, SettledStays, TypeOK
  <1> QED BY <1>7, <1>8

\* A completion is handled for a run that has begun, and its goroutine is bound
\* to look at the run.
LEMMA CompletedSteady ==
    ASSUME TypeOK, StageInv, NEW t \in Threads, OnJobCompleted(t)
    PROVE  Steady
  <1>0. PICK w \in Runs : w = tw[t]
    BY DEF OnJobCompleted, At, TypeOK, ThreadTypeOK
  <1>1. UNCHANGED <<def, wstatus, wresult, rstatus>> /\ pc[t] = "complete"
    BY DEF OnJobCompleted, At, wfVars, reqVars
  <1>2. CASE w \in stored
    <2>1. wstatus[w] \notin Early
      BY <1>0, <1>1 DEF StageInv, WorkHasBegun, Working, Early
    <2>2. \A v \in Runs \ {w} : jstatus'[v] = jstatus[v] /\ jresult'[v] = jresult[v]
      BY <1>0, <1>2 DEF OnJobCompleted, TypeOK, JobTypeOK
    <2>3. /\ pc'[t] = "dispatch" /\ cont'[t] = "check" /\ tw'[t] = w
          /\ OthersStay(t)
      BY <1>0, <1>2 DEF OnJobCompleted, OthersStay, TypeOK, ThreadTypeOK
    <2>4. Dirty(t, w)' /\ \A v \in Runs : ~ Dirty(t, v)
      BY <1>1, <2>3 DEF Dirty
    <2>5. SettledStays
      BY <1>1, <2>2, <2>3, <2>4 DEF SettledStays, Dirty, OthersStay
    <2> QED BY <1>1, <2>1, <2>2, <2>5 DEF Steady, EarlyStays, ClosedStays
  <1>3. CASE w \notin stored
    <2>1. UNCHANGED jobVars /\ Exit(t)
      BY <1>0, <1>3 DEF OnJobCompleted
    <2>2. OthersStay(t) /\ \A v \in Runs : ~ Dirty(t, v)
      BY <1>1, <2>1, ExitIsIdle DEF Dirty
    <2> QED BY <1>1, <2>1, <2>2, MoveSteady
  <1> QED BY <1>2, <1>3

\* CancelOpenJobs touches one run.
LEMMA CancelIsLocal ==
    ASSUME TypeOK, NEW w \in Runs, NEW S, CancelOpenJobs(w, S)
    PROVE  /\ \A v \in Runs \ {w} : jstatus'[v] = jstatus[v] /\ jresult'[v] = jresult[v]
           /\ \A j \in Jobs : jstatus'[w][j] = IF j \in S THEN "completed" ELSE jstatus[w][j]
  BY DEF CancelOpenJobs, TypeOK, JobTypeOK

\* cancelWorkflow ends every job that has not ended.
LEMMA CancelSteady ==
    ASSUME TypeOK, StageInv, NEW t \in Threads, CancelWorkflow(t)
    PROVE  Steady
  <1>0. PICK w \in Runs : w = active[t]
    BY DEF CancelWorkflow, At, TypeOK, ThreadTypeOK
  <1> DEFINE S == {j \in JobsOf(w) : jstatus[w][j] \in {"pending", "queued"}}
  <1>1. /\ UNCHANGED <<def, rstatus>> /\ pc[t] = "cancel" /\ CancelOpenJobs(w, S)
        /\ wstatus' = [wstatus EXCEPT ![w] = "completed"]
        /\ wresult' = [wresult EXCEPT ![w] = "cancelled"]
    BY <1>0 DEF CancelWorkflow, At, reqVars
  <1>2. \A v \in Runs : /\ wstatus'[v] = IF v = w THEN "completed" ELSE wstatus[v]
                        /\ wresult'[v] = IF v = w THEN "cancelled" ELSE wresult[v]
    BY <1>1 DEF TypeOK, RunTypeOK
  <1>3. /\ \A v \in Runs \ {w} : jstatus'[v] = jstatus[v] /\ jresult'[v] = jresult[v]
        /\ \A j \in Jobs : jstatus'[w][j] = IF j \in S THEN "completed" ELSE jstatus[w][j]
    BY <1>1, CancelIsLocal
  <1>4. OthersStay(t)
    BY DEF CancelWorkflow, Exit, OthersStay, TypeOK, ThreadTypeOK
  <1>5. EarlyStays
    BY <1>1, <1>2, <1>3 DEF EarlyStays, Early
  <1>6. \A j \in JobsOf(w) : jstatus'[w][j] \in Finished
    <2>1. \A j \in JobsOf(w) : j \in Jobs /\ jstatus[w][j] \in JobStatuses
      BY DefFacts DEF TypeOK, JobTypeOK
    <2> QED BY <1>3, <2>1 DEF JobStatuses, Finished
  <1>7. ClosedStays
    BY <1>2, <1>6 DEF ClosedStays
  <1>8. Match(w)'
    BY <1>2 DEF Match
  <1>9. \A v \in Runs : ~ Dirty(t, v)
    BY <1>1, IdleIsClean
  <1>10. SettledStays
    BY <1>2, <1>3, <1>4, <1>8, <1>9 DEF SettledStays, Dirty, OthersStay
  <1> QED BY <1>1, <1>5, <1>7, <1>10 DEF Steady

\* A timeout fires in a run that still runs: it has no result to be wrong.
LEMMA TimeoutSteady ==
    ASSUME TypeOK, StageInv, NEW t \in Threads, NEW w \in Runs, NEW late \in SUBSET Jobs,
           CheckJobTimeouts(t, w, late)
    PROVE  Steady
  <1>1. /\ UNCHANGED <<def, wstatus, wresult, rstatus>> /\ pc[t] = "idle"
        /\ wstatus[w] = "running" /\ CancelOpenJobs(w, late)
    BY DEF CheckJobTimeouts, At, wfVars, reqVars
  <1>2. \A v \in Runs \ {w} : jstatus'[v] = jstatus[v] /\ jresult'[v] = jresult[v]
    BY <1>1, CancelIsLocal
  <1>3. OthersStay(t)
    BY DEF CheckJobTimeouts, OthersStay, TypeOK, ThreadTypeOK
  <1>4. wresult'[w] = Empty
    BY <1>1 DEF StageInv, ResultComesLast
  <1>5. Match(w)'
    BY <1>4 DEF Match, Empty
  <1>6. \A v \in Runs : ~ Dirty(t, v)
    BY <1>1, IdleIsClean
  <1>7. SettledStays
    BY <1>1, <1>2, <1>3, <1>5, <1>6 DEF SettledStays, Dirty, OthersStay
  <1> QED BY <1>1, <1>2, <1>7 DEF Steady, EarlyStays, ClosedStays, Early

LEMMA StillSteady ==
    ASSUME UNCHANGED <<def, wstatus, wresult, jobVars, rstatus, pc, tw, cont>> PROVE Steady
  BY DEF Steady, EarlyStays, ClosedStays, SettledStays, Dirty, jobVars

LEMMA NextSteady ==
    ASSUME TypeOK, StageInv, LeftIsPending, CompletedRunIsClosed, [Next]_vars PROVE Steady
  <1>1. ASSUME NEW t \in Threads, ThreadStep(t) PROVE Steady
    BY <1>1, SubmitSteady, LoopSteady, StartSteady, CheckSteady, ScanSteady, CompletedSteady,
       CancelSteady DEF ThreadStep
  <1>2. ASSUME NEW t \in Threads, NEW w \in Runs,
               \/ HandleSubmitWorkflow(t, w) \/ RerunWorkflowRun(t, w)
               \/ DispatchWorkflow(t, w) \/ TriggerWorkflow(t, w)
        PROVE  Steady
    BY <1>2, SubmitSteady
       DEF HandleSubmitWorkflow, RerunWorkflowRun, DispatchWorkflow, TriggerWorkflow
  <1>3. ASSUME NEW t \in Threads, NEW w \in Runs,
               HandleCancelWorkflow(t, w) \/ HandleCancelWorkflowRun(t, w)
        PROVE  Steady
    BY <1>3, StartSteady DEF HandleCancelWorkflow, HandleCancelWorkflowRun
  <1>4. ASSUME NEW w \in Runs, DeleteRun(w) PROVE Steady
    BY <1>4, StillSteady DEF DeleteRun, reqVars, threadVars
  <1>5. CASE UNCHANGED vars
    BY <1>5, StillSteady DEF vars, wfVars, reqVars, threadVars
  <1> QED
    BY <1>1, <1>2, <1>3, <1>4, <1>5, RunnerSteady, TimeoutSteady DEF Next

LEMMA SteadyKeeps ==
    ASSUME TypeOK, Steady, JobsAdvance, EarlyIsUntouched, CompletedRunIsClosed, ResultIsSettled
    PROVE  EarlyIsUntouched' /\ CompletedRunIsClosed' /\ ResultIsSettled'
  <1> USE DEF Steady
  <1>1. EarlyIsUntouched'
    BY DEF EarlyIsUntouched, EarlyStays
  <1>2. CompletedRunIsClosed'
    <2>1. \A w \in Runs : JobsOf(w)' = JobsOf(w) /\ JobsOf(w) \subseteq Jobs
      BY DefFacts DEF JobsOf, TypeOK
    <2> QED BY <2>1 DEF CompletedRunIsClosed, ClosedStays, JobsAdvance, Finished
  <1>3. ResultIsSettled'
    <2> SUFFICES ASSUME NEW w \in Runs, \A t \in Threads : ~ Dirty(t, w)' PROVE Match(w)'
      BY DEF ResultIsSettled
    <2>1. CASE Match(w)'
      BY <2>1
    <2>2. CASE ~ Match(w)'
      <3>1. /\ wresult'[w] = wresult[w]
            /\ \A j \in JobsOf(w) : jresult'[w][j] = jresult[w][j]
            /\ \A t \in Threads : ~ Dirty(t, w)
        BY <2>2 DEF SettledStays
      <3>2. Match(w)
        BY <3>1 DEF ResultIsSettled
      <3>3. Bad(w)' <=> Bad(w)
        BY <3>1 DEF Bad, JobsOf
      <3> QED BY <3>1, <3>2, <3>3 DEF Match
    <2> QED BY <2>1, <2>2
  <1> QED BY <1>1, <1>2, <1>3

-----------------------------------------------------------------------------
\* max-parallel.  Every step but the one that queues a job leaves a run's limit
\* and only shrinks the set of its queued jobs; a submission sets the limit of
\* a run that has none queued.

ParStays ==
    \A w \in Runs :
        /\ \A j \in Jobs : jstatus'[w][j] = "queued" => jstatus[w][j] = "queued"
        /\ maxPar'[w] = maxPar[w] \/ \A j \in Jobs : jstatus'[w][j] # "queued"

LEMMA ActiveIsFinite ==
    ASSUME TypeOK, NEW w \in Runs, NEW g
    PROVE  /\ MatrixActive(w, g) \subseteq Jobs /\ IsFiniteSet(MatrixActive(w, g))
           /\ Cardinality(MatrixActive(w, g)) \in Nat
  <1>1. MatrixActive(w, g) \subseteq Jobs
    BY DefFacts DEF MatrixActive, TypeOK
  <1>2. IsFiniteSet(MatrixActive(w, g))
    BY <1>1, ConstantsAssumption, FS_Subset
  <1> QED BY <1>1, <1>2, FS_CardinalityType

\* MaxParallelBound in terms of the set the scan counts.
ParBound ==
    \A w \in Runs : maxPar[w] > 0 =>
        \A j \in JobsOf(w) : MatrixOf(w, j) # Empty =>
            Cardinality(MatrixActive(w, MatrixOf(w, j))) <= maxPar[w]

LEMMA ParBoundIsBound == MaxParallelBound <=> ParBound
  BY DEF MaxParallelBound, ParBound, MatrixActive

LEMMA ParKeeps ==
    ASSUME TypeOK, TypeOK', UNCHANGED def, ParStays, ParBound PROVE ParBound'
  <1> SUFFICES ASSUME NEW w \in Runs, maxPar'[w] > 0, NEW j \in JobsOf(w), MatrixOf(w, j) # Empty
               PROVE  Cardinality(MatrixActive(w, MatrixOf(w, j)))' <= maxPar'[w]
    BY DEF ParBound, JobsOf, MatrixOf
  <1>1. PICK g : g = MatrixOf(w, j) /\ g = MatrixOf(w, j)'
    BY DEF MatrixOf
  <1>2. JobsOf(w) \subseteq Jobs
    BY DefFacts DEF TypeOK
  <1>3. PICK A : A = MatrixActive(w, g)
    OBVIOUS
  <1>4. PICK B : B = MatrixActive(w, g)'
    OBVIOUS
  <1>5. B \subseteq A
    BY <1>2, <1>3, <1>4 DEF MatrixActive, JobsOf, MatrixOf, ParStays
  <1>6. IsFiniteSet(A)
    BY <1>3, ActiveIsFinite
  <1>7. Cardinality(B) <= Cardinality(A) /\ Cardinality(A) \in Nat /\ Cardinality(B) \in Nat
    BY <1>5, <1>6, FS_Subset, FS_CardinalityType
  <1>8. maxPar[w] \in Nat /\ maxPar'[w] \in Nat
    BY DEF TypeOK, RunTypeOK
  <1>9. CASE maxPar'[w] = maxPar[w]
    <2>1. Cardinality(A) <= maxPar[w]
      BY <1>1, <1>3, <1>9 DEF ParBound
    <2>2. Cardinality(B) <= maxPar'[w]
      BY <1>7, <1>8, <1>9, <2>1
    <2> QED BY <1>1, <1>4, <2>2
  <1>10. CASE \A k \in Jobs : jstatus'[w][k] # "queued"
    <2>1. B = {}
      BY <1>2, <1>4, <1>10 DEF MatrixActive, JobsOf
    <2>2. Cardinality(B) = 0
      BY <2>1, FS_EmptySet
    <2> QED BY <1>1, <1>4, <1>8, <2>2
  <1> QED BY <1>9, <1>10 DEF ParStays

\* The scan queues a job of a matrix group only below the limit.
LEMMA QueueKeeps ==
    ASSUME TypeOK, TypeOK', LeftIsPending, ParBound,
           NEW t \in Threads, NEW j \in Jobs, ScanJob(t, j)
    PROVE  ParBound'
  <1>0. PICK w \in Runs : w = tw[t]
    BY DEF ScanJob, TypeOK, ScanTypeOK, ThreadTypeOK
  <1>1. UNCHANGED <<def, maxPar>> /\ lock = t /\ j \in left[t]
    BY DEF ScanJob, wfVars
  <1>2. jstatus[w][j] = "pending"
    BY <1>0, <1>1 DEF LeftIsPending
  <1>3. CASE ~ QueueReadyJob(t, w, j)
    <2>1. LeaveJob(t, w, j) \/ SkipReadyJob(t, w, j)
      BY <1>0, <1>3 DEF ScanJob
    <2>2. ParStays
      BY <1>1, <2>1 DEF LeaveJob, SkipReadyJob, jobVars, ParStays, TypeOK, JobTypeOK
    <2> QED BY <1>1, <2>2, ParKeeps
  <1>4. CASE QueueReadyJob(t, w, j)
    <2>1. /\ ~ AtMaxParallel(w, j)
          /\ \A v \in Runs, k \in Jobs :
                jstatus'[v][k] = IF v = w /\ k = j THEN "queued" ELSE jstatus[v][k]
      BY <1>4 DEF QueueReadyJob, TypeOK, JobTypeOK
    <2> SUFFICES ASSUME NEW v \in Runs, maxPar[v] > 0, NEW i \in JobsOf(v),
                        MatrixOf(v, i) # Empty
                 PROVE  Cardinality(MatrixActive(v, MatrixOf(v, i)))' <= maxPar[v]
      BY <1>1 DEF ParBound, JobsOf, MatrixOf
    <2>2. PICK g : g = MatrixOf(v, i) /\ g = MatrixOf(v, i)'
      BY <1>1 DEF MatrixOf
    <2>3. PICK A : A = MatrixActive(v, g)
      OBVIOUS
    <2>4. PICK B : B = MatrixActive(v, g)'
      OBVIOUS
    <2>5. JobsOf(v) \subseteq Jobs
      BY DefFacts DEF TypeOK
    <2>6. Cardinality(A) <= maxPar[v]
      BY <2>2, <2>3 DEF ParBound
    <2>7. IsFiniteSet(A) /\ Cardinality(A) \in Nat
      BY <2>3, ActiveIsFinite
    <2>8. CASE v = w /\ MatrixOf(w, j) = g
      <3>1. j \notin A
        BY <1>2, <2>3, <2>8 DEF MatrixActive
      <3>2. B \subseteq A \cup {j}
        BY <1>1, <2>1, <2>3, <2>4, <2>5 DEF MatrixActive, JobsOf, MatrixOf
      <3>3. A \ {j} = A
        BY <3>1
      <3>4. Cardinality(A) < maxPar[v]
        <4>1. ~ (Cardinality(A \ {j}) >= maxPar[v])
          BY <2>1, <2>2, <2>3, <2>8 DEF AtMaxParallel
        <4>2. maxPar[v] \in Nat
          BY DEF TypeOK, RunTypeOK
        <4> QED BY <2>7, <3>3, <4>1, <4>2
      <3>5. /\ IsFiniteSet(A \cup {j})
            /\ Cardinality(A \cup {j}) = Cardinality(A) + 1
        BY <2>7, <3>1, FS_AddElement
      <3>6. Cardinality(B) <= Cardinality(A \cup {j}) /\ Cardinality(B) \in Nat
        BY <3>2, <3>5, FS_Subset, FS_CardinalityType
      <3>7. maxPar[v] \in Nat
        BY DEF TypeOK, RunTypeOK
      <3>8. Cardinality(B) <= maxPar[v]
        BY <2>7, <3>4, <3>5, <3>6, <3>7
      <3> QED BY <2>2, <2>4, <3>8
    <2>9. CASE ~ (v = w /\ MatrixOf(w, j) = g)
      <3>1. B = A
        BY <1>1, <2>1, <2>3, <2>4, <2>5, <2>9 DEF MatrixActive, JobsOf, MatrixOf
      <3> QED BY <2>2, <2>4, <2>6, <3>1
    <2> QED BY <2>8, <2>9
  <1> QED BY <1>3, <1>4

LEMMA SubmitPar ==
    ASSUME TypeOK, StageInv, EarlyIsUntouched, NEW t \in Threads, NEW w \in Runs,
           SubmitWorkflow(t, w)
    PROVE  ParStays
  <1>1. w = nextRun /\ UNCHANGED jstatus
    BY DEF SubmitWorkflow, jobVars
  <1>2. w >= nextRun
    BY <1>1 DEF TypeOK, RunTypeOK
  <1>3. \A j \in Jobs : jstatus[w][j] = "pending"
    BY <1>2 DEF StageInv, RunsInOrder, EarlyIsUntouched, Early
  <1>4. \A v \in Runs \ {w} : maxPar'[v] = maxPar[v]
    BY DEF SubmitWorkflow, TypeOK, RunTypeOK
  <1> QED BY <1>1, <1>3, <1>4 DEF ParStays

\* Only a submission sets a limit.
LEMMA LimitStays ==
    ASSUME [Next]_vars, ~ \E t \in Threads, w \in Runs : SubmitWorkflow(t, w)
    PROVE  UNCHANGED maxPar
  <1>1. ASSUME NEW t \in Threads, ThreadStep(t) PROVE UNCHANGED maxPar
    BY <1>1 DEF ThreadStep, LookupActive, EnqueuePending, StoreRun, ScanBegin, ScanJob, ScanEnd,
       DispatchJob, DispatchLoop, OnJobCompleted, CheckAllDone, StartPending, CancelWorkflow, wfVars
  <1>2. ASSUME NEW w \in Runs, NEW j \in Jobs, RenewRequest(w, j) \/ RunnerReport(w, j)
        PROVE  UNCHANGED maxPar
    BY <1>2 DEF RenewRequest, RunnerReport, FinishJob, CompleteRequest, Report, wfVars
  <1>3. ASSUME NEW t \in Threads, NEW w \in Runs,
               \/ HandleCancelWorkflow(t, w) \/ HandleCancelWorkflowRun(t, w)
               \/ \E late \in SUBSET Jobs : CheckJobTimeouts(t, w, late)
        PROVE  UNCHANGED maxPar
    BY <1>3 DEF HandleCancelWorkflow, HandleCancelWorkflowRun, BeginCancel, CheckJobTimeouts, wfVars
  <1>4. CASE UNCHANGED vars
    BY <1>4 DEF vars, wfVars
  <1> QED
    BY <1>1, <1>2, <1>3, <1>4 DEF Next, HandleSubmitWorkflow, RerunWorkflowRun,
       DispatchWorkflow, TriggerWorkflow, DeleteRun

LEMMA NextPar ==
    ASSUME TypeOK, SchedInv, StageInv, EarlyIsUntouched, CompletedRunIsClosed, ParBound,
           [Next]_vars
    PROVE  ParBound'
  <1>1. TypeOK' /\ LeftIsPending /\ TodoIsBusy
    BY NextType DEF SchedInv
  <1>2. UNCHANGED def
    BY <1>1, NextSteady DEF Steady
  <1>3. CASE \E t \in Threads, w \in Runs : SubmitWorkflow(t, w)
    BY <1>1, <1>2, <1>3, SubmitPar, ParKeeps
  <1>4. CASE \E t \in Threads, j \in Jobs : ScanJob(t, j)
    BY <1>1, <1>4, QueueKeeps
  <1>5. CASE /\ ~ \E t \in Threads, w \in Runs : SubmitWorkflow(t, w)
             /\ ~ \E t \in Threads, j \in Jobs : ScanJob(t, j)
    <2>1. UNCHANGED maxPar
      BY <1>5, LimitStays
    <2>2. JobsMayEnd
      <3>1. CASE Next
        BY <1>1, <1>5, <3>1, StepKinds
           DEF Quiet, ScanBegin, ScanEnd, DispatchJob, jobVars, JobsMayEnd
      <3>2. CASE UNCHANGED vars
        BY <3>2 DEF vars, jobVars, JobsMayEnd
      <3> QED BY <3>1, <3>2
    <2>3. ParStays
      BY <2>1, <2>2 DEF ParStays, JobsMayEnd
    <2> QED BY <1>1, <1>2, <2>3, ParKeeps
  <1> QED BY <1>3, <1>4, <1>5

-----------------------------------------------------------------------------
LEMMA InitRun == Init => RunInv
  <1> SUFFICES ASSUME Init PROVE RunInv
    OBVIOUS
  <1>1. /\ \A w \in Runs : /\ wstatus[w] = "new" /\ wresult[w] = Empty /\ maxPar[w] = 0
                           /\ \A j \in Jobs : jstatus[w][j] = "pending" /\ rstatus[w][j] = "none"
        /\ \A t \in Threads : pc[t] = "idle" /\ cont[t] = "end"
        /\ stored = {}
    BY DEF Init
  <1>2. StageInv
    BY <1>1 DEF StageInv, RunsInOrder, StoredIsKnown, SubmitterIsOne, WorkHasBegun, CancelIsLate,
                ResultComesLast, Submitting, Working
  <1>3. EarlyIsUntouched /\ CompletedRunIsClosed /\ MaxParallelBound
    BY <1>1 DEF EarlyIsUntouched, CompletedRunIsClosed, MaxParallelBound
  <1>4. ResultIsSettled
    BY <1>1 DEF ResultIsSettled, Match, Empty
  <1> QED BY <1>2, <1>3, <1>4 DEF RunInv

LEMMA NextRunInv ==
    ASSUME TypeOK, SchedInv, RunInv, [Next]_vars PROVE RunInv'
  <1> USE DEF RunInv
  <1>1. StageInv'
    BY NextStages
  <1>2. Steady
    BY NextSteady DEF SchedInv
  <1>3. EarlyIsUntouched' /\ CompletedRunIsClosed' /\ ResultIsSettled'
    BY <1>2, NextSched, SteadyKeeps
  <1>4. ParBound'
    BY NextPar, ParBoundIsBound
  <1>5. MaxParallelBound'
    BY <1>4 DEF MaxParallelBound, ParBound, MatrixActive
  <1> QED BY <1>1, <1>3, <1>5

\* The life of a run, in one inductive invariant: its stages, what waits, what
\* is closed, its limit and its result.
THEOREM RunInvariant == Spec => []RunInv
  <1>1. Init => RunInv
    BY InitRun
  <1>2. TypeOK /\ SchedInv /\ RunInv /\ [Next]_vars => RunInv'
    BY NextRunInv
  <1> QED BY <1>1, <1>2, TypeCorrect, SchedInvariant, PTL DEF Spec

\* A completed run, ended by its last job or by a cancellation, has no job
\* that dispatchReadyJobs could still start.
THEOREM CompletedIsClosed == Spec => []CompletedRunIsClosed
  <1>1. RunInv => CompletedRunIsClosed
    BY DEF RunInv
  <1> QED BY <1>1, RunInvariant, PTL

\* However many goroutines scan a run, no more jobs of a matrix group are
\* queued or running than max-parallel allows.
THEOREM MaxParallelHolds == Spec => []MaxParallelBound
  <1>1. RunInv => MaxParallelBound
    BY DEF RunInv
  <1> QED BY <1>1, RunInvariant, PTL

\* A run queued behind its concurrency group is untouched: no job of it was
\* scanned, sent or reported.
THEOREM WaitingIsUntouched == Spec => []WaitingRunIsUntouched
  <1>1. TypeOK /\ RunInv => WaitingRunIsUntouched
    BY DefFacts DEF TypeOK, RunInv, EarlyIsUntouched, Early, WaitingRunIsUntouched
  <1> QED BY <1>1, TypeCorrect, RunInvariant, PTL

\* When no goroutine works on a run, the result onJobCompleted stored agrees
\* with the results of its jobs, late reports included.
THEOREM ResultIsThatOfTheJobs == Spec => []ResultMatchesJobs
  <1>1. TypeOK /\ RunInv => ResultMatchesJobs
    BY DEF TypeOK, RunTypeOK, RunInv, ResultIsSettled, Dirty, Match, Bad, ResultMatchesJobs
  <1> QED BY <1>1, TypeCorrect, RunInvariant, PTL
=============================================================================
