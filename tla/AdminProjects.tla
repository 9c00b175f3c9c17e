--------------------------- MODULE AdminProjects ---------------------------
(***************************************************************************)
(* The process and project managers of sockerless-admin: HTTP requests     *)
(* that start, stop, create and delete, the goroutine that waits for each  *)
(* child, and the children themselves.                                     *)
(*                                                                         *)
(* A step ends where the code releases pm.mu or m.mu, waits, or makes a    *)
(* system call.  An entry <<n, g>> is the g-th ManagedProcess registered   *)
(* under the name n: requests and goroutines keep pointers to entries that *)
(* the map may have lost.  A run stands for what one call of Start makes:  *)
(* the exec.Cmd, its context, its done channel and its child.              *)
(*                                                                         *)
(* There is one project.  Only its operation lock, which knows Start, Stop *)
(* and Delete, keeps requests apart.  Ports, logs, exit codes and the      *)
(* health that the component registry shows are left out.                  *)
(***************************************************************************)
EXTENDS Naturals, Sequences, FiniteSets

CONSTANTS Declared,  \* the instances of the project, in the order declared
          Kind,      \* Kind[n]: "sim", "backend" or "bleephub"
          SimOf,     \* SimOf[n]: the sim that backend n names, or None
          Static,    \* processes of the configuration file
          Requests,  \* requests that may be in flight at a time
          None,
          MaxRuns,   \* bounds: calls of Start that make a child,
          MaxGen     \*   registrations of one name

Instances == {Declared[i] : i \in DOMAIN Declared}
Names == Instances \cup Static
Runs == 1 .. MaxRuns
Entries == Names \X (1 .. MaxGen)

ASSUME AdminAssumption ==
    /\ Declared \in Seq(Names) /\ Declared # <<>>
    /\ Kind \in [Instances -> {"sim", "backend", "bleephub"}]
    /\ SimOf \in [Instances -> Instances \cup {None}]
    /\ Instances \cap Static = {}
    /\ None \notin Names \cup {"start", "stop", "delete"}
    /\ MaxRuns \in Nat /\ MaxGen \in Nat \ {0}

VARIABLES
  \* ProjectManager
  stored,     \* the project is in m.projects
  file,       \* the project has a file in storeDir
  opLock,     \* m.opLock of the project, None when it is free
  \* ProcessManager
  processes,  \* processes[n]: generation of the entry under n, 0 for none
  proc,       \* proc[e]: the fields of entry e
  gen,        \* gen[n]: entries made under n
  \* runs
  runs,       \* number of runs made
  entry,      \* entry[r]: the entry that run r belongs to
  child,      \* child[r]: the operating system's side of r
  killed,     \* runs with SIGKILL sent or the context over, until the child ends
  closed,     \* runs whose done channel is closed
  panicked,   \* runs whose done channel was closed twice
  monitor,    \* monitor[r]: where the goroutine that waits for r is
  \* requests
  req,        \* req[q]: where request q is, and what it holds
  \* history
  reused,     \* entries that were started while their process was stopping
  lost        \* runs whose entry Create replaced, and children that outlived
              \*   the program in the hands of other requests than its shutdown

project == <<stored, file, opLock>>
table == <<processes, proc, gen>>
os == <<runs, entry, child, killed, closed, panicked>>
history == <<reused, lost>>
vars == <<project, table, os, monitor, req, history>>

-----------------------------------------------------------------------------
\* Types.

Ops == {"create", "start", "stop", "delete", "pstart", "pstop", "shutdown"}
Entry == [status : {"stopped", "starting", "running", "stopping", "failed"},
          cmd : 0 .. MaxRuns, cancel : 0 .. MaxRuns, done : 0 .. MaxRuns]
Child == {"none", "command", "live", "exited"}
Monitor == [at : {"none", "wait", "unlocked", "ended"},
            done : 0 .. MaxRuns, cancel : 0 .. MaxRuns]
At == {"idle", "save", "start", "spawn", "spawned", "health", "boot", "stop",
       "wait", "reap", "after", "remove", "forget", "unlink", "unlock", "list", "sweep"}
Frame == [op : Ops \cup {"none"}, at : At, n : Names \cup {None},
          i : 0 .. Len(Declared) + 1, g : 0 .. MaxGen, r : 0 .. MaxRuns,
          cmd : 0 .. MaxRuns, mine : SUBSET Runs, todo : SUBSET Names]

Idle == [op |-> "none", at |-> "idle", n |-> None, i |-> 0, g |-> 0, r |-> 0,
         cmd |-> 0, mine |-> {}, todo |-> {}]
Fresh == [status |-> "stopped", cmd |-> 0, cancel |-> 0, done |-> 0]
NoMonitor == [at |-> "none", done |-> 0, cancel |-> 0]

-----------------------------------------------------------------------------
\* The order of instances.

\* Mutant: backends before the sims they use.
Group_BackendsFirst(k) == CASE k = "backend" -> 1 [] k = "sim" -> 2 [] OTHER -> 3

\* Sims, then backends, then bleephubs.
Group(k) == CASE k = "sim" -> 1 [] k = "backend" -> 2 [] OTHER -> 3

\* Whether the i-th instance declared comes before the j-th.
Before(i, j) ==
    LET a == Group(Kind[Declared[i]])
        b == Group(Kind[Declared[j]])
    IN a < b \/ (a = b /\ i < j)

\* orderInstancesForStart: the groups one after the other, each in the order
\* declared; Place(i) is where the i-th instance declared comes to stand.
Place(i) == Cardinality({j \in DOMAIN Declared : Before(j, i)}) + 1
Order == [m \in DOMAIN Declared |->
            Declared[CHOOSE i \in DOMAIN Declared : Place(i) = m]]

-----------------------------------------------------------------------------
\* Where a request goes on.

Live(r) == child[r] = "live"

\* A Stop waits for the end of child r.
BeingStopped(r) ==
    \E q \in Requests : req[q].at \in {"wait", "reap"} /\ req[q].cmd = r

Busy(n) == /\ processes[n] # 0
           /\ proc[<<n, processes[n]>>].status \in {"running", "starting"}

\* The commands of the processes of S that run.
Running(S) ==
    {r \in Runs : \E n \in S :
        /\ processes[n] # 0 /\ proc[<<n, processes[n]>>].status = "running"
        /\ proc[<<n, processes[n]>>].cmd = r}

\* What is left of a request when its last process has been stopped: Start
\* has failed and returns, as Stop does; Delete goes on to forget the project;
\* a shutdown goes on to procMgr.StopAll.
Stopped(f) ==
    CASE f.op = "delete" -> [f EXCEPT !.at = "remove", !.i = 1]
      [] f.op = "shutdown" -> [f EXCEPT !.at = "list", !.i = 0]
      [] OTHER -> [f EXCEPT !.at = "unlock"]

\* The next call of pm.Stop of rollback and stopProcesses: from instance j of
\* the order down to the first.
Down(f, j) ==
    IF j = 0 THEN Stopped(f)
    ELSE [f EXCEPT !.at = "stop", !.i = j, !.n = Order[j]]

\* The next call of pm.Start of ProjectManager.Start.
Up(f, j) ==
    IF j > Len(Order) THEN [f EXCEPT !.at = "unlock", !.i = j]
    ELSE [f EXCEPT !.at = "start", !.i = j, !.n = Order[j]]

\* pm.Start or pm.Stop returned; what it held is gone.
Returned(f) == [f EXCEPT !.g = 0, !.r = 0, !.cmd = 0]

StartReturns(f, ok) ==
    CASE f.op = "pstart" -> Idle
      [] f.op = "start" /\ ok -> [Returned(f) EXCEPT !.at = "health"]
      [] OTHER -> Down(Returned(f), f.i - 1)

\* The error of pm.Stop is ignored, or only reported.
StopReturns(f) ==
    CASE f.op = "pstop" -> Idle
      [] f.op = "shutdown" /\ f.i = 0 -> [Returned(f) EXCEPT !.at = "sweep"]
      [] OTHER -> Down(Returned(f), f.i - 1)

Goto(q, f) == req' = [req EXCEPT ![q] = f]

-----------------------------------------------------------------------------
\* Requests.

\* Create holds m.mu all along.
Creating == \E q \in Requests : req[q].op = "create"
ShuttingDown == \E q \in Requests : req[q].op = "shutdown"

\* AddProcess for every name of S: a new entry, whatever the name had.
AddProcesses(S) ==
    /\ \A n \in S : gen[n] < MaxGen
    /\ gen' = [n \in Names |-> IF n \in S THEN gen[n] + 1 ELSE gen[n]]
    /\ proc' = [e \in Entries |->
                  IF e[1] \in S /\ e[2] = gen'[e[1]] THEN Fresh ELSE proc[e]]

\* Bound: a shutdown can register what the next start of the program needs.
Room == \A n \in Names : gen[n] + (IF ShuttingDown THEN 1 ELSE 0) < MaxGen

\* Create up to SaveProject: new entries, whatever the names had.  A refusal
\* changes nothing.
Create(q) ==
    /\ req[q] = Idle /\ ~Creating /\ Room
    /\ ~stored
    /\ AddProcesses(Instances)
    /\ processes' = [n \in Names |->
                       IF n \in Instances THEN gen'[n] ELSE processes[n]]
    /\ lost' = lost \cup {r \in Runs :
                            \E n \in Instances : entry[r] = <<n, processes[n]>>}
    /\ Goto(q, [Idle EXCEPT !.op = "create", !.at = "save"])
    /\ UNCHANGED <<project, os, monitor, reused>>

\* SaveProject; when it fails the new entries are removed again, but for those
\* that somebody started meanwhile.
CreateEnd(q) ==
    /\ req[q].at = "save"
    /\ \/ stored' = TRUE /\ file' = TRUE /\ UNCHANGED processes
       \/ /\ processes' = [n \in Names |-> IF n \in Instances /\ ~Busy(n)
                                           THEN 0 ELSE processes[n]]
          /\ UNCHANGED <<stored, file>>
    /\ Goto(q, Idle)
    /\ UNCHANGED <<opLock, proc, gen, os, monitor, history>>

\* ProjectManager.Start, Stop and Delete up to their first process, with
\* tryLockOp; a request that finds the project busy changes nothing.  Stop and
\* Delete answer for the children that run now.
ProjectRequest(q, op) ==
    /\ req[q] = Idle /\ ~Creating
    /\ stored /\ opLock = None
    /\ opLock' = op
    /\ LET f == [Idle EXCEPT !.op = op]
       IN Goto(q, IF op = "start" THEN Up(f, 1)
                  ELSE Down([f EXCEPT !.mine = Running(Instances)], Len(Order)))
    /\ UNCHANGED <<stored, file, table, os, monitor, history>>

\* A signal: projectMgr.StopAll, then procMgr.StopAll, then the exit, with the
\* server going on meanwhile.
Shutdown(q) ==
    /\ req[q] = Idle /\ ~Creating /\ ~ShuttingDown /\ Room
    /\ LET f == [Idle EXCEPT !.op = "shutdown", !.mine = Running(Instances)]
       IN Goto(q, IF stored THEN Down(f, Len(Order)) ELSE Stopped(f))
    /\ UNCHANGED <<project, table, os, monitor, history>>

-----------------------------------------------------------------------------
\* ProcessManager.Start

EntryOf(f) == <<f.n, f.g>>

\* SIGKILL, or the cancel function, for the runs of S; 0 stands for none.
Kill(S) == killed' = killed \cup {r \in S : r # 0 /\ child[r] # "exited"}

\* close of the done channel of run r.
Close(r) == /\ closed' = closed \cup {r}
            /\ panicked' = panicked \cup ({r} \cap closed)

\* Unknown name, a process that runs, or no such binary.
StartRefused(q) ==
    /\ req[q].at = "start"
    /\ Goto(q, StartReturns(req[q], FALSE))
    /\ UNCHANGED <<project, table, os, monitor, history>>

MayStart(s) == s \notin {"running", "starting"}

\* From the lookup to the unlock, for a request that comes to it as f.
StartBegin(q, f) ==
    LET n == f.n
        r == runs + 1
    IN /\ f.at = "start" /\ runs < MaxRuns
       /\ processes[n] # 0
       /\ MayStart(proc[<<n, processes[n]>>].status)
       /\ proc' = [proc EXCEPT ![<<n, processes[n]>>] =
                     [status |-> "starting", cmd |-> r, cancel |-> r, done |-> r]]
       /\ runs' = r
       /\ entry' = [entry EXCEPT ![r] = <<n, processes[n]>>]
       /\ child' = [child EXCEPT ![r] = "command"]
       /\ Goto(q, [f EXCEPT !.at = "spawn", !.g = processes[n], !.r = r])
       /\ reused' = reused \cup {e \in {<<n, processes[n]>>} :
                                  proc[e].status = "stopping"}
       /\ UNCHANGED <<project, processes, gen, killed, closed, panicked, monitor,
                      lost>>

\* POST /processes/{name}/start; a refusal changes nothing.
ProcessStart(q, n) ==
    /\ req[q] = Idle
    /\ StartBegin(q, [Idle EXCEPT !.op = "pstart", !.at = "start", !.n = n])

\* cmd.Start fails: the entry, whose done channel may be a newer one by then,
\* is set to failed.
SpawnFails(q) ==
    LET e == EntryOf(req[q])
    IN /\ req[q].at = "spawn"
       /\ proc' = [proc EXCEPT ![e].status = "failed", ![e].cmd = 0,
                               ![e].cancel = 0]
       /\ Close(proc[e].done)
       /\ child' = [child EXCEPT ![req[q].r] = "exited"]
       /\ killed' = killed \ {req[q].r}
       /\ Goto(q, StartReturns(req[q], FALSE))
       /\ UNCHANGED <<project, processes, gen, runs, entry, monitor, history>>

\* cmd.Start, which refuses a context that is over.
Spawn(q) ==
    LET r == req[q].r
    IN /\ req[q].at = "spawn" /\ r \notin killed
       /\ child' = [child EXCEPT ![r] = "live"]
       /\ Goto(q, [req[q] EXCEPT !.at = "spawned"])
       /\ UNCHANGED <<project, table, runs, entry, killed, closed, panicked, monitor,
                      history>>

\* The child runs: the entry says so, and a goroutine waits for it.
StartEnd(q) ==
    LET e == EntryOf(req[q])
    IN /\ req[q].at = "spawned"
       /\ proc' = [proc EXCEPT ![e].status = "running"]
       /\ monitor' = [monitor EXCEPT ![req[q].r] =
                        [at |-> "wait", done |-> proc[e].done, cancel |-> 0]]
       /\ Goto(q, StartReturns([req[q] EXCEPT !.mine = @ \cup {req[q].r}], TRUE))
       /\ UNCHANGED <<project, processes, gen, os, history>>

-----------------------------------------------------------------------------
\* The children and the goroutines that wait for them.

\* A child may end at any time.
ChildExits(r) ==
    /\ Live(r)
    /\ child' = [child EXCEPT ![r] = "exited"]
    /\ killed' = killed \ {r}
    /\ UNCHANGED <<project, table, runs, entry, closed, panicked, monitor, req,
                   history>>

\* The goroutine of Start after cmd.Wait, up to the unlock: it takes whatever
\* cancel function the entry has.
MonitorLock(r) ==
    LET e == entry[r]
    IN /\ monitor[r].at = "wait" /\ child[r] = "exited"
       /\ proc' = [proc EXCEPT
             ![e].status = IF @ = "stopping" THEN "stopped" ELSE "failed",
             ![e].cmd = 0, ![e].cancel = 0]
       /\ monitor' = [monitor EXCEPT ![r].at = "unlocked",
                                     ![r].cancel = proc[e].cancel]
       /\ UNCHANGED <<project, processes, gen, os, req, history>>

\* After the unlock: cancel, then close the done channel.
MonitorClose(r) ==
    /\ monitor[r].at = "unlocked"
    /\ Kill({monitor[r].cancel})
    /\ Close(monitor[r].done)
    /\ monitor' = [monitor EXCEPT ![r] = [NoMonitor EXCEPT !.at = "ended"]]
    /\ UNCHANGED <<project, table, runs, entry, child, req, history>>

-----------------------------------------------------------------------------
\* ProcessManager.Stop

\* Unknown name, or nothing that runs.
StopRefused(q) ==
    LET n == req[q].n
    IN /\ req[q].at = "stop"
       /\ processes[n] # 0 => proc[<<n, processes[n]>>].status # "running"
       /\ Goto(q, StopReturns(req[q]))
       /\ UNCHANGED <<project, table, os, monitor, history>>

\* The status and SIGTERM, which a child may ignore, for a request that comes to
\* it as f.  A command that is being started may have its process by then, or not.
StopBegin(q, f) ==
    LET n == f.n
        p == proc[<<n, processes[n]>>]
    IN /\ f.at = "stop"
       /\ processes[n] # 0 /\ p.status = "running"
       /\ proc' = [proc EXCEPT ![<<n, processes[n]>>].status = "stopping"]
       /\ \E at \in {"wait", "after"} :
            /\ at = "wait" => p.cmd # 0
            /\ at = "after" => p.cmd \notin {r \in Runs : child[r] # "command"}
            /\ Goto(q, [f EXCEPT !.at = at, !.g = processes[n],
                                 !.r = p.done, !.cmd = p.cmd])
       /\ UNCHANGED <<project, processes, gen, os, monitor, history>>

\* POST /processes/{name}/stop; a refusal changes nothing.
ProcessStop(q, n) ==
    /\ req[q] = Idle
    /\ StopBegin(q, [Idle EXCEPT !.op = "pstop", !.at = "stop", !.n = n])

\* The done channel is closed.
StopSees(q) ==
    /\ req[q].at \in {"wait", "reap"} /\ req[q].r \in closed
    /\ Goto(q, [req[q] EXCEPT !.at = "after"])
    /\ UNCHANGED <<project, table, os, monitor, history>>

\* Mutant: Stop waits on without killing.
StopTimeout_NoKill(q) ==
    /\ req[q].at = "wait" /\ req[q].r \notin closed
    /\ Goto(q, [req[q] EXCEPT !.at = "reap"])
    /\ UNCHANGED <<project, table, os, monitor, history>>

\* Five seconds are over: kill, and wait without limit.
StopTimeout(q) ==
    /\ req[q].at = "wait" /\ req[q].r \notin closed
    /\ Kill({req[q].cmd})
    /\ Goto(q, [req[q] EXCEPT !.at = "reap"])
    /\ UNCHANGED <<project, table, runs, entry, child, closed, panicked, monitor,
                   history>>

\* Mutant: the cancel function is called whether or not there is one.
StopEnd_NilCancel(q) ==
    LET e == EntryOf(req[q])
        same == proc[e].done = req[q].r
    IN /\ req[q].at = "after"
       /\ proc' = IF same THEN [proc EXCEPT ![e].cancel = 0] ELSE proc
       /\ killed' = IF same THEN killed \cup {proc[e].cancel} ELSE killed
       /\ Goto(q, StopReturns(req[q]))
       /\ UNCHANGED <<project, processes, gen, runs, entry, child, closed,
                      panicked, monitor, history>>

\* Mutant: the clean-up closes the done channel too.
StopEnd_Closes(q) ==
    LET e == EntryOf(req[q])
        same == proc[e].done = req[q].r
    IN /\ req[q].at = "after"
       /\ proc' = IF same THEN [proc EXCEPT ![e].cancel = 0] ELSE proc
       /\ Kill(IF same THEN {proc[e].cancel} ELSE {})
       /\ Close(req[q].r)
       /\ Goto(q, StopReturns(req[q]))
       /\ UNCHANGED <<project, processes, gen, runs, entry, child, monitor, history>>

\* The clean-up, unless the process was started again in the meantime.
StopEnd(q) ==
    LET e == EntryOf(req[q])
        same == proc[e].done = req[q].r
    IN /\ req[q].at = "after"
       /\ proc' = IF same THEN [proc EXCEPT ![e].cancel = 0] ELSE proc
       /\ Kill(IF same THEN {proc[e].cancel} ELSE {})
       /\ Goto(q, StopReturns(req[q]))
       /\ UNCHANGED <<project, processes, gen, runs, entry, child, closed,
                      panicked, monitor, history>>

-----------------------------------------------------------------------------
\* ProjectManager.Start after each pm.Start.

\* Mutant: a failed start rolls back what was started before, not this one.
GiveUp_Before(q) ==
    /\ req[q].at \in {"health", "boot"}
    /\ Goto(q, Down(req[q], req[q].i - 1))
    /\ UNCHANGED <<project, table, os, monitor, history>>

\* The health check ran into its deadline, or the bootstrap failed: stop this
\* process and roll back the others.
GiveUp(q) ==
    /\ req[q].at \in {"health", "boot"}
    /\ Goto(q, Down(req[q], req[q].i))
    /\ UNCHANGED <<project, table, os, monitor, history>>

\* waitForInstanceHealth: there was an answer on the port, of whomever.
Healthy(q) ==
    LET f == req[q]
    IN /\ f.at = "health"
       /\ Goto(q, IF Kind[f.n] = "backend" /\ SimOf[f.n] # None
                  THEN [f EXCEPT !.at = "boot"] ELSE Up(f, f.i + 1))
       /\ UNCHANGED <<project, table, os, monitor, history>>

\* BootstrapSimulator: nothing to do, or an answer on the port of the sim.
Bootstrapped(q) ==
    LET f == req[q]
    IN /\ f.at = "boot"
       /\ Goto(q, Up(f, f.i + 1))
       /\ UNCHANGED <<project, table, os, monitor, history>>

\* unlockOp
Unlock(q) ==
    /\ req[q].at = "unlock" /\ ~Creating
    /\ opLock' = None
    /\ Goto(q, Idle)
    /\ UNCHANGED <<stored, file, table, os, monitor, history>>

-----------------------------------------------------------------------------
\* ProjectManager.Delete after its processes have been stopped.

\* Mutant: the process is removed whatever its status.
RemoveProcess_Any(q) ==
    LET f == req[q]
        n == Declared[f.i]
    IN /\ f.at = "remove"
       /\ processes' = [processes EXCEPT ![n] = 0]
       /\ Goto(q, IF f.i < Len(Declared) THEN [f EXCEPT !.i = @ + 1]
                  ELSE [f EXCEPT !.at = "forget"])
       /\ UNCHANGED <<project, proc, gen, os, monitor, history>>

\* RemoveProcess of the i-th instance declared; its error is ignored.
RemoveProcess(q) ==
    LET f == req[q]
        n == Declared[f.i]
    IN /\ f.at = "remove"
       /\ processes' = IF Busy(n) THEN processes ELSE [processes EXCEPT ![n] = 0]
       /\ Goto(q, IF f.i < Len(Declared) THEN [f EXCEPT !.i = @ + 1]
                  ELSE [f EXCEPT !.at = "forget"])
       /\ UNCHANGED <<project, proc, gen, os, monitor, history>>

\* delete(m.projects, name)
Forget(q) ==
    /\ req[q].at = "forget" /\ ~Creating
    /\ stored' = FALSE
    /\ Goto(q, [req[q] EXCEPT !.at = "unlink"])
    /\ UNCHANGED <<file, opLock, table, os, monitor, history>>

\* ports.Release and DeleteProjectFile
Unlink(q) ==
    /\ req[q].at = "unlink"
    /\ file' = FALSE
    /\ Goto(q, [req[q] EXCEPT !.at = "unlock"])
    /\ UNCHANGED <<stored, opLock, table, os, monitor, history>>

-----------------------------------------------------------------------------
\* The end of a shutdown.

\* ProcessManager.StopAll lists the running processes
StopAll(q) ==
    /\ req[q].at = "list"
    /\ Goto(q, [req[q] EXCEPT !.at = "sweep", !.mine = @ \cup Running(Names),
          !.todo = {n \in Names : /\ processes[n] # 0
                                  /\ proc[<<n, processes[n]>>].status = "running"}])
    /\ UNCHANGED <<project, table, os, monitor, history>>

\* and stops them one by one, in any order.
StopNext(q) ==
    /\ req[q].at = "sweep"
    /\ \E n \in req[q].todo :
         Goto(q, [req[q] EXCEPT !.at = "stop", !.n = n, !.todo = @ \ {n}])
    /\ UNCHANGED <<project, table, os, monitor, history>>

\* The exit, which cuts off the requests in flight, and the next start of the
\* program: the configuration's processes and LoadProject of the file.  Children
\* that still live go on unattended.
Restart(q) ==
    LET known == Static \cup (IF file THEN Instances ELSE {})
    IN /\ req[q].at = "sweep" /\ req[q].todo = {}
       /\ \A n \in known : gen[n] < MaxGen
       /\ gen' = [n \in Names |-> IF n \in known THEN gen[n] + 1 ELSE gen[n]]
       /\ proc' = [e \in Entries |-> Fresh]
       /\ processes' = [n \in Names |-> IF n \in known THEN gen'[n] ELSE 0]
       /\ stored' = file /\ opLock' = None
       /\ monitor' = [r \in Runs |-> NoMonitor]
       /\ req' = [p \in Requests |-> Idle]
       /\ lost' = lost \cup {r \in Runs :
                     Live(r) /\ (r \notin req[q].mine \/ BeingStopped(r))}
       /\ UNCHANGED <<file, os, reused>>

-----------------------------------------------------------------------------
Init ==
    /\ stored = FALSE /\ file = FALSE /\ opLock = None
    /\ gen = [n \in Names |-> IF n \in Static THEN 1 ELSE 0]
    /\ processes = gen
    /\ proc = [e \in Entries |-> Fresh]
    /\ runs = 0
    /\ entry = [r \in Runs |-> <<None, 0>>]
    /\ child = [r \in Runs |-> "none"]
    /\ killed = {} /\ closed = {} /\ panicked = {}
    /\ monitor = [r \in Runs |-> NoMonitor]
    /\ req = [q \in Requests |-> Idle]
    /\ reused = {} /\ lost = {}

Begin(q) ==
    \/ \E op \in {"start", "stop", "delete"} : ProjectRequest(q, op)
    \/ \E n \in Names : ProcessStart(q, n) \/ ProcessStop(q, n)
    \/ Create(q) \/ Shutdown(q)

Step(q) ==
    \/ CreateEnd(q)
    \/ StartRefused(q) \/ StartBegin(q, req[q]) \/ SpawnFails(q) \/ Spawn(q)
    \/ StartEnd(q) \/ StopRefused(q) \/ StopBegin(q, req[q]) \/ StopSees(q)
    \/ StopTimeout(q) \/ StopEnd(q) \/ GiveUp(q) \/ Healthy(q)
    \/ Bootstrapped(q) \/ Unlock(q) \/ RemoveProcess(q) \/ Forget(q)
    \/ Unlink(q) \/ StopAll(q) \/ StopNext(q) \/ Restart(q)

\* A panic ends the program.
Next ==
    /\ panicked = {}
    /\ \/ \E q \in Requests : Begin(q) \/ Step(q)
       \/ \E r \in Runs : ChildExits(r) \/ MonitorLock(r) \/ MonitorClose(r)

Spec == Init /\ [][Next]_vars

\* A request that can go on does, a goroutine whose child is gone runs, and
\* SIGKILL ends a child.  Nothing makes a child end by itself or answer.
FairSpec ==
    /\ Spec
    /\ \A q \in Requests : WF_vars(Step(q))
    /\ \A r \in Runs : /\ WF_vars(MonitorLock(r) \/ MonitorClose(r))
                       /\ WF_vars(r \in killed /\ ChildExits(r))

-----------------------------------------------------------------------------
\* Properties.

\* Every variable keeps its type.
TypeOK ==
    /\ stored \in BOOLEAN /\ file \in BOOLEAN
    /\ opLock \in {"start", "stop", "delete", None}
    /\ processes \in [Names -> 0 .. MaxGen] /\ gen \in [Names -> 0 .. MaxGen]
    /\ proc \in [Entries -> Entry]
    /\ runs \in 0 .. MaxRuns
    /\ entry \in [Runs -> Entries \cup {<<None, 0>>}]
    /\ child \in [Runs -> Child]
    /\ killed \subseteq Runs /\ closed \subseteq Runs /\ panicked \subseteq Runs
    /\ monitor \in [Runs -> Monitor]
    /\ req \in [Requests -> Frame]
    /\ reused \subseteq Entries /\ lost \subseteq Runs

\* A run that the properties do not speak of.
Astray(r) == r \in lost \/ entry[r] \in reused

\* No done channel is closed twice, which would end the program: by the failed
\* Start that made it or the goroutine that waits for its child, whatever
\* requests overlap.  Only a process that was started again while it was
\* stopping can get there.
NoPanic == \A r \in panicked : entry[r] \in reused

\* No child is left behind that nobody can stop: every child that lives is the
\* command of its entry, with the function that cancels it, and the entry is the
\* one its name has now, or a Stop that is under way has the child in hand; it
\* is called stopping only as long as one has.  It is lost when Create replaces
\* the entry of a process that somebody started while the project was deleted,
\* and when the program ends with the child in the hands of another request.
LiveIsTracked ==
    \A r \in Runs : Live(r) /\ ~Astray(r) =>
        LET n == entry[r][1]
            p == proc[entry[r]]
        IN /\ p.cmd = r /\ p.cancel = r
           /\ p.status \in {"starting", "running", "stopping"}
           /\ processes[n] # entry[r][2] \/ p.status = "stopping" => BeingStopped(r)

\* When a Stop, Delete, shutdown or rollback stops a sim of the project, none of
\* the backends it answers for is alive, but one that another request is about
\* to stop, whatever was started and stopped directly meanwhile.  The sweep at
\* the end of a shutdown knows no order.
SimOutlivesBackends ==
    \A q \in Requests : \A r \in req[q].mine :
        /\ req[q].at \in {"wait", "reap"} /\ req[q].i # 0
        /\ req[q].n \in Instances /\ Kind[req[q].n] = "sim"
        /\ Live(r) /\ ~Astray(r)
        /\ entry[r][1] \in Instances /\ Kind[entry[r][1]] = "backend"
        => BeingStopped(r)

\* A Start of the project that fails leaves none of the children it made ("rolls
\* back partial state"), and Stop and Delete none of those that ran when they
\* began: when the operation lock is given back they are dead, or another
\* request is about to stop them.
StartIsAllOrNothing ==
    \A q \in Requests : \A r \in req[q].mine :
        /\ req[q].at = "unlock" /\ req[q].i <= Len(Order)
        /\ Live(r) /\ ~Astray(r)
        => BeingStopped(r)

\* Every request returns: no Stop waits for good, whichever way the child and
\* the goroutine behind it end and whatever else is started and stopped, so
\* every operation lock is given back.
RequestsReturn == \A q \in Requests : []<>(req[q].at = "idle" \/ panicked # {})
============================================================================
