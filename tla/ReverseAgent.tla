---------------------------- MODULE ReverseAgent ----------------------------
(***************************************************************************)
(* The reverse agent: the registry of dial-back connections that every     *)
(* FaaS backend shares (backends/core/reverse_agent.go), the connection    *)
(* that multiplexes execs by session id (agent/reverse.go), and the        *)
(* bootstrap at its other end (agent/reverse_bootstrap.go, router.go,      *)
(* session.go, exec.go).                                                   *)
(*                                                                         *)
(* One step is one critical section of the registry's mutex, or one        *)
(* operation on a channel or socket.  The platform may run several         *)
(* instances of one container, so several connections may come for one id. *)
(* A message is sent by the bootstrap and read by the backend in one step; *)
(* its delivery to a session is a step of its own.                         *)
(***************************************************************************)
EXTENDS Naturals, Sequences, FiniteSets

CONSTANTS
    Ids,         \* container ids
    Conns,       \* bound: connections ever dialled
    Announcing,  \* the connections whose bootstrap announces its end
    Waiters,     \* bound: calls of WaitForAgent
    Execs,       \* bound: calls that run a command in a container
    Collectors,  \* the execs that are RunAndCapture, not docker exec
    Keys,        \* session ids
    KeyOf,       \* KeyOf[x]: the session id of exec x
    NoConn, NoExec, NoId, NoMsg,
    NoKey,       \* the empty session id of a system message
    ChanCap,     \* capacity of a session's channel (64 in the code)
    MaxOut,      \* bound: output messages of one child
    MaxDrops     \* bound: removals of a container

\* What a bootstrap sends: a session id (or none) and a type.
Messages == (Keys \X {"out", "exit", "error"}) \cup {<<NoKey, "lifetime_expired">>}

ASSUME ReverseAgentAssumption ==
    /\ Collectors \subseteq Execs /\ Announcing \subseteq Conns
    /\ KeyOf \in [Execs -> Keys]
    /\ NoConn \notin Conns /\ NoExec \notin Execs /\ NoId \notin Ids
    /\ NoKey \notin Keys /\ NoMsg \notin Messages
    /\ ChanCap \in Nat /\ MaxOut \in Nat /\ MaxDrops \in Nat

VARIABLES
    sessions,  \* registry: sessions[id], a connection or NoConn
    waiters,   \* registry: waiters[id], the calls whose channel is listed
    expired,   \* registry: the keys of lifetimeExpired
    cid,       \* cid[k]: the id connection k was dialled for, or NoId
    hpc,       \* hpc[k]: where the handler of k is
    sock,      \* sock[k]: the socket, open, lost (by the peer) or closed
    done,      \* the connections whose done channel is closed
    rd,        \* rd[k]: the message readLoop has read, or NoMsg
    warned,    \* connections that sent lifetime_expired
    route,     \* route[k][key]: rc.sessions, the exec that gets key's messages
    wpc, wid,  \* where a waiter is, and the id it waits for
    woken,     \* waiters whose channel is closed
    epc, eid,  \* where an exec is, and its container
    econn,     \* econn[x]: the connection exec x resolved, or NoConn
    ch,        \* ch[x]: the buffered channel of exec x
    child,     \* child[x]: the process of exec x in the container
    outs,      \* outs[x]: output messages it sent
    procs,     \* procs[k][key]: the bootstrap's SessionRegistry
    cleaned,   \* connections whose bootstrap ran CleanupConn
    drops      \* counter of the bound

regVars == <<sessions, waiters, expired>>
connVars == <<cid, hpc, sock, done, rd, warned>>
waitVars == <<wpc, wid, woken>>
execVars == <<epc, eid, econn, ch>>
bootVars == <<child, outs, procs, cleaned>>
vars == <<regVars, connVars, waitVars, execVars, bootVars, route, drops>>

Init ==
    /\ sessions = [id \in Ids |-> NoConn]
    /\ waiters = [id \in Ids |-> {}]
    /\ expired = {}
    /\ cid = [k \in Conns |-> NoId]
    /\ hpc = [k \in Conns |-> "new"]
    /\ sock = [k \in Conns |-> "open"]
    /\ done = {}
    /\ rd = [k \in Conns |-> NoMsg]
    /\ warned = {}
    /\ route = [k \in Conns |-> [key \in Keys |-> NoExec]]
    /\ wpc = [w \in Waiters |-> "idle"]
    /\ wid = [w \in Waiters |-> NoId]
    /\ woken = {}
    /\ epc = [x \in Execs |-> "idle"]
    /\ eid = [x \in Execs |-> NoId]
    /\ econn = [x \in Execs |-> NoConn]
    /\ ch = [x \in Execs |-> <<>>]
    /\ child = [x \in Execs |-> "none"]
    /\ outs = [x \in Execs |-> 0]
    /\ procs = [k \in Conns |-> [key \in Keys |-> NoExec]]
    /\ cleaned = {}
    /\ drops = 0

-----------------------------------------------------------------------------
\* ReverseAgentConn.Close of the connections in S; a second Close is harmless.
Close(S) ==
    /\ done' = done \cup S
    /\ sock' = [k \in Conns |-> IF k \in S THEN "closed" ELSE sock[k]]

Registered(id) == {sessions[id]} \ {NoConn}

\* The bootstrap dials, the handler upgrades and starts readLoop.
Dial(k, id) ==
    /\ hpc[k] = "new"
    /\ hpc' = [hpc EXCEPT ![k] = "register"]
    /\ cid' = [cid EXCEPT ![k] = id]
    /\ UNCHANGED <<regVars, sock, done, rd, warned, waitVars, execVars,
                   bootVars, route, drops>>

\* Register: the prior session is closed, every waiter's channel is closed.
Register(k) ==
    LET id == cid[k] IN
    /\ hpc[k] = "register"
    /\ hpc' = [hpc EXCEPT ![k] = "wait"]
    /\ Close(Registered(id))
    /\ sessions' = [sessions EXCEPT ![id] = k]
    /\ woken' = woken \cup waiters[id]
    /\ waiters' = [waiters EXCEPT ![id] = {}]
    /\ UNCHANGED <<expired, cid, rd, warned, wpc, wid, execVars, bootVars, route, drops>>

\* Mutant: the session and the whole state of the container go.
DropSession_ClearsAll(k) ==
    LET id == cid[k] IN
    /\ hpc[k] = "wait" /\ k \in done
    /\ hpc' = [hpc EXCEPT ![k] = "end"]
    /\ Close(Registered(id))
    /\ sessions' = [sessions EXCEPT ![id] = NoConn]
    /\ expired' = expired \ {id}
    /\ UNCHANGED <<waiters, cid, rd, warned, waitVars, execVars, bootVars, route, drops>>

\* The handler of k has seen rc.Done(): it drops whatever session its id has.
DropSession(k) ==
    LET id == cid[k] IN
    /\ hpc[k] = "wait" /\ k \in done
    /\ hpc' = [hpc EXCEPT ![k] = "end"]
    /\ Close(Registered(id))
    /\ sessions' = [sessions EXCEPT ![id] = NoConn]
    /\ UNCHANGED <<waiters, expired, cid, rd, warned, waitVars, execVars,
                   bootVars, route, drops>>

\* The container is stopped or removed.
Drop(id) ==
    /\ drops < MaxDrops
    /\ drops' = drops + 1
    /\ Close(Registered(id))
    /\ sessions' = [sessions EXCEPT ![id] = NoConn]
    /\ expired' = expired \ {id}
    /\ UNCHANGED <<waiters, cid, hpc, rd, warned, waitVars, execVars, bootVars, route>>

-----------------------------------------------------------------------------
\* WaitForAgent: return at once, or subscribe with a channel of one's own.
WaitForAgent(w, id) ==
    /\ wpc[w] = "idle"
    /\ wid' = [wid EXCEPT ![w] = id]
    /\ \/ /\ sessions[id] # NoConn
          /\ wpc' = [wpc EXCEPT ![w] = "ok"]
          /\ UNCHANGED waiters
       \/ /\ sessions[id] = NoConn
          /\ wpc' = [wpc EXCEPT ![w] = "waiting"]
          /\ waiters' = [waiters EXCEPT ![id] = @ \cup {w}]
    /\ UNCHANGED <<sessions, expired, connVars, woken, execVars, bootVars, route, drops>>

WaiterWoken(w) ==
    /\ wpc[w] = "waiting" /\ w \in woken
    /\ wpc' = [wpc EXCEPT ![w] = "ok"]
    /\ UNCHANGED <<regVars, connVars, wid, woken, execVars, bootVars, route, drops>>

\* Mutant: the waiters share one channel, which the timeout deletes.
WaiterTimeout_Shared(w) ==
    /\ wpc[w] = "waiting"
    /\ wpc' = [wpc EXCEPT ![w] = "timeout"]
    /\ waiters' = [waiters EXCEPT ![wid[w]] = {}]
    /\ UNCHANGED <<sessions, expired, connVars, wid, woken, execVars, bootVars, route, drops>>

\* The context of the call is done, perhaps when the channel is closed too.
WaiterTimeout(w) ==
    /\ wpc[w] = "waiting"
    /\ wpc' = [wpc EXCEPT ![w] = "timeout"]
    /\ waiters' = [waiters EXCEPT ![wid[w]] = @ \ {w}]
    /\ UNCHANGED <<sessions, expired, connVars, wid, woken, execVars, bootVars, route, drops>>

-----------------------------------------------------------------------------
\* The peer or the network goes away.
PeerLost(k) ==
    /\ hpc[k] # "new" /\ sock[k] = "open"
    /\ sock' = [sock EXCEPT ![k] = "lost"]
    /\ UNCHANGED <<regVars, cid, hpc, done, rd, warned, waitVars, execVars,
                   bootVars, route, drops>>

\* Mutant: readLoop returns without closing done.
ReadLoopEnd_NoClose(k) ==
    /\ sock[k] # "open" /\ rd[k] = NoMsg /\ k \notin done
    /\ UNCHANGED vars

\* readLoop meets an error and closes done.
ReadLoopEnd(k) ==
    /\ sock[k] # "open" /\ rd[k] = NoMsg /\ k \notin done
    /\ done' = done \cup {k}
    /\ UNCHANGED <<regVars, cid, hpc, sock, rd, warned, waitVars, execVars,
                   bootVars, route, drops>>

CanRead(k) == hpc[k] # "new" /\ sock[k] = "open" /\ rd[k] = NoMsg

\* The bootstrap announces that the platform will end it.
ReadLifetimeExpired(k) ==
    /\ CanRead(k) /\ k \in Announcing \ warned
    /\ warned' = warned \cup {k}
    /\ rd' = [rd EXCEPT ![k] = <<NoKey, "lifetime_expired">>]
    /\ UNCHANGED <<regVars, cid, hpc, sock, done, waitVars, execVars, bootVars, route, drops>>

ReadFrom(x, type) ==
    /\ econn[x] # NoConn /\ CanRead(econn[x])
    /\ rd' = [rd EXCEPT ![econn[x]] = <<KeyOf[x], type>>]
    /\ UNCHANGED <<regVars, cid, hpc, sock, done, warned, waitVars, execVars,
                   procs, cleaned, route, drops>>

\* sendOutput: stdout or stderr.
ReadOutput(x) ==
    /\ child[x] = "running" /\ outs[x] < MaxOut
    /\ outs' = [outs EXCEPT ![x] = @ + 1]
    /\ ReadFrom(x, "out")
    /\ UNCHANGED child

\* waitAndNotify: the child has exited.
ReadExit(x) ==
    /\ child[x] = "running"
    /\ child' = [child EXCEPT ![x] = "exited"]
    /\ ReadFrom(x, "exit")
    /\ UNCHANGED outs

\* handleExec cannot start the child, or handleAttach has no main process.
ReadError(x) ==
    /\ child[x] = "requested"
    /\ child' = [child EXCEPT ![x] = "exited"]
    /\ ReadFrom(x, "error")
    /\ UNCHANGED outs

\* Mutant: off by one.
HasRoom_OffByOne(x) == Len(ch[x]) <= ChanCap

HasRoom(x) == Len(ch[x]) < ChanCap

\* readLoop hands the message on: to the system handler, to the channel of
\* the session, or to nobody if there is no session or its channel is full.
Deliver(k) ==
    /\ rd[k] # NoMsg
    /\ rd' = [rd EXCEPT ![k] = NoMsg]
    /\ IF rd[k][1] = NoKey
       THEN expired' = expired \cup {cid[k]} /\ UNCHANGED ch
       ELSE LET x == route[k][rd[k][1]] IN
            /\ ch' = IF x # NoExec /\ HasRoom(x)
                     THEN [ch EXCEPT ![x] = Append(@, rd[k][2])] ELSE ch
            /\ UNCHANGED expired
    /\ UNCHANGED <<sessions, waiters, cid, hpc, sock, done, warned, waitVars,
                   epc, eid, econn, bootVars, route, drops>>

-----------------------------------------------------------------------------
\* docker exec looks at the lifetime first; RunAndCapture does not.
ExecStart(x, id) ==
    /\ x \notin Collectors /\ epc[x] = "idle"
    /\ eid' = [eid EXCEPT ![x] = id]
    /\ epc' = [epc EXCEPT ![x] = IF id \in expired THEN "refused" ELSE "resolve"]
    /\ UNCHANGED <<regVars, connVars, waitVars, econn, ch, bootVars, route, drops>>

RunAndCapture(x, id) ==
    /\ x \in Collectors /\ epc[x] = "idle"
    /\ eid' = [eid EXCEPT ![x] = id]
    /\ epc' = [epc EXCEPT ![x] = "resolve"]
    /\ UNCHANGED <<regVars, connVars, waitVars, econn, ch, bootVars, route, drops>>

\* Resolve.
Resolve(x) ==
    /\ epc[x] = "resolve"
    /\ econn' = [econn EXCEPT ![x] = sessions[eid[x]]]
    /\ epc' = [epc EXCEPT ![x] = IF sessions[eid[x]] = NoConn THEN "failed" ELSE "begin"]
    /\ UNCHANGED <<regVars, connVars, waitVars, eid, ch, bootVars, route, drops>>

\* The deferred Delete, by key: it may be another exec's entry.
Unroute(x) == route' = [route EXCEPT ![econn[x]][KeyOf[x]] = NoExec]

BeginSend(x) ==
    /\ epc' = [epc EXCEPT ![x] = "running"]
    /\ route' = [route EXCEPT ![econn[x]][KeyOf[x]] = x]
    /\ child' = IF sock[econn[x]] = "open" THEN [child EXCEPT ![x] = "requested"] ELSE child

\* Mutant: a failed send returns without the deferred Delete.
BeginFail_NoDelete(x) ==
    /\ x \in Collectors /\ sock[econn[x]] # "open"
    /\ epc' = [epc EXCEPT ![x] = "failed"]
    /\ route' = [route EXCEPT ![econn[x]][KeyOf[x]] = x]
    /\ UNCHANGED child

\* CollectExec returns when it cannot send.
BeginFail(x) ==
    /\ x \in Collectors /\ sock[econn[x]] # "open"
    /\ epc' = [epc EXCEPT ![x] = "failed"]
    /\ Unroute(x)
    /\ UNCHANGED child

\* BridgeExec, CollectExec: store the channel under the session id and send.
\* A write to a lost peer may still succeed; only BridgeExec ignores a failure.
Begin(x) ==
    /\ epc[x] = "begin"
    /\ \/ (x \in Collectors => sock[econn[x]] # "closed") /\ BeginSend(x)
       \/ BeginFail(x)
    /\ UNCHANGED <<regVars, connVars, waitVars, eid, econn, ch, outs, procs, cleaned, drops>>

\* The exec returns; its channel is garbage.
Return(x, how) ==
    /\ epc' = [epc EXCEPT ![x] = how]
    /\ ch' = [ch EXCEPT ![x] = <<>>]
    /\ Unroute(x)

\* The exec takes a message from its channel.
Receive(x) ==
    /\ epc[x] = "running" /\ ch[x] # <<>>
    /\ \/ /\ Head(ch[x]) = "out"
          /\ ch' = [ch EXCEPT ![x] = Tail(@)]
          /\ UNCHANGED <<epc, route>>
       \/ Head(ch[x]) = "exit" /\ Return(x, "ended")
       \/ Head(ch[x]) = "error" /\ Return(x, "failed")
    /\ UNCHANGED <<regVars, connVars, waitVars, eid, econn, bootVars, drops>>

\* The exec sees rc.done.
ConnDone(x) ==
    /\ epc[x] = "running" /\ econn[x] \in done
    /\ Return(x, "failed")
    /\ UNCHANGED <<regVars, connVars, waitVars, eid, econn, bootVars, drops>>

\* CollectExecWithStdin cannot send its input or the end of it.
StdinFail(x) ==
    /\ x \in Collectors /\ epc[x] = "running" /\ sock[econn[x]] # "open"
    /\ Return(x, "failed")
    /\ UNCHANGED <<regVars, connVars, waitVars, eid, econn, bootVars, drops>>

-----------------------------------------------------------------------------
\* The bootstrap reads an exec message, starts the child and registers it.
HandleExec(x) ==
    /\ child[x] = "requested" /\ econn[x] \notin cleaned
    /\ child' = [child EXCEPT ![x] = "running"]
    /\ procs' = [procs EXCEPT ![econn[x]][KeyOf[x]] = x]
    /\ UNCHANGED <<regVars, connVars, waitVars, execVars, outs, cleaned, route, drops>>

\* Mutant: the ids of the connection are read after they were deleted.
CleanupConn_DeleteFirst(k) ==
    /\ sock[k] # "open" /\ k \notin cleaned
    /\ cleaned' = cleaned \cup {k}
    /\ child' = [x \in Execs |->
                   IF child[x] = "requested" /\ econn[x] = k THEN "none" ELSE child[x]]
    /\ UNCHANGED <<regVars, connVars, waitVars, execVars, outs, procs, route, drops>>

\* ServeReverseAgent returns: the children in the registry are killed, the
\* requests that were not read are lost.
CleanupConn(k) ==
    /\ sock[k] # "open" /\ k \notin cleaned
    /\ cleaned' = cleaned \cup {k}
    /\ child' = [x \in Execs |->
                   IF child[x] = "running" /\ procs[k][KeyOf[x]] = x THEN "killed" ELSE
                   IF child[x] = "requested" /\ econn[x] = k THEN "none" ELSE child[x]]
    /\ UNCHANGED <<regVars, connVars, waitVars, execVars, outs, procs, route, drops>>

-----------------------------------------------------------------------------
ConnStep(k) == Register(k) \/ DropSession(k) \/ ReadLoopEnd(k) \/ Deliver(k) \/ CleanupConn(k)
ExecStep(x) == Resolve(x) \/ Begin(x) \/ Receive(x) \/ ConnDone(x)
ChildStep(x) == HandleExec(x) \/ ReadOutput(x) \/ ReadExit(x) \/ ReadError(x)

Next ==
    \/ \E k \in Conns, id \in Ids : Dial(k, id)
    \/ \E k \in Conns : ConnStep(k) \/ PeerLost(k) \/ ReadLifetimeExpired(k)
    \/ \E id \in Ids : Drop(id)
    \/ \E w \in Waiters, id \in Ids : WaitForAgent(w, id)
    \/ \E w \in Waiters : WaiterWoken(w) \/ WaiterTimeout(w)
    \/ \E x \in Execs, id \in Ids : ExecStart(x, id) \/ RunAndCapture(x, id)
    \/ \E x \in Execs : ExecStep(x) \/ StdinFail(x) \/ ChildStep(x)

Spec == Init /\ [][Next]_vars

(***************************************************************************)
(* Fairness: goroutines that can run do run, on both sides.  A child is    *)
(* under no obligation to exit, nor a peer to stay or to go.               *)
(***************************************************************************)
FairSpec ==
    /\ Spec
    /\ \A k \in Conns : WF_vars(ConnStep(k))
    /\ \A x \in Execs : WF_vars(ExecStep(x))
    /\ \A w \in Waiters : WF_vars(WaiterWoken(w))

-----------------------------------------------------------------------------
RegistryTypeOK ==
    /\ sessions \in [Ids -> Conns \cup {NoConn}]
    /\ waiters \in [Ids -> SUBSET Waiters]
    /\ expired \in SUBSET Ids

ConnTypeOK ==
    /\ cid \in [Conns -> Ids \cup {NoId}]
    /\ hpc \in [Conns -> {"new", "register", "wait", "end"}]
    /\ sock \in [Conns -> {"open", "lost", "closed"}]
    /\ done \in SUBSET Conns
    /\ rd \in [Conns -> Messages \cup {NoMsg}]
    /\ warned \in SUBSET Conns
    /\ \A k \in Conns : hpc[k] # "new" \/ rd[k] # NoMsg => cid[k] \in Ids

RouteTypeOK == route \in [Conns -> [Keys -> Execs \cup {NoExec}]]

WaiterTypeOK ==
    /\ wpc \in [Waiters -> {"idle", "waiting", "ok", "timeout"}]
    /\ wid \in [Waiters -> Ids \cup {NoId}]
    /\ woken \in SUBSET Waiters
    /\ \A w \in Waiters : wpc[w] = "waiting" => wid[w] \in Ids

ExecTypeOK ==
    /\ epc \in [Execs -> {"idle", "resolve", "begin", "running", "ended", "failed", "refused"}]
    /\ eid \in [Execs -> Ids \cup {NoId}]
    /\ econn \in [Execs -> Conns \cup {NoConn}]
    /\ \A x \in Execs : epc[x] = "resolve" => eid[x] \in Ids
    /\ \A x \in Execs : epc[x] \in {"begin", "running"} => econn[x] \in Conns

ChanTypeOK ==
    /\ ch \in [Execs -> Seq({"out", "exit", "error"})]
    /\ \A x \in Execs : Len(ch[x]) <= ChanCap

BootTypeOK ==
    /\ child \in [Execs -> {"none", "requested", "running", "exited", "killed"}]
    /\ outs \in [Execs -> Nat]
    /\ procs \in [Conns -> [Keys -> Execs \cup {NoExec}]]
    /\ cleaned \in SUBSET Conns
    /\ drops \in Nat
    /\ \A x \in Execs : child[x] # "none" =>
          econn[x] \in Conns /\ epc[x] \notin {"idle", "resolve", "begin"}

\* Every variable has its type; a handler, a waiter and an exec know what
\* they work on; and the channel of an exec never holds more than its
\* capacity, however the bootstrap floods it.
TypeOK ==
    /\ RegistryTypeOK /\ ConnTypeOK /\ RouteTypeOK /\ WaiterTypeOK
    /\ ExecTypeOK /\ ChanTypeOK /\ BootTypeOK

\* A waiter that sleeps is known to the registry or already woken, and none
\* sleeps unwoken while an agent is registered: the timeout of one waiter
\* strands no other (BUG-1064), and no registration slips past a subscriber.
NoStrandedWaiter ==
    \A w \in Waiters : wpc[w] = "waiting" /\ w \notin woken =>
        w \in waiters[wid[w]] /\ sessions[wid[w]] = NoConn

\* An entry of rc.sessions belongs to an exec that is running on that
\* connection: every way out of an exec removes its entry, so no message
\* goes to a caller that has left.
RouteIsLive ==
    \A k \in Conns, key \in Keys :
        LET x == route[k][key] IN
        x # NoExec => epc[x] = "running" /\ econn[x] = k /\ KeyOf[x] = key

\* When the bootstrap of a lost connection has cleaned up, a child still runs
\* only if another exec took its place in the SessionRegistry.
OnlyDisplacedSurvive ==
    \A x \in Execs : child[x] = "running" /\ econn[x] \in cleaned =>
        \E y \in Execs \ {x} : procs[econn[x]][KeyOf[x]] = y /\ econn[y] = econn[x]

\* The marker that the platform ended the container outlives the session it
\* came on: only the removal of the container clears it (BUG-1057), so an
\* exec started later is refused with the explanation.
ExpiryOutlivesSession ==
    [][\A id \in Ids : id \in expired /\ id \notin expired' => Drop(id)]_vars

\* Liveness: an exec in flight on a connection that breaks or is closed
\* returns to its caller.
ExecEndsWithConn ==
    \A x \in Execs :
        (epc[x] = "running" /\ sock[econn[x]] # "open") ~> epc[x] # "running"

\* Liveness: a connection that broke does not stay registered, where the
\* next exec would resolve it.
DeadSessionIsDropped ==
    \A id \in Ids, k \in Conns :
        (sessions[id] = k /\ sock[k] # "open") ~> sessions[id] # k

-----------------------------------------------------------------------------
\* The new dial wins: a registered session is removed only when its own
\* connection broke or its container is removed.
NewDialWins ==
    [][\A id \in Ids : sessions[id] # NoConn /\ sessions'[id] = NoConn
          => sock[sessions[id]] = "lost" \/ Drop(id)]_vars
=============================================================================
