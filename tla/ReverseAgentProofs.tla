------------------------- MODULE ReverseAgentProofs -------------------------
(***************************************************************************)
(* Theorems about ReverseAgent, for every set of containers, connections,  *)
(* waiters, execs and session ids, every channel capacity and all bounds.  *)
(***************************************************************************)
EXTENDS ReverseAgent, SequenceTheorems, TLAPS

\* The steps that change the variables of one part of TypeOK only keep the
\* other parts: every part is proved for the actions that touch it.
LEMMA InitType == Init => TypeOK
  <1> SUFFICES ASSUME Init PROVE TypeOK
    OBVIOUS
  <1> USE ReverseAgentAssumption DEF Init
  <1>1. RegistryTypeOK BY DEF RegistryTypeOK
  <1>2. ConnTypeOK BY DEF ConnTypeOK
  <1>3. RouteTypeOK BY DEF RouteTypeOK
  <1>4. WaiterTypeOK BY DEF WaiterTypeOK
  <1>5. ExecTypeOK BY DEF ExecTypeOK
  <1>6. ChanTypeOK BY DEF ChanTypeOK
  <1>7. BootTypeOK BY DEF BootTypeOK
  <1> QED
    BY <1>1, <1>2, <1>3, <1>4, <1>5, <1>6, <1>7 DEF TypeOK

\* Closing connections keeps the types of the sockets.
LEMMA CloseType ==
    ASSUME TypeOK, NEW id \in Ids, Close(Registered(id))
    PROVE  /\ done' \in SUBSET Conns
           /\ sock' \in [Conns -> {"open", "lost", "closed"}]
  BY DEF TypeOK, RegistryTypeOK, ConnTypeOK, Close, Registered

\* The handler's steps and the removal of a container.
LEMMA SessionType ==
    ASSUME TypeOK,
           \/ \E k \in Conns, id \in Ids : Dial(k, id)
           \/ \E k \in Conns : Register(k) \/ DropSession(k)
           \/ \E id \in Ids : Drop(id)
    PROVE  TypeOK'
  <1> USE DEF TypeOK, regVars, waitVars, execVars, bootVars
  <1>1. RouteTypeOK' /\ ExecTypeOK' /\ ChanTypeOK'
    BY DEF RouteTypeOK, ExecTypeOK, ChanTypeOK, Dial, Register, DropSession, Drop
  <1>2. BootTypeOK'
    BY DEF BootTypeOK, Dial, Register, DropSession, Drop, ExecTypeOK
  <1>3. ASSUME NEW k \in Conns, NEW id \in Ids, Dial(k, id)
        PROVE  RegistryTypeOK' /\ ConnTypeOK' /\ WaiterTypeOK'
    <2>1. RegistryTypeOK' /\ WaiterTypeOK'
      BY <1>3 DEF Dial, RegistryTypeOK, WaiterTypeOK
    <2>2. ConnTypeOK'
      BY <1>3 DEF Dial, ConnTypeOK
    <2> QED BY <2>1, <2>2
  <1>4. ASSUME NEW k \in Conns, Register(k) \/ DropSession(k)
        PROVE  RegistryTypeOK' /\ ConnTypeOK' /\ WaiterTypeOK'
    <2>1. cid[k] \in Ids
      BY <1>4 DEF Register, DropSession, ConnTypeOK
    <2>2. RegistryTypeOK'
      BY <1>4, <2>1 DEF Register, DropSession, RegistryTypeOK
    <2>3. WaiterTypeOK'
      BY <1>4, <2>1 DEF Register, DropSession, RegistryTypeOK, WaiterTypeOK
    <2>4. ConnTypeOK'
      BY <1>4, <2>1, CloseType DEF Register, DropSession, ConnTypeOK
    <2> QED BY <2>2, <2>3, <2>4
  <1>5. ASSUME NEW id \in Ids, Drop(id)
        PROVE  RegistryTypeOK' /\ ConnTypeOK' /\ WaiterTypeOK'
    <2>1. RegistryTypeOK' /\ WaiterTypeOK'
      BY <1>5 DEF Drop, RegistryTypeOK, WaiterTypeOK
    <2>2. ConnTypeOK'
      BY <1>5, CloseType DEF Drop, ConnTypeOK
    <2> QED BY <2>1, <2>2
  <1> QED BY <1>1, <1>2, <1>3, <1>4, <1>5

\* The waiters' steps.
LEMMA WaitType ==
    ASSUME TypeOK, NEW w \in Waiters,
           \/ \E id \in Ids : WaitForAgent(w, id)
           \/ WaiterWoken(w) \/ WaiterTimeout(w)
    PROVE  TypeOK'
  <1> USE DEF TypeOK
  <1>1. ConnTypeOK' /\ RouteTypeOK' /\ ExecTypeOK' /\ ChanTypeOK' /\ BootTypeOK'
    BY DEF ConnTypeOK, RouteTypeOK, ExecTypeOK, ChanTypeOK, BootTypeOK, WaitForAgent,
           WaiterWoken, WaiterTimeout, connVars, execVars, bootVars
  <1>2. RegistryTypeOK'
    BY DEF RegistryTypeOK, WaiterTypeOK, WaitForAgent, WaiterWoken, WaiterTimeout, regVars
  <1>3. WaiterTypeOK'
    BY DEF WaiterTypeOK, WaitForAgent, WaiterWoken, WaiterTimeout
  <1> QED BY <1>1, <1>2, <1>3

\* The socket's steps: loss, the end of readLoop, the bootstrap's clean-up.
LEMMA SocketType ==
    ASSUME TypeOK, NEW k \in Conns,
           PeerLost(k) \/ ReadLoopEnd(k) \/ ReadLifetimeExpired(k) \/ CleanupConn(k)
    PROVE  TypeOK'
  <1> USE DEF TypeOK, regVars, connVars, waitVars, execVars, bootVars
  <1>1. RegistryTypeOK' /\ RouteTypeOK' /\ WaiterTypeOK' /\ ExecTypeOK' /\ ChanTypeOK'
    BY DEF RegistryTypeOK, RouteTypeOK, WaiterTypeOK, ExecTypeOK, ChanTypeOK, PeerLost,
           ReadLoopEnd, ReadLifetimeExpired, CleanupConn
  <1>2. ConnTypeOK'
    BY DEF ConnTypeOK, PeerLost, ReadLoopEnd, ReadLifetimeExpired, CleanupConn, CanRead, Messages
  <1>3. BootTypeOK'
    BY DEF BootTypeOK, PeerLost, ReadLoopEnd, ReadLifetimeExpired, CleanupConn
  <1> QED BY <1>1, <1>2, <1>3

\* What the bootstrap does for an exec and what readLoop reads of it.
LEMMA ChildType ==
    ASSUME TypeOK, NEW x \in Execs, ChildStep(x) PROVE TypeOK'
  <1> USE DEF TypeOK, regVars, waitVars, execVars, connVars
  <1>1. RegistryTypeOK' /\ RouteTypeOK' /\ WaiterTypeOK' /\ ExecTypeOK' /\ ChanTypeOK'
    BY DEF RegistryTypeOK, RouteTypeOK, WaiterTypeOK, ExecTypeOK, ChanTypeOK, ChildStep,
           HandleExec, ReadOutput, ReadExit, ReadError, ReadFrom
  <1>2. ASSUME NEW type \in {"out", "exit", "error"}, ReadFrom(x, type) PROVE ConnTypeOK'
    <2>1. econn[x] \in Conns /\ <<KeyOf[x], type>> \in Messages
      BY <1>2, ReverseAgentAssumption DEF ReadFrom, ExecTypeOK, Messages
    <2> QED BY <1>2, <2>1 DEF ReadFrom, ConnTypeOK, CanRead
  <1>3. ConnTypeOK'
    BY <1>2 DEF ChildStep, HandleExec, ReadOutput, ReadExit, ReadError, ConnTypeOK
  <1>4. CASE HandleExec(x)
    <2>1. econn[x] \in Conns /\ KeyOf[x] \in Keys
      BY <1>4, ReverseAgentAssumption DEF HandleExec, BootTypeOK
    <2>2. BootTypeOK'
      BY <1>4, <2>1 DEF HandleExec, BootTypeOK
    <2> QED BY <1>1, <1>3, <2>2
  <1>5. CASE ReadOutput(x) \/ ReadExit(x) \/ ReadError(x)
    <2>1. BootTypeOK'
      BY <1>5 DEF ReadOutput, ReadExit, ReadError, ReadFrom, BootTypeOK
    <2> QED BY <1>1, <1>3, <2>1
  <1> QED BY <1>4, <1>5 DEF ChildStep

\* readLoop hands a message on, and respects the capacity of the channel.
LEMMA DeliverType ==
    ASSUME TypeOK, NEW k \in Conns, Deliver(k) PROVE TypeOK'
  <1> USE DEF TypeOK, waitVars, bootVars
  <1>1. RouteTypeOK' /\ WaiterTypeOK' /\ ExecTypeOK' /\ BootTypeOK'
    BY DEF RouteTypeOK, WaiterTypeOK, ExecTypeOK, BootTypeOK, Deliver
  <1>2. ConnTypeOK'
    BY DEF ConnTypeOK, Deliver
  <1>3. rd[k] \in Messages /\ cid[k] \in Ids
    BY DEF ConnTypeOK, Deliver
  <1>4. CASE rd[k][1] = NoKey
    BY <1>1, <1>2, <1>3, <1>4 DEF Deliver, RegistryTypeOK, ChanTypeOK
  <1>5. CASE rd[k][1] # NoKey
    <2> DEFINE x == route[k][rd[k][1]]
    <2>1. rd[k][1] \in Keys /\ rd[k][2] \in {"out", "exit", "error"}
      BY <1>3, <1>5 DEF Messages
    <2>2. RegistryTypeOK'
      BY <1>5 DEF Deliver, RegistryTypeOK
    <2>3. CASE x # NoExec /\ HasRoom(x)
      <3>1. x \in Execs
        BY <2>1, <2>3 DEF RouteTypeOK
      <3>2. ch' = [ch EXCEPT ![x] = Append(@, rd[k][2])]
        BY <1>5, <2>3 DEF Deliver
      <3>3. /\ Append(ch[x], rd[k][2]) \in Seq({"out", "exit", "error"})
            /\ Len(Append(ch[x], rd[k][2])) = Len(ch[x]) + 1
        BY <2>1, <3>1, AppendProperties DEF ChanTypeOK
      <3>4. Len(ch[x]) \in Nat
        BY <3>1, LenProperties DEF ChanTypeOK
      <3>5. Len(ch[x]) + 1 <= ChanCap
        BY <2>3, <3>4, ReverseAgentAssumption DEF HasRoom
      <3>6. ChanTypeOK'
        BY <3>1, <3>2, <3>3, <3>5 DEF ChanTypeOK
      <3> QED BY <1>1, <1>2, <2>2, <3>6
    <2>4. CASE ~ (x # NoExec /\ HasRoom(x))
      <3>1. UNCHANGED ch
        BY <1>5, <2>4 DEF Deliver
      <3> QED BY <1>1, <1>2, <2>2, <3>1 DEF ChanTypeOK
    <2> QED BY <2>3, <2>4
  <1> QED BY <1>4, <1>5

\* An exec that returns keeps the types.
LEMMA ReturnType ==
    ASSUME TypeOK, NEW x \in Execs, NEW how \in {"ended", "failed"}, epc[x] = "running",
           Return(x, how), UNCHANGED <<eid, econn>>
    PROVE  ExecTypeOK' /\ ChanTypeOK' /\ RouteTypeOK'
  <1> USE DEF TypeOK
  <1>1. ExecTypeOK'
    BY DEF Return, ExecTypeOK
  <1>2. RouteTypeOK'
    BY ReverseAgentAssumption DEF Return, Unroute, RouteTypeOK, ExecTypeOK
  <1>3. <<>> \in Seq({"out", "exit", "error"}) /\ Len(<<>>) <= ChanCap
    BY ReverseAgentAssumption
  <1>4. ChanTypeOK'
    BY <1>3 DEF Return, ChanTypeOK
  <1> QED BY <1>1, <1>2, <1>4

\* The steps of an exec.
LEMMA ExecType ==
    ASSUME TypeOK, NEW x \in Execs,
           \/ \E id \in Ids : ExecStart(x, id) \/ RunAndCapture(x, id)
           \/ ExecStep(x) \/ StdinFail(x)
    PROVE  TypeOK'
  <1> USE DEF TypeOK, regVars, connVars, waitVars, bootVars
  <1>1. RegistryTypeOK' /\ ConnTypeOK' /\ WaiterTypeOK'
    BY DEF RegistryTypeOK, ConnTypeOK, WaiterTypeOK, ExecStart, RunAndCapture, ExecStep,
           Resolve, Begin, Receive, ConnDone, StdinFail
  <1>2. ASSUME NEW id \in Ids, ExecStart(x, id) \/ RunAndCapture(x, id) PROVE TypeOK'
    <2>1. ExecTypeOK'
      BY <1>2 DEF ExecTypeOK, ExecStart, RunAndCapture
    <2>2. RouteTypeOK' /\ ChanTypeOK' /\ BootTypeOK'
      BY <1>2 DEF RouteTypeOK, ChanTypeOK, BootTypeOK, ExecTypeOK, ExecStart, RunAndCapture
    <2> QED BY <1>1, <2>1, <2>2
  <1>3. CASE Resolve(x)
    <2>1. sessions[eid[x]] \in Conns \cup {NoConn}
      BY <1>3 DEF Resolve, ExecTypeOK, RegistryTypeOK
    <2>2. ExecTypeOK'
      BY <1>3, <2>1 DEF Resolve, ExecTypeOK
    <2>3. RouteTypeOK' /\ ChanTypeOK'
      BY <1>3 DEF RouteTypeOK, ChanTypeOK, Resolve
    <2>4. BootTypeOK'
      BY <1>3, <2>1 DEF BootTypeOK, ExecTypeOK, Resolve
    <2> QED BY <1>1, <2>2, <2>3, <2>4
  <1>4. CASE Begin(x)
    <2>1. econn[x] \in Conns /\ KeyOf[x] \in Keys
      BY <1>4, ReverseAgentAssumption DEF Begin, ExecTypeOK
    <2>2. ExecTypeOK' /\ ChanTypeOK'
      BY <1>4, <2>1 DEF Begin, BeginSend, BeginFail, ExecTypeOK, ChanTypeOK
    <2>3. RouteTypeOK'
      BY <1>4, <2>1 DEF Begin, BeginSend, BeginFail, Unroute, RouteTypeOK
    <2>4. BootTypeOK'
      BY <1>4, <2>1 DEF Begin, BeginSend, BeginFail, BootTypeOK, ExecTypeOK
    <2> QED BY <1>1, <2>2, <2>3, <2>4
  <1>5. CASE Receive(x)
    <2>1. BootTypeOK'
      BY <1>5 DEF Receive, Return, BootTypeOK, ExecTypeOK
    <2>2. CASE Head(ch[x]) = "out"
      <3>1. /\ Tail(ch[x]) \in Seq({"out", "exit", "error"})
            /\ Len(Tail(ch[x])) = Len(ch[x]) - 1
        BY <1>5, HeadTailProperties DEF Receive, ChanTypeOK
      <3>2. Len(ch[x]) \in Nat
        BY LenProperties DEF ChanTypeOK
      <3>3. Len(Tail(ch[x])) <= ChanCap
        BY <3>1, <3>2, ReverseAgentAssumption DEF ChanTypeOK
      <3>4. ch' = [ch EXCEPT ![x] = Tail(@)] /\ UNCHANGED <<epc, eid, econn, route>>
        BY <1>5, <2>2 DEF Receive
      <3>5. ChanTypeOK' /\ ExecTypeOK' /\ RouteTypeOK'
        BY <3>1, <3>3, <3>4 DEF ChanTypeOK, ExecTypeOK, RouteTypeOK
      <3> QED BY <1>1, <2>1, <3>5
    <2>3. CASE Head(ch[x]) # "out"
      BY <1>1, <1>5, <2>1, <2>3, ReturnType DEF Receive
    <2> QED BY <2>2, <2>3
  <1>6. CASE ConnDone(x) \/ StdinFail(x)
    <2>1. BootTypeOK'
      BY <1>6 DEF ConnDone, StdinFail, Return, BootTypeOK, ExecTypeOK
    <2> QED BY <1>1, <1>6, <2>1, ReturnType DEF ConnDone, StdinFail
  <1> QED BY <1>2, <1>3, <1>4, <1>5, <1>6 DEF ExecStep

\* Every step of the registry, the connections and the bootstraps keeps the
\* types.
LEMMA NextType ==
    ASSUME TypeOK, [Next]_vars PROVE TypeOK'
  <1>1. CASE UNCHANGED vars
    BY <1>1 DEF TypeOK, RegistryTypeOK, ConnTypeOK, RouteTypeOK, WaiterTypeOK, ExecTypeOK,
                ChanTypeOK, BootTypeOK, vars, regVars, connVars, waitVars, execVars, bootVars
  <1> QED
    BY <1>1, SessionType, WaitType, SocketType, ChildType, DeliverType, ExecType
       DEF Next, ConnStep

\* Type correctness: TypeOK, with the bound of every session channel, holds
\* in every reachable state.
THEOREM TypeCorrect == Spec => []TypeOK
  BY InitType, NextType, PTL DEF Spec

-----------------------------------------------------------------------------
\* No waiter is stranded: this is inductive with the types.
LEMMA NextWaiter ==
    ASSUME TypeOK, NoStrandedWaiter, [Next]_vars PROVE NoStrandedWaiter'
  <1> USE DEF TypeOK
  <1>1. ASSUME NEW k \in Conns, Register(k) PROVE NoStrandedWaiter'
    <2>1. cid[k] \in Ids
      BY <1>1 DEF Register, ConnTypeOK
    <2> QED
      BY <1>1, <2>1 DEF Register, NoStrandedWaiter, RegistryTypeOK, WaiterTypeOK
  <1>2. ASSUME UNCHANGED <<waiters, wpc, wid, woken>>,
               \A id \in Ids : sessions'[id] \in {sessions[id], NoConn}
        PROVE  NoStrandedWaiter'
    BY <1>2 DEF NoStrandedWaiter, WaiterTypeOK
  <1>3. ASSUME NEW k \in Conns, DropSession(k) PROVE NoStrandedWaiter'
    <2>1. cid[k] \in Ids
      BY <1>3 DEF DropSession, ConnTypeOK
    <2>2. \A id \in Ids : sessions'[id] \in {sessions[id], NoConn}
      BY <1>3, <2>1 DEF DropSession, RegistryTypeOK
    <2> QED BY <1>2, <1>3, <2>2 DEF DropSession, waitVars
  <1>4. ASSUME NEW id \in Ids, Drop(id) PROVE NoStrandedWaiter'
    <2>1. \A i \in Ids : sessions'[i] \in {sessions[i], NoConn}
      BY <1>4 DEF Drop, RegistryTypeOK
    <2> QED BY <1>2, <1>4, <2>1 DEF Drop, waitVars
  <1>5. ASSUME NEW w \in Waiters, NEW id \in Ids, WaitForAgent(w, id) PROVE NoStrandedWaiter'
    BY <1>5 DEF WaitForAgent, NoStrandedWaiter, RegistryTypeOK, WaiterTypeOK
  <1>6. ASSUME NEW w \in Waiters, WaiterWoken(w) \/ WaiterTimeout(w) PROVE NoStrandedWaiter'
    BY <1>6 DEF WaiterWoken, WaiterTimeout, NoStrandedWaiter, RegistryTypeOK, WaiterTypeOK, regVars
  <1>7. ASSUME UNCHANGED <<sessions, waiters, waitVars>> PROVE NoStrandedWaiter'
    BY <1>7 DEF NoStrandedWaiter, waitVars
  <1>8. ASSUME NEW k \in Conns,
               \/ \E id \in Ids : Dial(k, id)
               \/ ReadLoopEnd(k) \/ Deliver(k) \/ CleanupConn(k)
               \/ PeerLost(k) \/ ReadLifetimeExpired(k)
        PROVE  UNCHANGED <<sessions, waiters, waitVars>>
    BY <1>8 DEF Dial, ReadLoopEnd, Deliver, CleanupConn, PeerLost, ReadLifetimeExpired, regVars
  <1>9. ASSUME NEW x \in Execs,
               \/ \E id \in Ids : ExecStart(x, id) \/ RunAndCapture(x, id)
               \/ ExecStep(x) \/ StdinFail(x) \/ ChildStep(x)
        PROVE  UNCHANGED <<sessions, waiters, waitVars>>
    BY <1>9 DEF ExecStart, RunAndCapture, ExecStep, Resolve, Begin, Receive, ConnDone, StdinFail,
                ChildStep, HandleExec, ReadOutput, ReadExit, ReadError, ReadFrom, regVars
  <1>10. CASE UNCHANGED vars
    BY <1>7, <1>10 DEF vars, regVars
  <1> QED
    BY <1>1, <1>3, <1>4, <1>5, <1>6, <1>7, <1>8, <1>9, <1>10 DEF Next, ConnStep

\* Whatever registers, times out or is dropped, a sleeping waiter is known to
\* the registry, and none sleeps while an agent is registered.
THEOREM WaitersAreSafe == Spec => []NoStrandedWaiter
  <1>1. Init => NoStrandedWaiter
    BY DEF Init, NoStrandedWaiter
  <1>2. TypeOK /\ NoStrandedWaiter /\ [Next]_vars => NoStrandedWaiter'
    BY NextWaiter
  <1> QED BY <1>1, <1>2, TypeCorrect, PTL DEF Spec

-----------------------------------------------------------------------------
\* Removing the entry of an exec that returns leaves no entry behind.
LEMMA ReturnRoute ==
    ASSUME TypeOK, RouteIsLive, NEW x \in Execs, NEW how, epc[x] = "running",
           Return(x, how), UNCHANGED econn
    PROVE  RouteIsLive'
  <1>1. econn[x] \in Conns /\ KeyOf[x] \in Keys
    BY ReverseAgentAssumption DEF TypeOK, ExecTypeOK
  <1>2. \A k \in Conns, key \in Keys :
            route'[k][key] = IF k = econn[x] /\ key = KeyOf[x] THEN NoExec ELSE route[k][key]
    BY <1>1 DEF Return, Unroute, TypeOK, RouteTypeOK
  <1>3. \A y \in Execs : y # x => epc'[y] = epc[y]
    BY DEF Return, TypeOK, ExecTypeOK
  <1>4. \A k \in Conns, key \in Keys : route[k][key] \in Execs \cup {NoExec}
    BY DEF TypeOK, RouteTypeOK
  <1> QED BY <1>2, <1>3, <1>4 DEF RouteIsLive

LEMMA NextRoute ==
    ASSUME TypeOK, RouteIsLive, [Next]_vars PROVE RouteIsLive'
  <1>1. \A k \in Conns, key \in Keys : route[k][key] \in Execs \cup {NoExec}
    BY DEF TypeOK, RouteTypeOK
  <1>2. ASSUME UNCHANGED <<route, epc, econn>> PROVE RouteIsLive'
    BY <1>2 DEF RouteIsLive
  <1>3. ASSUME NEW k \in Conns,
               \/ \E id \in Ids : Dial(k, id)
               \/ ConnStep(k) \/ PeerLost(k) \/ ReadLifetimeExpired(k)
        PROVE  UNCHANGED <<route, epc, econn>>
    BY <1>3 DEF Dial, ConnStep, Register, DropSession, ReadLoopEnd, Deliver, CleanupConn,
                PeerLost, ReadLifetimeExpired, execVars
  <1>4. ASSUME NEW id \in Ids, Drop(id) PROVE UNCHANGED <<route, epc, econn>>
    BY <1>4 DEF Drop, execVars
  <1>5. ASSUME NEW w \in Waiters,
               (\E id \in Ids : WaitForAgent(w, id)) \/ WaiterWoken(w) \/ WaiterTimeout(w)
        PROVE  UNCHANGED <<route, epc, econn>>
    BY <1>5 DEF WaitForAgent, WaiterWoken, WaiterTimeout, execVars
  <1>6. ASSUME NEW x \in Execs, ChildStep(x) PROVE UNCHANGED <<route, epc, econn>>
    BY <1>6 DEF ChildStep, HandleExec, ReadOutput, ReadExit, ReadError, ReadFrom, execVars
  <1>7. ASSUME NEW x \in Execs,
               (\E id \in Ids : ExecStart(x, id) \/ RunAndCapture(x, id)) \/ Resolve(x)
        PROVE  RouteIsLive'
    <2>1. /\ UNCHANGED route /\ epc[x] # "running"
          /\ \A y \in Execs : y # x => epc'[y] = epc[y] /\ econn'[y] = econn[y]
      BY <1>7 DEF ExecStart, RunAndCapture, Resolve, TypeOK, ExecTypeOK
    <2> QED BY <1>1, <2>1 DEF RouteIsLive
  <1>8. ASSUME NEW x \in Execs, Begin(x) PROVE RouteIsLive'
    <2>1. econn[x] \in Conns /\ KeyOf[x] \in Keys /\ epc[x] = "begin" /\ UNCHANGED econn
      BY <1>8, ReverseAgentAssumption DEF Begin, TypeOK, ExecTypeOK
    <2>2. \A y \in Execs : y # x => epc'[y] = epc[y]
      BY <1>8 DEF Begin, BeginSend, BeginFail, TypeOK, ExecTypeOK
    <2>3. CASE BeginSend(x)
      <3>1. \A k \in Conns, key \in Keys :
                route'[k][key] = IF k = econn[x] /\ key = KeyOf[x] THEN x ELSE route[k][key]
        BY <2>1, <2>3 DEF BeginSend, TypeOK, RouteTypeOK
      <3>2. epc'[x] = "running"
        BY <2>3 DEF BeginSend, TypeOK, ExecTypeOK
      <3> QED BY <1>1, <2>1, <2>2, <3>1, <3>2 DEF RouteIsLive
    <2>4. CASE BeginFail(x)
      <3>1. \A k \in Conns, key \in Keys :
                route'[k][key] = IF k = econn[x] /\ key = KeyOf[x] THEN NoExec ELSE route[k][key]
        BY <2>1, <2>4 DEF BeginFail, Unroute, TypeOK, RouteTypeOK
      <3> QED BY <1>1, <2>1, <2>2, <3>1 DEF RouteIsLive
    <2> QED BY <1>8, <2>3, <2>4 DEF Begin
  <1>9. ASSUME NEW x \in Execs, Receive(x) \/ ConnDone(x) \/ StdinFail(x) PROVE RouteIsLive'
    <2>1. epc[x] = "running" /\ UNCHANGED econn
      BY <1>9 DEF Receive, ConnDone, StdinFail
    <2>2. UNCHANGED <<route, epc>> \/ Return(x, "ended") \/ Return(x, "failed")
      BY <1>9 DEF Receive, ConnDone, StdinFail
    <2> QED BY <1>2, <2>1, <2>2, ReturnRoute
  <1>10. CASE UNCHANGED vars
    BY <1>2, <1>10 DEF vars, execVars
  <1> QED
    BY <1>2, <1>3, <1>4, <1>5, <1>6, <1>7, <1>8, <1>9, <1>10 DEF Next, ExecStep

\* Every way out of BridgeExec and CollectExec removes its session: an entry of
\* rc.sessions always belongs to an exec running on that connection.
THEOREM RoutesAreLive == Spec => []RouteIsLive
  <1>1. Init => RouteIsLive
    BY DEF Init, RouteIsLive
  <1>2. TypeOK /\ RouteIsLive /\ [Next]_vars => RouteIsLive'
    BY NextRoute
  <1> QED BY <1>1, <1>2, TypeCorrect, PTL DEF Spec

-----------------------------------------------------------------------------
\* The lifetime marker is cleared by the removal of its container only.
THEOREM ExpiryIsKept == Spec => ExpiryOutlivesSession
  <1>1. ASSUME TypeOK, Next, NEW i \in Ids, i \in expired, i \notin expired' PROVE Drop(i)
    <2>1. ASSUME NEW k \in Conns,
                 \/ \E id \in Ids : Dial(k, id)
                 \/ ConnStep(k) \/ PeerLost(k) \/ ReadLifetimeExpired(k)
          PROVE  FALSE
      BY <1>1, <2>1 DEF Dial, ConnStep, Register, DropSession, ReadLoopEnd, Deliver, CleanupConn,
                        PeerLost, ReadLifetimeExpired, regVars
    <2>2. ASSUME NEW w \in Waiters,
                 (\E id \in Ids : WaitForAgent(w, id)) \/ WaiterWoken(w) \/ WaiterTimeout(w)
          PROVE  FALSE
      BY <1>1, <2>2 DEF WaitForAgent, WaiterWoken, WaiterTimeout, regVars
    <2>3. ASSUME NEW x \in Execs,
                 \/ \E id \in Ids : ExecStart(x, id) \/ RunAndCapture(x, id)
                 \/ ExecStep(x) \/ StdinFail(x) \/ ChildStep(x)
          PROVE  FALSE
      BY <1>1, <2>3 DEF ExecStart, RunAndCapture, ExecStep, Resolve, Begin, Receive, ConnDone,
                        StdinFail, ChildStep, HandleExec, ReadOutput, ReadExit, ReadError,
                        ReadFrom, regVars
    <2>4. PICK id \in Ids : Drop(id)
      BY <1>1, <2>1, <2>2, <2>3 DEF Next
    <2>5. i = id
      BY <1>1, <2>4 DEF Drop
    <2> QED BY <2>4, <2>5
  <1>2. TypeOK /\ [Next]_vars =>
          [\A id \in Ids : id \in expired /\ id \notin expired' => Drop(id)]_vars
    BY <1>1
  <1> QED BY <1>2, TypeCorrect, PTL DEF Spec, ExpiryOutlivesSession

-----------------------------------------------------------------------------
(***************************************************************************)
(* The children of a connection.  OnlyDisplacedSurvive says who may be     *)
(* left after the cleanup; that it is inductive needs what the bootstrap's *)
(* registry holds: an exec of that connection and session id whose child   *)
(* was started, and something for every child that runs.                   *)
(***************************************************************************)
Started == {"running", "exited", "killed"}

ProcsAreTheirs ==
    \A k \in Conns, key \in Keys : procs[k][key] # NoExec =>
        /\ econn[procs[k][key]] = k /\ KeyOf[procs[k][key]] = key
        /\ child[procs[k][key]] \in Started

RunningIsListed ==
    \A x \in Execs : child[x] = "running" =>
        /\ procs[econn[x]][KeyOf[x]] # NoExec
        /\ econn[x] \in cleaned => procs[econn[x]][KeyOf[x]] # x

ChildInv == ProcsAreTheirs /\ RunningIsListed

LEMMA ProcsAreExecs ==
    ASSUME TypeOK, NEW k \in Conns, NEW key \in Keys PROVE procs[k][key] \in Execs \cup {NoExec}
  BY DEF TypeOK, BootTypeOK

\* A child that was started keeps its connection.
LEMMA ConnStays ==
    ASSUME TypeOK, NEW x \in Execs,
           \/ \E id \in Ids : ExecStart(x, id) \/ RunAndCapture(x, id)
           \/ ExecStep(x) \/ StdinFail(x)
    PROVE  /\ UNCHANGED <<procs, cleaned>>
           /\ \A y \in Execs : child[y] # "none" => econn'[y] = econn[y] /\ child'[y] = child[y]
           /\ \A y \in Execs : child'[y] \in {child[y], "requested"}
  <1>1. CASE Begin(x)
    <2>1. child[x] = "none"
      BY <1>1 DEF Begin, TypeOK, BootTypeOK
    <2>2. child' = child \/ child' = [child EXCEPT ![x] = "requested"]
      BY <1>1 DEF Begin, BeginSend, BeginFail
    <2>3. UNCHANGED <<procs, cleaned, econn>>
      BY <1>1 DEF Begin
    <2> QED BY <2>1, <2>2, <2>3 DEF TypeOK, BootTypeOK
  <1>2. CASE Resolve(x)
    <2>1. child[x] = "none"
      BY <1>2 DEF Resolve, TypeOK, BootTypeOK
    <2>2. UNCHANGED <<child, procs, cleaned>> /\ \A y \in Execs \ {x} : econn'[y] = econn[y]
      BY <1>2 DEF Resolve, bootVars, TypeOK, ExecTypeOK
    <2> QED BY <2>1, <2>2
  <1>3. CASE ~ Begin(x) /\ ~ Resolve(x)
    <2>1. UNCHANGED <<child, procs, cleaned, econn>>
      BY <1>3 DEF ExecStart, RunAndCapture, ExecStep, Receive, ConnDone, StdinFail, bootVars
    <2> QED BY <2>1
  <1> QED BY <1>1, <1>2, <1>3

LEMMA ChildrenStay ==
    ASSUME TypeOK, ChildInv, UNCHANGED <<procs, cleaned>>,
           \A y \in Execs : child[y] \in Started => econn'[y] = econn[y] /\ child'[y] \in Started,
           \A y \in Execs : child'[y] = "running" => child[y] = "running"
    PROVE  ChildInv'
  <1>1. ProcsAreTheirs'
    BY ProcsAreExecs DEF ChildInv, ProcsAreTheirs
  <1>2. RunningIsListed'
    BY DEF ChildInv, RunningIsListed, Started
  <1> QED BY <1>1, <1>2 DEF ChildInv

LEMMA HandleExecChildren ==
    ASSUME TypeOK, ChildInv, NEW x \in Execs, HandleExec(x) PROVE ChildInv'
  <1>0. PICK c \in Conns, key \in Keys : c = econn[x] /\ key = KeyOf[x]
    BY ReverseAgentAssumption DEF HandleExec, TypeOK, BootTypeOK
  <1>1. /\ UNCHANGED <<econn, cleaned>> /\ c \notin cleaned
        /\ \A y \in Execs : child'[y] = IF y = x THEN "running" ELSE child[y]
        /\ \A k \in Conns, i \in Keys :
              procs'[k][i] = IF k = c /\ i = key THEN x ELSE procs[k][i]
    BY <1>0 DEF HandleExec, execVars, TypeOK, BootTypeOK
  <1>2. ProcsAreTheirs'
    BY <1>0, <1>1, ProcsAreExecs DEF ChildInv, ProcsAreTheirs, Started
  <1>3. RunningIsListed'
    <2> SUFFICES ASSUME NEW y \in Execs, child'[y] = "running"
                 PROVE  /\ procs'[econn[y]][KeyOf[y]] # NoExec
                        /\ econn[y] \in cleaned => procs'[econn[y]][KeyOf[y]] # y
      BY <1>1 DEF RunningIsListed
    <2>1. econn[y] \in Conns /\ KeyOf[y] \in Keys
      BY <1>0, <1>1, ReverseAgentAssumption DEF TypeOK, BootTypeOK
    <2>2. CASE econn[y] = c /\ KeyOf[y] = key
      BY <1>1, <2>1, <2>2, ReverseAgentAssumption
    <2>3. CASE ~ (econn[y] = c /\ KeyOf[y] = key)
      <3>1. y # x /\ child[y] = "running"
        BY <1>0, <1>1, <2>3
      <3> QED BY <1>1, <2>1, <2>3, <3>1 DEF ChildInv, RunningIsListed
    <2> QED BY <2>2, <2>3
  <1> QED BY <1>2, <1>3 DEF ChildInv

LEMMA CleanupChildren ==
    ASSUME TypeOK, ChildInv, NEW k \in Conns, CleanupConn(k) PROVE ChildInv'
  <1>1. /\ UNCHANGED <<econn, procs>> /\ cleaned' = cleaned \cup {k}
        /\ \A y \in Execs : child'[y] =
              IF child[y] = "running" /\ procs[k][KeyOf[y]] = y THEN "killed" ELSE
              IF child[y] = "requested" /\ econn[y] = k THEN "none" ELSE child[y]
    BY DEF CleanupConn, execVars
  <1>2. ProcsAreTheirs'
    BY <1>1, ProcsAreExecs DEF ChildInv, ProcsAreTheirs, Started
  <1>3. RunningIsListed'
    BY <1>1 DEF ChildInv, RunningIsListed
  <1> QED BY <1>2, <1>3 DEF ChildInv

LEMMA NextChildren ==
    ASSUME TypeOK, ChildInv, [Next]_vars PROVE ChildInv'
  <1>1. ASSUME UNCHANGED <<child, procs, cleaned, econn>> PROVE ChildInv'
    BY <1>1, ChildrenStay
  <1>2. ASSUME NEW k \in Conns,
               \/ \E id \in Ids : Dial(k, id)
               \/ ConnStep(k) \/ PeerLost(k) \/ ReadLifetimeExpired(k)
        PROVE  ChildInv'
    <2>1. CASE CleanupConn(k)
      BY <2>1, CleanupChildren
    <2>2. CASE ~ CleanupConn(k)
      <3>1. UNCHANGED <<child, procs, cleaned, econn>>
        BY <1>2, <2>2 DEF Dial, ConnStep, Register, DropSession, ReadLoopEnd, Deliver, PeerLost,
                          ReadLifetimeExpired, execVars, bootVars
      <3> QED BY <1>1, <3>1
    <2> QED BY <2>1, <2>2
  <1>3. ASSUME NEW id \in Ids, Drop(id) PROVE UNCHANGED <<child, procs, cleaned, econn>>
    BY <1>3 DEF Drop, execVars, bootVars
  <1>4. ASSUME NEW w \in Waiters,
               (\E id \in Ids : WaitForAgent(w, id)) \/ WaiterWoken(w) \/ WaiterTimeout(w)
        PROVE  UNCHANGED <<child, procs, cleaned, econn>>
    BY <1>4 DEF WaitForAgent, WaiterWoken, WaiterTimeout, execVars, bootVars
  <1>5. ASSUME NEW x \in Execs,
               \/ \E id \in Ids : ExecStart(x, id) \/ RunAndCapture(x, id)
               \/ ExecStep(x) \/ StdinFail(x)
        PROVE  ChildInv'
    BY <1>5, ConnStays, ChildrenStay DEF Started
  <1>6. ASSUME NEW x \in Execs, ReadOutput(x) \/ ReadExit(x) \/ ReadError(x) PROVE ChildInv'
    <2>1. /\ UNCHANGED <<procs, cleaned, econn>>
          /\ child' = child \/ child' = [child EXCEPT ![x] = "exited"]
      BY <1>6 DEF ReadOutput, ReadExit, ReadError, ReadFrom, execVars
    <2>2. \A y \in Execs : child'[y] = child[y] \/ child'[y] = "exited"
      BY <2>1 DEF TypeOK, BootTypeOK
    <2> QED BY <2>1, <2>2, ChildrenStay DEF Started
  <1>7. CASE UNCHANGED vars
    BY <1>1, <1>7 DEF vars, execVars, bootVars
  <1> QED
    BY <1>1, <1>2, <1>3, <1>4, <1>5, <1>6, <1>7, HandleExecChildren DEF Next, ChildStep

\* After ServeReverseAgent has returned and CleanupConn has run, the only
\* children alive are those whose session id another exec of the same
\* connection took over, for any assignment of session ids.
THEOREM SurvivorsAreDisplaced == Spec => []OnlyDisplacedSurvive
  <1>1. Init => ChildInv
    BY DEF Init, ChildInv, ProcsAreTheirs, RunningIsListed
  <1>2. TypeOK /\ ChildInv /\ [Next]_vars => ChildInv'
    BY NextChildren
  <1>3. TypeOK /\ ChildInv => OnlyDisplacedSurvive
    <2> SUFFICES ASSUME TypeOK, ChildInv, NEW x \in Execs, child[x] = "running",
                        econn[x] \in cleaned
                 PROVE  \E y \in Execs \ {x} :
                            procs[econn[x]][KeyOf[x]] = y /\ econn[y] = econn[x]
      BY DEF OnlyDisplacedSurvive
    <2>1. econn[x] \in Conns /\ KeyOf[x] \in Keys
      BY ReverseAgentAssumption DEF TypeOK, BootTypeOK
    <2>2. procs[econn[x]][KeyOf[x]] \in Execs \ {x}
      BY <2>1, ProcsAreExecs DEF ChildInv, RunningIsListed
    <2>3. procs[econn[x]][KeyOf[x]] # NoExec
      BY DEF ChildInv, RunningIsListed
    <2> QED BY <2>1, <2>2, <2>3 DEF ChildInv, ProcsAreTheirs
  <1> QED BY <1>1, <1>2, <1>3, TypeCorrect, PTL DEF Spec
=============================================================================
