------------------------------- MODULE Broker -------------------------------
(***************************************************************************)
(* The message broker of bleephub (bleephub/broker.go): sessions with a    *)
(* buffered channel each, the round robin that spreads job messages over   *)
(* them, the list of pending messages, and the long poll that hands a      *)
(* message to a runner.                                                    *)
(*                                                                         *)
(* One step is one critical section of store.mu, or one channel operation  *)
(* outside it.  Two kinds of goroutines send: dispatchWorkflowJob puts a   *)
(* message it could not send on the pending list, handleSubmitJob does     *)
(* not.                                                                    *)
(***************************************************************************)
EXTENDS Naturals, Sequences, FiniteSets

CONSTANTS
    NumSessions,   \* bound: sessions ever created
    WorkflowMsgs,  \* messages of dispatchWorkflowJob
    DirectMsgs,    \* messages of handleSubmitJob
    Pollers,       \* bound: GET Message handlers in progress
    ChanCap,       \* capacity of Session.MsgCh (10 in the code)
    MaxGone        \* bound: poll requests whose client disconnects

\* Session ids are UUIDs: a session may sort anywhere among the others.
SessionIds == 1 .. NumSessions
Msgs == WorkflowMsgs \cup DirectMsgs

ASSUME BrokerAssumption ==
    /\ NumSessions \in Nat /\ ChanCap \in Nat \ {0} /\ MaxGone \in Nat
    /\ WorkflowMsgs \cap DirectMsgs = {}
    /\ IsFiniteSet(Msgs)

VARIABLES
    sessions,  \* the keys of store.Sessions
    used,      \* the sessions that were ever created
    chan,      \* chan[s]: the buffer of MsgCh, which outlives the session
    lastIdx,   \* lastSessionIdx
    pending,   \* store.PendingMessages
    phase,     \* phase[m]: where the goroutine that sends m is
    drain,     \* drain[s]: where the drain started by the creation of s is
    batch,     \* batch[s]: the messages that drain has yet to try
    remaining, \* remaining[s]: the messages that drain could not send
    poll,      \* poll[p]: the session poll p waits on, or 0
    gone,      \* gone[p]: the client of poll p has disconnected
    got,       \* got[m]: how many times a runner received m
    lost,      \* messages written to a client that was gone
    goneCount, \* counter of the bound
    share      \* history: messages each session was given since the last
               \* change of the sessions or skip of a full one

chanVars == <<chan, lastIdx, share>>
sessVars == <<sessions, used>>
drainVars == <<drain, batch, remaining>>
pollVars == <<poll, gone, got, lost, goneCount>>
vars == <<chanVars, sessVars, drainVars, pollVars, pending, phase>>

-----------------------------------------------------------------------------
\* The position of session s in the sorted list of ids, and how many ids the
\* round robin tries before it.
Rank(s) == Cardinality({u \in sessions : u < s})
Distance(s) ==
    LET n == Cardinality(sessions) IN (Rank(s) + n - (lastIdx % n)) % n

\* Mutant: off by one.
WithRoom_OffByOne == {s \in sessions : Len(chan[s]) <= ChanCap}

WithRoom == {s \in sessions : Len(chan[s]) < ChanCap}

\* Mutant: the index stays on the session that got the message.
GiveTo_SameIdx(s, m) ==
    /\ s \in WithRoom /\ \A u \in WithRoom : Distance(s) <= Distance(u)
    /\ chan' = [chan EXCEPT ![s] = Append(@, m)]
    /\ lastIdx' = Rank(s) % Cardinality(sessions)
    /\ share' = IF Distance(s) = 0 THEN [share EXCEPT ![s] = @ + 1]
                                   ELSE [u \in SessionIds |-> 0]

\* sendMessageToAgent returns true: s is the first session with room.
GiveTo(s, m) ==
    /\ s \in WithRoom /\ \A u \in WithRoom : Distance(s) <= Distance(u)
    /\ chan' = [chan EXCEPT ![s] = Append(@, m)]
    /\ lastIdx' = (Rank(s) + 1) % Cardinality(sessions)
    /\ share' = IF Distance(s) = 0 THEN [share EXCEPT ![s] = @ + 1]
                                   ELSE [u \in SessionIds |-> 0]

\* sendMessageToAgent returns false.
NoRunner == WithRoom = {} /\ UNCHANGED chanVars

Init ==
    /\ sessions = {} /\ used = {}
    /\ chan = [s \in SessionIds |-> <<>>]
    /\ lastIdx = 0
    /\ pending = <<>>
    /\ phase = [m \in Msgs |-> "new"]
    /\ drain = [s \in SessionIds |-> "none"]
    /\ batch = [s \in SessionIds |-> <<>>]
    /\ remaining = [s \in SessionIds |-> <<>>]
    /\ poll = [p \in Pollers |-> 0]
    /\ gone = [p \in Pollers |-> FALSE]
    /\ got = [m \in Msgs |-> 0]
    /\ lost = {}
    /\ goneCount = 0
    /\ share = [s \in SessionIds |-> 0]

-----------------------------------------------------------------------------
\* dispatchWorkflowJob: send, or go on to requeuePendingMessage.
DispatchSend(m) ==
    /\ m \in WorkflowMsgs /\ phase[m] = "new"
    /\ \/ \E s \in SessionIds : GiveTo(s, m) /\ phase' = [phase EXCEPT ![m] = "sent"]
       \/ NoRunner /\ phase' = [phase EXCEPT ![m] = "requeue"]
    /\ UNCHANGED <<sessVars, drainVars, pollVars, pending>>

RequeuePendingMessage(m) ==
    /\ phase[m] = "requeue"
    /\ phase' = [phase EXCEPT ![m] = "sent"]
    /\ pending' = Append(pending, m)
    /\ UNCHANGED <<chanVars, sessVars, drainVars, pollVars>>

\* handleSubmitJob: a message that found no session is dropped.
HandleSubmitJob(m) ==
    /\ m \in DirectMsgs /\ phase[m] = "new"
    /\ \/ \E s \in SessionIds : GiveTo(s, m) /\ phase' = [phase EXCEPT ![m] = "sent"]
       \/ NoRunner /\ phase' = [phase EXCEPT ![m] = "dropped"]
    /\ UNCHANGED <<sessVars, drainVars, pollVars, pending>>

-----------------------------------------------------------------------------
HandleCreateSession(s) ==
    /\ s \notin used
    /\ used' = used \cup {s}
    /\ sessions' = sessions \cup {s}
    /\ drain' = [drain EXCEPT ![s] = "take"]
    /\ share' = [u \in SessionIds |-> 0]
    /\ UNCHANGED <<chan, lastIdx, batch, remaining, pollVars, pending, phase>>

\* Mutant: the list is read and not reset.
DrainTake_NoReset(s) ==
    /\ drain[s] = "take"
    /\ drain' = [drain EXCEPT ![s] = "send"]
    /\ batch' = [batch EXCEPT ![s] = pending]
    /\ UNCHANGED <<chanVars, sessVars, remaining, pollVars, pending, phase>>

DrainTake(s) ==
    /\ drain[s] = "take"
    /\ drain' = [drain EXCEPT ![s] = "send"]
    /\ batch' = [batch EXCEPT ![s] = pending]
    /\ pending' = <<>>
    /\ UNCHANGED <<chanVars, sessVars, remaining, pollVars, phase>>

DrainSend(s) ==
    /\ drain[s] = "send" /\ batch[s] # <<>>
    /\ batch' = [batch EXCEPT ![s] = Tail(@)]
    /\ \/ /\ \E u \in SessionIds : GiveTo(u, Head(batch[s]))
          /\ UNCHANGED remaining
       \/ /\ NoRunner
          /\ remaining' = [remaining EXCEPT ![s] = Append(@, Head(batch[s]))]
    /\ UNCHANGED <<sessVars, drain, pollVars, pending, phase>>

\* Mutant: what could not be sent is not put back.
DrainPutBack_Forget(s) ==
    /\ drain[s] = "send" /\ batch[s] = <<>>
    /\ drain' = [drain EXCEPT ![s] = "done"]
    /\ remaining' = [remaining EXCEPT ![s] = <<>>]
    /\ UNCHANGED <<chanVars, sessVars, batch, pollVars, pending, phase>>

DrainPutBack(s) ==
    /\ drain[s] = "send" /\ batch[s] = <<>>
    /\ drain' = [drain EXCEPT ![s] = "done"]
    /\ pending' = remaining[s] \o pending
    /\ remaining' = [remaining EXCEPT ![s] = <<>>]
    /\ UNCHANGED <<chanVars, sessVars, batch, pollVars, phase>>

\* The channel is closed and the session removed in one section.
HandleDeleteSession(s) ==
    /\ s \in sessions
    /\ sessions' = sessions \ {s}
    /\ share' = [u \in SessionIds |-> 0]
    /\ UNCHANGED <<chan, lastIdx, used, drainVars, pollVars, pending, phase>>

-----------------------------------------------------------------------------
(***************************************************************************)
(* handleGetMessage.  A poll that looked its session up keeps the channel: *)
(* it may empty the buffer of a session that was deleted since.            *)
(***************************************************************************)
GetMessage(p, s) ==
    /\ poll[p] = 0 /\ s \in sessions
    /\ poll' = [poll EXCEPT ![p] = s]
    /\ UNCHANGED <<chanVars, sessVars, drainVars, gone, got, lost, goneCount,
                   pending, phase>>

\* The response reaches the runner unless the client has gone.
PollReceive(p) ==
    LET s == poll[p]
        m == Head(chan[s])
    IN
    /\ s # 0 /\ chan[s] # <<>>
    /\ chan' = [chan EXCEPT ![s] = Tail(@)]
    /\ poll' = [poll EXCEPT ![p] = 0]
    /\ gone' = [gone EXCEPT ![p] = FALSE]
    /\ \/ ~ gone[p] /\ got' = [got EXCEPT ![m] = @ + 1] /\ UNCHANGED lost
       \/ gone[p] /\ lost' = lost \cup {m} /\ UNCHANGED got
    /\ UNCHANGED <<lastIdx, share, sessVars, drainVars, goneCount, pending, phase>>

\* The poll returns nothing: 30 seconds passed or the channel is closed with
\* nothing in it, or the client has gone (even if a message has arrived).
PollEmpty(p) ==
    /\ poll[p] # 0
    /\ chan[poll[p]] = <<>> \/ gone[p]
    /\ poll' = [poll EXCEPT ![p] = 0]
    /\ gone' = [gone EXCEPT ![p] = FALSE]
    /\ UNCHANGED <<chanVars, sessVars, drainVars, got, lost, goneCount, pending, phase>>

\* The client of a poll in progress disconnects.
ClientGone(p) ==
    /\ poll[p] # 0 /\ ~ gone[p] /\ goneCount < MaxGone
    /\ goneCount' = goneCount + 1
    /\ gone' = [gone EXCEPT ![p] = TRUE]
    /\ UNCHANGED <<chanVars, sessVars, drainVars, poll, got, lost, pending, phase>>

-----------------------------------------------------------------------------
Next ==
    \/ \E m \in Msgs : DispatchSend(m) \/ RequeuePendingMessage(m) \/ HandleSubmitJob(m)
    \/ \E s \in SessionIds :
          \/ HandleCreateSession(s) \/ HandleDeleteSession(s)
          \/ DrainTake(s) \/ DrainSend(s) \/ DrainPutBack(s)
    \/ \E p \in Pollers, s \in SessionIds : GetMessage(p, s)
    \/ \E p \in Pollers : PollReceive(p) \/ PollEmpty(p) \/ ClientGone(p)

Spec == Init /\ [][Next]_vars

-----------------------------------------------------------------------------
Count(m, seq) == Cardinality({i \in 1 .. Len(seq) : seq[i] = m})
Bit(b) == IF b THEN 1 ELSE 0

\* How often message m occurs in one of the places f[s] of the sessions.
Across(m, f) == Cardinality({x \in SessionIds \X (1 .. Cardinality(Msgs)) :
                               x[2] <= Len(f[x[1]]) /\ f[x[1]][x[2]] = m})

\* The channels hold at most their capacity, and every variable has its type.
TypeOK ==
    /\ sessions \subseteq used /\ used \subseteq SessionIds
    /\ chan \in [SessionIds -> Seq(Msgs)]
    /\ \A s \in SessionIds : Len(chan[s]) <= ChanCap
    /\ lastIdx \in Nat
    /\ pending \in Seq(WorkflowMsgs)
    /\ phase \in [Msgs -> {"new", "sent", "requeue", "dropped"}]
    /\ drain \in [SessionIds -> {"none", "take", "send", "done"}]
    /\ batch \in [SessionIds -> Seq(WorkflowMsgs)]
    /\ remaining \in [SessionIds -> Seq(WorkflowMsgs)]
    /\ poll \in [Pollers -> {0} \cup SessionIds]
    /\ gone \in [Pollers -> BOOLEAN]
    /\ got \in [Msgs -> Nat]
    /\ lost \in SUBSET Msgs
    /\ goneCount \in Nat
    /\ share \in [SessionIds -> Nat]

\* A message is in exactly one place, whatever sends, drains, polls and
\* deletions overlap: with its sender, pending, with a drain, in the channel
\* of a session (open or not), with a runner, or lost with its connection.
\* So no job is given to two runners and none vanishes between two lists.
OnePlace ==
    \A m \in Msgs :
        1 = Bit(phase[m] # "sent")
            + Count(m, pending) + Across(m, batch) + Across(m, remaining)
            + Across(m, chan) + got[m] + Bit(m \in lost)

\* Round robin: while sessions neither come nor go and none is full, no
\* session gets two messages more than another, whether they come from
\* dispatch, from a job submission or from a drain.
FairShare ==
    \A s, u \in sessions : share[s] <= share[u] + 1

\* Where message m is, in the terms of Mailbox.
In(m, seq) == \E i \in 1 .. Len(seq) : seq[i] = m
Waits(m) == \/ phase[m] \in {"new", "requeue"} \/ In(m, pending)
            \/ \E s \in SessionIds : In(m, batch[s]) \/ In(m, remaining[s])
Place(m) ==
    CASE \E s \in SessionIds : In(m, chan[s]) -> "offered"
      [] Waits(m) -> "waiting"
      [] phase[m] = "dropped" -> "dropped"
      [] m \in lost -> "lost"
      [] got[m] = 1 -> "taken"
      [] OTHER -> "nowhere"

Box == INSTANCE Mailbox WITH Droppable <- DirectMsgs,
                             place <- [m \in Msgs |-> Place(m)]

\* The broker implements Mailbox: drains that take the whole list, put a rest
\* back and overlap with senders, and polls on channels of deleted sessions,
\* never return an offered message, take one twice or mislay one.
IsMailbox == Box!Spec
=============================================================================
