---------------------------- MODULE BrokerProofs ----------------------------
(***************************************************************************)
(* Proofs about Broker: its type invariant, that it implements Mailbox and *)
(* that its round robin is fair, for any number of messages, sessions and  *)
(* polls.  The invariant of the refinement says of every message on its    *)
(* own in which of the sequences it may be.                                *)
(***************************************************************************)
EXTENDS Broker, FiniteSetTheorems, TLAPS

-----------------------------------------------------------------------------
\* Sequences without duplicates.

NoDup(q) == \A i, j \in 1 .. Len(q) : q[i] = q[j] => i = j

\* Nothing is in the empty sequence.
LEMMA EmptySeq == NoDup(<<>>) /\ \A m : ~In(m, <<>>)
  BY DEF NoDup, In

\* What Append adds.
LEMMA AppendSeq ==
  ASSUME NEW S, NEW q \in Seq(S), NEW m \in S
  PROVE  /\ Append(q, m) \in Seq(S)
         /\ \A x : In(x, Append(q, m)) <=> In(x, q) \/ x = m
         /\ NoDup(q) /\ ~In(m, q) => NoDup(Append(q, m))
  <1>1. /\ Append(q, m) \in Seq(S) /\ Len(Append(q, m)) = Len(q) + 1
        /\ \A i \in 1 .. Len(q) : Append(q, m)[i] = q[i]
        /\ Append(q, m)[Len(q) + 1] = m /\ Len(q) \in Nat
        OBVIOUS
  <1>2. \A x : In(x, Append(q, m)) <=> In(x, q) \/ x = m
        BY <1>1 DEF In
  <1>3. NoDup(q) /\ ~In(m, q) => NoDup(Append(q, m))
        BY <1>1 DEF NoDup, In
  <1> QED BY <1>1, <1>2, <1>3

\* What Tail takes away.
LEMMA TailSeq ==
  ASSUME NEW S, NEW q \in Seq(S), q # <<>>
  PROVE  /\ Tail(q) \in Seq(S) /\ Head(q) \in S /\ In(Head(q), q)
         /\ Len(Tail(q)) = Len(q) - 1
         /\ NoDup(q) => /\ NoDup(Tail(q))
                        /\ \A x : In(x, Tail(q)) <=> In(x, q) /\ x # Head(q)
  <1>1. /\ Tail(q) \in Seq(S) /\ Len(q) \in Nat \ {0} /\ Len(Tail(q)) = Len(q) - 1
        /\ Head(q) = q[1] /\ q[1] \in S
        /\ \A i \in 1 .. Len(q) - 1 : Tail(q)[i] = q[i + 1]
        OBVIOUS
  <1>2. In(Head(q), q)
        BY <1>1 DEF In
  <1>3. ASSUME NoDup(q) PROVE NoDup(Tail(q))
        BY <1>1, <1>3 DEF NoDup
  <1>4. ASSUME NoDup(q), NEW x PROVE In(x, Tail(q)) <=> In(x, q) /\ x # Head(q)
    <2>1. ASSUME In(x, Tail(q)) PROVE In(x, q) /\ x # Head(q)
      <3>1. PICK i \in 1 .. Len(q) - 1 : q[i + 1] = x
            BY <1>1, <2>1 DEF In
      <3> QED BY <1>1, <1>4, <3>1 DEF In, NoDup
    <2>2. ASSUME In(x, q), x # Head(q) PROVE In(x, Tail(q))
      <3>1. PICK i \in 1 .. Len(q) : q[i] = x
            BY <2>2 DEF In
      <3>2. i - 1 \in 1 .. Len(q) - 1 /\ Tail(q)[i - 1] = x
            BY <1>1, <2>2, <3>1
      <3> QED BY <1>1, <3>2 DEF In
    <2> QED BY <2>1, <2>2
  <1> QED BY <1>1, <1>2, <1>3, <1>4

\* What concatenation joins.
LEMMA ConcatSeq ==
  ASSUME NEW S, NEW p \in Seq(S), NEW q \in Seq(S)
  PROVE  /\ p \o q \in Seq(S)
         /\ \A x : In(x, p \o q) <=> In(x, p) \/ In(x, q)
         /\ NoDup(p) /\ NoDup(q) /\ (\A x : ~(In(x, p) /\ In(x, q)))
              => NoDup(p \o q)
  <1>1. /\ p \o q \in Seq(S) /\ Len(p \o q) = Len(p) + Len(q)
        /\ Len(p) \in Nat /\ Len(q) \in Nat
        /\ \A i \in 1 .. Len(p) : (p \o q)[i] = p[i]
        /\ \A i \in 1 .. Len(q) : (p \o q)[Len(p) + i] = q[i]
        OBVIOUS
  <1> DEFINE r == p \o q
  <1>2. \A i \in 1 .. Len(r) : \/ i \in 1 .. Len(p) /\ r[i] = p[i]
                               \/ i - Len(p) \in 1 .. Len(q) /\ r[i] = q[i - Len(p)]
    <2> TAKE i \in 1 .. Len(r)
    <2>1. CASE i <= Len(p)
          BY <1>1, <2>1
    <2>2. CASE i > Len(p)
      <3>1. i - Len(p) \in 1 .. Len(q) /\ Len(p) + (i - Len(p)) = i
            BY <1>1, <2>2
      <3> QED BY <1>1, <3>1
    <2> QED BY <1>1, <2>1, <2>2
  <1>3. ASSUME NEW x PROVE In(x, r) <=> In(x, p) \/ In(x, q)
    <2>1. ASSUME In(x, r) PROVE In(x, p) \/ In(x, q)
          BY <1>2, <2>1 DEF In
    <2>2. ASSUME In(x, p) PROVE In(x, r)
          BY <1>1, <2>2 DEF In
    <2>3. ASSUME In(x, q) PROVE In(x, r)
      <3>1. PICK i \in 1 .. Len(q) : q[i] = x
            BY <2>3 DEF In
      <3>2. Len(p) + i \in 1 .. Len(r) /\ r[Len(p) + i] = x
            BY <1>1, <3>1
      <3> QED BY <3>2 DEF In
    <2> QED BY <2>1, <2>2, <2>3
  <1>4. ASSUME NoDup(p), NoDup(q), \A x : ~(In(x, p) /\ In(x, q))
        PROVE  NoDup(r)
    <2> SUFFICES ASSUME NEW i \in 1 .. Len(r), NEW j \in 1 .. Len(r), r[i] = r[j]
                 PROVE  i = j
        BY DEF NoDup
    <2> HIDE DEF r
    <2>0. i \in Nat /\ j \in Nat
          BY <1>1 DEF r
    <2>1. CASE i \in 1 .. Len(p) /\ r[i] = p[i] /\ j \in 1 .. Len(p) /\ r[j] = p[j]
          BY <1>4, <2>1 DEF NoDup
    <2>2. CASE /\ i - Len(p) \in 1 .. Len(q) /\ r[i] = q[i - Len(p)]
               /\ j - Len(p) \in 1 .. Len(q) /\ r[j] = q[j - Len(p)]
      <3>1. i - Len(p) = j - Len(p)
            BY <1>4, <2>2 DEF NoDup
      <3> QED BY <1>1, <2>0, <3>1
    <2>3. CASE /\ i \in 1 .. Len(p) /\ r[i] = p[i]
               /\ j - Len(p) \in 1 .. Len(q) /\ r[j] = q[j - Len(p)]
          BY <1>4, <2>3 DEF In
    <2>4. CASE /\ j \in 1 .. Len(p) /\ r[j] = p[j]
               /\ i - Len(p) \in 1 .. Len(q) /\ r[i] = q[i - Len(p)]
          BY <1>4, <2>4 DEF In
    <2> QED BY <1>2, <2>1, <2>2, <2>3, <2>4
  <1> QED BY <1>1, <1>3, <1>4

-----------------------------------------------------------------------------
\* Types.

\* Only workflow messages are requeued, a session that was never created has
\* no drain, and a drain holds messages only while it sends.
PhaseInv == \A m \in Msgs : phase[m] = "requeue" => m \in WorkflowMsgs
DrainInv ==
    \A s \in SessionIds :
        /\ s \notin used => drain[s] = "none"
        /\ drain[s] # "send" => batch[s] = <<>> /\ remaining[s] = <<>>
TypeInv == TypeOK /\ PhaseInv /\ DrainInv

\* The sessions are finitely many.
LEMMA SessionsFinite ==
  ASSUME TypeOK
  PROVE  /\ IsFiniteSet(sessions)
         /\ \A s \in sessions : Cardinality(sessions) \in Nat \ {0}
  <1>1. IsFiniteSet(SessionIds)
        BY FS_Interval, BrokerAssumption DEF SessionIds
  <1>2. sessions \subseteq SessionIds
        BY DEF TypeOK
  <1>3. IsFiniteSet(sessions)
        BY <1>1, <1>2, FS_Subset
  <1>4. \A s \in sessions : Cardinality(sessions) \in Nat \ {0}
        BY <1>3, FS_CardinalityType, FS_EmptySet
  <1> QED BY <1>3, <1>4

\* The rank of a session is a number.
LEMMA RankType ==
  ASSUME TypeOK, NEW s \in SessionIds
  PROVE  Rank(s) \in Nat
  <1>1. IsFiniteSet({u \in sessions : u < s})
        BY SessionsFinite, FS_Subset
  <1> QED BY <1>1, FS_CardinalityType DEF Rank

\* What sendMessageToAgent does to the channels.
LEMMA GiveToEffect ==
  ASSUME TypeOK, NEW s \in SessionIds, NEW m \in Msgs, GiveTo(s, m)
  PROVE  /\ chan' \in [SessionIds -> Seq(Msgs)]
         /\ \A u \in SessionIds : Len(chan'[u]) <= ChanCap
         /\ lastIdx' \in Nat /\ share' \in [SessionIds -> Nat]
         /\ \A u \in SessionIds, x \in Msgs :
               In(x, chan'[u]) <=> In(x, chan[u]) \/ (u = s /\ x = m)
         /\ (\A u \in SessionIds : NoDup(chan[u]) /\ ~In(m, chan[u]))
               => \A u \in SessionIds : NoDup(chan'[u])
  <1>1. /\ s \in sessions /\ Len(chan[s]) < ChanCap
        /\ chan' = [chan EXCEPT ![s] = Append(chan[s], m)]
        BY DEF GiveTo, WithRoom
  <1>2. chan \in [SessionIds -> Seq(Msgs)] /\ chan[s] \in Seq(Msgs)
        BY DEF TypeOK
  <1>3. /\ chan'[s] = Append(chan[s], m)
        /\ \A u \in SessionIds : u # s => chan'[u] = chan[u]
        BY <1>1, <1>2
  <1>4. chan' \in [SessionIds -> Seq(Msgs)]
        BY <1>1, <1>2, AppendSeq
  <1>5. \A u \in SessionIds : Len(chan'[u]) <= ChanCap
    <2>1. Len(Append(chan[s], m)) = Len(chan[s]) + 1 /\ Len(chan[s]) \in Nat
          BY <1>2
    <2> QED BY <1>1, <1>3, <2>1, BrokerAssumption DEF TypeOK
  <1>6. lastIdx' \in Nat
    <2>1. Cardinality(sessions) \in Nat \ {0}
          BY <1>1, SessionsFinite
    <2> QED BY <2>1, RankType DEF GiveTo
  <1>7. share' \in [SessionIds -> Nat]
        BY DEF GiveTo, TypeOK
  <1>0. /\ \A x : In(x, Append(chan[s], m)) <=> In(x, chan[s]) \/ x = m
        /\ NoDup(chan[s]) /\ ~In(m, chan[s]) => NoDup(Append(chan[s], m))
        BY <1>2, AppendSeq
  <1>8. ASSUME NEW u \in SessionIds, NEW x \in Msgs
        PROVE  In(x, chan'[u]) <=> In(x, chan[u]) \/ (u = s /\ x = m)
    <2>1. CASE u = s
          BY <1>0, <1>3, <2>1
    <2>2. CASE u # s
          BY <1>3, <2>2
    <2> QED BY <2>1, <2>2
  <1>9. ASSUME \A u \in SessionIds : NoDup(chan[u]) /\ ~In(m, chan[u]),
               NEW u \in SessionIds
        PROVE  NoDup(chan'[u])
    <2>1. CASE u = s
          BY <1>0, <1>3, <1>9, <2>1
    <2>2. CASE u # s
          BY <1>3, <1>9, <2>2
    <2> QED BY <2>1, <2>2
  <1> QED BY <1>4, <1>5, <1>6, <1>7, <1>8, <1>9

LEMMA TypeInit == Init => TypeInv
  BY BrokerAssumption DEF Init, TypeInv, TypeOK, PhaseInv, DrainInv, Msgs

LEMMA TypeDispatchSend ==
  ASSUME TypeInv, NEW m \in Msgs, DispatchSend(m)
  PROVE  TypeInv'
  <1> USE DEF TypeInv
  <1>1. CASE \E s \in SessionIds : GiveTo(s, m) /\ phase' = [phase EXCEPT ![m] = "sent"]
        BY <1>1, GiveToEffect DEF DispatchSend, TypeOK, PhaseInv, DrainInv,
           sessVars, drainVars, pollVars
  <1>2. CASE NoRunner /\ phase' = [phase EXCEPT ![m] = "requeue"]
        BY <1>2 DEF DispatchSend, NoRunner, TypeOK, PhaseInv, DrainInv, chanVars,
           sessVars, drainVars, pollVars
  <1> QED BY <1>1, <1>2 DEF DispatchSend

LEMMA TypeHandleSubmitJob ==
  ASSUME TypeInv, NEW m \in Msgs, HandleSubmitJob(m)
  PROVE  TypeInv'
  <1> USE DEF TypeInv
  <1>1. CASE \E s \in SessionIds : GiveTo(s, m) /\ phase' = [phase EXCEPT ![m] = "sent"]
        BY <1>1, GiveToEffect DEF HandleSubmitJob, TypeOK, PhaseInv, DrainInv,
           sessVars, drainVars, pollVars
  <1>2. CASE NoRunner /\ phase' = [phase EXCEPT ![m] = "dropped"]
        BY <1>2 DEF HandleSubmitJob, NoRunner, TypeOK, PhaseInv, DrainInv, chanVars,
           sessVars, drainVars, pollVars
  <1> QED BY <1>1, <1>2 DEF HandleSubmitJob

LEMMA TypeRequeue ==
  ASSUME TypeInv, NEW m \in Msgs, RequeuePendingMessage(m)
  PROVE  TypeInv'
  <1>1. m \in WorkflowMsgs
        BY DEF TypeInv, PhaseInv, RequeuePendingMessage
  <1>2. pending' \in Seq(WorkflowMsgs)
        BY <1>1, AppendSeq DEF TypeInv, TypeOK, RequeuePendingMessage
  <1> QED BY <1>2 DEF TypeInv, RequeuePendingMessage, TypeOK, PhaseInv, DrainInv,
          chanVars, sessVars, drainVars, pollVars

LEMMA TypeSession ==
  ASSUME TypeInv, NEW s \in SessionIds, HandleCreateSession(s) \/ HandleDeleteSession(s)
  PROVE  TypeInv'
  <1>1. CASE HandleCreateSession(s)
        BY <1>1 DEF TypeInv, HandleCreateSession, TypeOK, PhaseInv, DrainInv, pollVars
  <1>2. CASE HandleDeleteSession(s)
        BY <1>2 DEF TypeInv, HandleDeleteSession, TypeOK, PhaseInv, DrainInv,
           drainVars, pollVars
  <1> QED BY <1>1, <1>2

LEMMA TypeDrainTake ==
  ASSUME TypeInv, NEW s \in SessionIds, DrainTake(s)
  PROVE  TypeInv'
  <1>1. <<>> \in Seq(WorkflowMsgs)
        OBVIOUS
  <1> QED BY <1>1 DEF TypeInv, DrainTake, TypeOK, PhaseInv, DrainInv, chanVars,
          sessVars, pollVars

LEMMA TypeDrainSend ==
  ASSUME TypeInv, NEW s \in SessionIds, DrainSend(s)
  PROVE  TypeInv'
  <1> USE DEF TypeInv
  <1> DEFINE m == Head(batch[s])
  <1>1. batch[s] \in Seq(WorkflowMsgs) /\ batch[s] # <<>> /\ remaining[s] \in Seq(WorkflowMsgs)
        BY DEF DrainSend, TypeOK
  <1>2. m \in WorkflowMsgs /\ m \in Msgs /\ Tail(batch[s]) \in Seq(WorkflowMsgs)
        BY <1>1, TailSeq DEF Msgs
  <1>3. Append(remaining[s], m) \in Seq(WorkflowMsgs)
        BY <1>1, <1>2, AppendSeq
  <1>4. batch' \in [SessionIds -> Seq(WorkflowMsgs)]
        BY <1>2 DEF DrainSend, TypeOK
  <1> HIDE DEF m
  <1>5. CASE /\ \E u \in SessionIds : GiveTo(u, m)
             /\ UNCHANGED remaining
        BY <1>2, <1>4, <1>5, GiveToEffect DEF DrainSend, TypeOK, PhaseInv, DrainInv,
           sessVars, pollVars
  <1>6. CASE NoRunner /\ remaining' = [remaining EXCEPT ![s] = Append(@, m)]
        BY <1>3, <1>4, <1>6 DEF DrainSend, NoRunner, TypeOK, PhaseInv, DrainInv,
           chanVars, sessVars, pollVars
  <1> QED BY <1>5, <1>6 DEF DrainSend, m

LEMMA TypeDrainPutBack ==
  ASSUME TypeInv, NEW s \in SessionIds, DrainPutBack(s)
  PROVE  TypeInv'
  <1>1. pending' \in Seq(WorkflowMsgs) /\ <<>> \in Seq(WorkflowMsgs)
        BY ConcatSeq DEF TypeInv, TypeOK, DrainPutBack
  <1> QED BY <1>1 DEF TypeInv, DrainPutBack, TypeOK, PhaseInv, DrainInv, chanVars,
          sessVars, pollVars

LEMMA TypePoll ==
  ASSUME TypeInv, NEW p \in Pollers
  PROVE  /\ PollReceive(p) \/ PollEmpty(p) \/ ClientGone(p) => TypeInv'
         /\ \A s \in SessionIds : GetMessage(p, s) => TypeInv'
  <1> USE DEF TypeInv, sessVars, drainVars, chanVars
  <1>1. ASSUME PollReceive(p) PROVE TypeInv'
    <2> DEFINE s == poll[p]
               m == Head(chan[s])
    <2>1. s \in SessionIds /\ chan[s] \in Seq(Msgs) /\ chan[s] # <<>>
          BY <1>1 DEF PollReceive, TypeOK
    <2>2. /\ m \in Msgs /\ Tail(chan[s]) \in Seq(Msgs)
          /\ Len(Tail(chan[s])) = Len(chan[s]) - 1 /\ Len(chan[s]) \in Nat
          BY <2>1, TailSeq
    <2>3. chan' = [chan EXCEPT ![s] = Tail(chan[s])]
          BY <1>1 DEF PollReceive
    <2>4. chan' \in [SessionIds -> Seq(Msgs)] /\ \A u \in SessionIds : Len(chan'[u]) <= ChanCap
          BY <2>1, <2>2, <2>3, BrokerAssumption DEF TypeOK
    <2>5. got \in [Msgs -> Nat] /\ lost \in SUBSET Msgs
          BY DEF TypeOK
    <2>6. \/ got' = [got EXCEPT ![m] = @ + 1] /\ lost' = lost
          \/ got' = got /\ lost' = lost \cup {m}
          BY <1>1 DEF PollReceive
    <2>7. got' \in [Msgs -> Nat] /\ lost' \in SUBSET Msgs
          BY <2>2, <2>5, <2>6
    <2> QED BY <1>1, <2>4, <2>7 DEF PollReceive, TypeOK, PhaseInv, DrainInv
  <1>2. ASSUME PollEmpty(p) PROVE TypeInv'
        BY <1>2 DEF PollEmpty, TypeOK, PhaseInv, DrainInv
  <1>4. ASSUME ClientGone(p) PROVE TypeInv'
    <2>1. gone' \in [Pollers -> BOOLEAN] /\ goneCount' \in Nat
          BY <1>4 DEF ClientGone, TypeOK
    <2> QED BY <1>4, <2>1 DEF ClientGone, TypeOK, PhaseInv, DrainInv
  <1>3. ASSUME NEW s \in SessionIds, GetMessage(p, s) PROVE TypeInv'
        BY <1>3 DEF GetMessage, TypeOK, PhaseInv, DrainInv
  <1> QED BY <1>1, <1>2, <1>3, <1>4

LEMMA TypeStep == TypeInv /\ [Next]_vars => TypeInv'
  <1> SUFFICES ASSUME TypeInv, [Next]_vars PROVE TypeInv'
      OBVIOUS
  <1>1. CASE UNCHANGED vars
        BY <1>1 DEF vars, chanVars, sessVars, drainVars, pollVars, TypeInv, TypeOK,
           PhaseInv, DrainInv
  <1>2. CASE Next
        BY <1>2, TypeDispatchSend, TypeHandleSubmitJob, TypeRequeue, TypeSession,
           TypeDrainTake, TypeDrainSend, TypeDrainPutBack, TypePoll DEF Next
  <1> QED BY <1>1, <1>2

\* Every variable of the broker keeps its type, and no channel holds more than
\* its capacity, however many sends, drains and polls overlap.
THEOREM TypeCorrect == Spec => []TypeOK
  BY TypeInit, TypeStep, PTL DEF Spec, TypeInv

-----------------------------------------------------------------------------
\* Every message in one place.

\* No sequence holds a message twice.
Distinct ==
    /\ NoDup(pending)
    /\ \A s \in SessionIds : NoDup(batch[s]) /\ NoDup(remaining[s]) /\ NoDup(chan[s])

\* No two sequences hold message m.
Apart(m) ==
    /\ \A s \in SessionIds : In(m, pending) =>
          ~In(m, batch[s]) /\ ~In(m, remaining[s]) /\ ~In(m, chan[s])
    /\ \A s, u \in SessionIds :
          /\ In(m, batch[s]) => ~In(m, remaining[u]) /\ ~In(m, chan[u])
          /\ In(m, batch[s]) /\ In(m, batch[u]) => s = u
          /\ In(m, remaining[s]) => ~In(m, chan[u])
          /\ In(m, remaining[s]) /\ In(m, remaining[u]) => s = u
          /\ In(m, chan[s]) /\ In(m, chan[u]) => s = u

Held(m) == \/ In(m, pending)
           \/ \E s \in SessionIds :
                 In(m, batch[s]) \/ In(m, remaining[s]) \/ In(m, chan[s])

\* A sequence holds message m, or a runner has it, or it is lost, exactly when
\* its sender has let go of it; and only one of the three.
Settled(m) ==
    /\ phase[m] = "sent" <=> Held(m) \/ got[m] = 1 \/ m \in lost
    /\ Held(m) => got[m] = 0 /\ m \notin lost
    /\ got[m] \in {0, 1} /\ (got[m] = 1 => m \notin lost)

Single(m) == Apart(m) /\ Settled(m)
PlaceInv == TypeInv /\ Distinct /\ \A m \in Msgs : Single(m)

PlaceMap == [m \in Msgs |-> Place(m)]

Offered(m) == \E s \in SessionIds : In(m, chan[s])

\* The places of a message in Mailbox, before a step and after it.
LEMMA PlaceIs ==
  ASSUME NEW m \in Msgs
  PROVE  /\ Offered(m) /\ ~Waits(m) /\ phase[m] # "dropped" /\ m \notin lost /\ got[m] # 1
               => Place(m) = "offered"
         /\ Waits(m) /\ ~Offered(m) /\ phase[m] # "dropped" /\ m \notin lost /\ got[m] # 1
               => Place(m) = "waiting"
  BY DEF Place, Offered

LEMMA PlaceIsNext ==
  ASSUME NEW m \in Msgs
  PROVE  /\ Offered(m)' /\ ~Waits(m)' /\ phase'[m] # "dropped" /\ m \notin lost' /\ got'[m] # 1
               => Place(m)' = "offered"
         /\ Waits(m)' /\ ~Offered(m)' /\ phase'[m] # "dropped" /\ m \notin lost' /\ got'[m] # 1
               => Place(m)' = "waiting"
         /\ ~Offered(m)' /\ ~Waits(m)' /\ phase'[m] # "dropped" /\ m \in lost' /\ got'[m] # 1
               => Place(m)' = "lost"
         /\ ~Offered(m)' /\ ~Waits(m)' /\ phase'[m] # "dropped" /\ m \notin lost' /\ got'[m] = 1
               => Place(m)' = "taken"
  <1>1. Offered(m)' /\ ~Waits(m)' /\ phase'[m] # "dropped" /\ m \notin lost' /\ got'[m] # 1
           => Place(m)' = "offered"
        BY DEF Place, Offered
  <1>2. Waits(m)' /\ ~Offered(m)' /\ phase'[m] # "dropped" /\ m \notin lost' /\ got'[m] # 1
           => Place(m)' = "waiting"
        BY DEF Place, Offered
  <1>3. ~Offered(m)' /\ ~Waits(m)' /\ phase'[m] # "dropped" /\ m \in lost' /\ got'[m] # 1
           => Place(m)' = "lost"
        BY DEF Place, Offered
  <1>4. ~Offered(m)' /\ ~Waits(m)' /\ phase'[m] # "dropped" /\ m \notin lost' /\ got'[m] = 1
           => Place(m)' = "taken"
        BY DEF Place, Offered
  <1> QED BY <1>1, <1>2, <1>3, <1>4

\* A step that leaves message m where it is.
Kept(m) == /\ In(m, pending') <=> In(m, pending)
           /\ \A s \in SessionIds : /\ In(m, batch'[s]) <=> In(m, batch[s])
                                    /\ In(m, remaining'[s]) <=> In(m, remaining[s])
                                    /\ In(m, chan'[s]) <=> In(m, chan[s])
           /\ phase'[m] = phase[m] /\ got'[m] = got[m]
           /\ m \in lost' <=> m \in lost

LEMMA KeptIsSingle ==
  ASSUME NEW m \in Msgs, Single(m), Kept(m)
  PROVE  Single(m)' /\ Place(m)' = Place(m)
  <1>1. Held(m)' <=> Held(m)
        BY DEF Kept, Held
  <1>2. Settled(m)'
        BY <1>1 DEF Kept, Settled, Single
  <1>3. Apart(m)'
        BY DEF Kept, Apart, Single
  <1>4. Waits(m)' <=> Waits(m)
        BY DEF Kept, Waits
  <1>5. Place(m)' = Place(m)
        BY <1>4 DEF Kept, Place
  <1> QED BY <1>2, <1>3, <1>5 DEF Single

\* A step that changes the place of at most one message is a step of Mailbox,
\* or none.
LEMMA MovesOne ==
  ASSUME NEW m \in Msgs, \A x \in Msgs \ {m} : Place(x)' = Place(x),
         \/ Place(m)' = Place(m)
         \/ Place(m) = "waiting" /\ Place(m)' = "offered"
         \/ m \in DirectMsgs /\ Place(m) = "waiting" /\ Place(m)' = "dropped"
         \/ Place(m) = "offered" /\ Place(m)' \in {"taken", "lost"}
  PROVE  [Box!Next]_PlaceMap
  <1>1. CASE Place(m)' = Place(m)
    <2>1. PlaceMap' = PlaceMap
          BY <1>1 DEF PlaceMap
    <2> QED BY <2>1
  <1>2. CASE Place(m)' # Place(m)
    <2>1. PlaceMap[m] = Place(m) /\ PlaceMap' = [PlaceMap EXCEPT ![m] = Place(m)']
          BY DEF PlaceMap
    <2> QED BY <1>2, <2>1 DEF Box!Next, Box!Offer, Box!Drop, Box!Take, Box!Lose, Box!Move,
            PlaceMap
  <1> QED BY <1>1, <1>2

\* A step that changes the place of no message.
LEMMA MovesNone ==
  ASSUME \A x \in Msgs : Place(x)' = Place(x)
  PROVE  [Box!Next]_PlaceMap
  BY DEF PlaceMap

\* The steps that touch none of the places.
LEMMA PlacesKept ==
  ASSUME PlaceInv, TypeInv', UNCHANGED <<pending, batch, remaining, chan, phase, got, lost>>
  PROVE  PlaceInv' /\ [Box!Next]_PlaceMap
  <1>1. \A m \in Msgs : Kept(m)
        BY DEF Kept
  <1>2. \A m \in Msgs : Single(m)' /\ Place(m)' = Place(m)
        BY <1>1, KeptIsSingle DEF PlaceInv
  <1>3. Distinct'
        BY DEF PlaceInv, Distinct
  <1> QED BY <1>2, <1>3, MovesNone DEF PlaceInv

\* A sender gives its message to a session: from waiting to offered.
LEMMA StepGive ==
  ASSUME PlaceInv, TypeInv', NEW m \in Msgs, phase[m] = "new",
         NEW s \in SessionIds, GiveTo(s, m),
         phase' = [phase EXCEPT ![m] = "sent"],
         UNCHANGED <<pending, batch, remaining, got, lost>>
  PROVE  PlaceInv' /\ [Box!Next]_PlaceMap
  <1> USE DEF PlaceInv
  <1>1. ~Held(m) /\ got[m] = 0 /\ m \notin lost
        BY DEF Single, Settled
  <1>2. /\ \A u \in SessionIds, x \in Msgs :
              In(x, chan'[u]) <=> In(x, chan[u]) \/ (u = s /\ x = m)
        /\ \A u \in SessionIds : NoDup(chan'[u])
        BY <1>1, GiveToEffect DEF TypeInv, Distinct, Held
  <1>3. ASSUME NEW x \in Msgs \ {m} PROVE Single(x)' /\ Place(x)' = Place(x)
    <2>1. Kept(x)
          BY <1>2, <1>3 DEF Kept, TypeInv, TypeOK
    <2> QED BY <2>1, KeptIsSingle
  <1>4. phase'[m] = "sent"
        BY DEF TypeInv, TypeOK
  <1>5. Apart(m)'
        BY <1>1, <1>2 DEF Apart, Held
  <1>6. Held(m)'
        BY <1>2 DEF Held
  <1>7. Settled(m)'
        BY <1>1, <1>4, <1>6 DEF Settled
  <1>8. Place(m) = "waiting" /\ Place(m)' = "offered"
    <2>1. Waits(m) /\ ~Offered(m)
          BY <1>1 DEF Waits, Held, Offered
    <2>2. Offered(m)' /\ ~Waits(m)'
          BY <1>1, <1>2, <1>4 DEF Offered, Waits, Held
    <2> QED BY <1>1, <1>4, <2>1, <2>2, PlaceIs, PlaceIsNext
  <1>9. Distinct'
        BY <1>2 DEF Distinct
  <1>10. PlaceInv'
        BY <1>3, <1>5, <1>7, <1>9 DEF Single
  <1> QED BY <1>3, <1>8, <1>10, MovesOne

\* A sender finds no runner, and requeues or drops.
LEMMA StepNoRunner ==
  ASSUME PlaceInv, TypeInv', NEW m \in Msgs, phase[m] = "new", NEW p,
         p = "requeue" \/ (p = "dropped" /\ m \in DirectMsgs),
         phase' = [phase EXCEPT ![m] = p],
         UNCHANGED <<pending, batch, remaining, chan, got, lost>>
  PROVE  PlaceInv' /\ [Box!Next]_PlaceMap
  <1> USE DEF PlaceInv
  <1>1. ~Held(m) /\ got[m] = 0 /\ m \notin lost
        BY DEF Single, Settled
  <1>2. ASSUME NEW x \in Msgs \ {m} PROVE Single(x)' /\ Place(x)' = Place(x)
    <2>1. Kept(x)
          BY <1>2 DEF Kept, TypeInv, TypeOK
    <2> QED BY <2>1, KeptIsSingle
  <1>3. phase'[m] = p
        BY DEF TypeInv, TypeOK
  <1>4. Apart(m)' /\ ~Held(m)'
        BY <1>1 DEF Apart, Held, Single
  <1>5. Settled(m)'
        BY <1>1, <1>3, <1>4 DEF Settled
  <1>6. /\ Place(m) = "waiting"
        /\ Place(m)' = IF p = "requeue" THEN "waiting" ELSE "dropped"
        BY <1>1, <1>3 DEF Place, Waits, Held
  <1>7. Distinct'
        BY DEF Distinct
  <1>8. PlaceInv'
        BY <1>2, <1>4, <1>5, <1>7 DEF Single
  <1> QED BY <1>2, <1>6, <1>8, MovesOne

\* A message goes from its sender to the pending list.
LEMMA StepRequeue ==
  ASSUME PlaceInv, TypeInv', NEW m \in Msgs, RequeuePendingMessage(m)
  PROVE  PlaceInv' /\ [Box!Next]_PlaceMap
  <1> USE DEF PlaceInv
  <1>0. /\ phase[m] = "requeue" /\ phase' = [phase EXCEPT ![m] = "sent"]
        /\ pending' = Append(pending, m)
        /\ UNCHANGED <<batch, remaining, chan, got, lost>>
        BY DEF RequeuePendingMessage, chanVars, drainVars, pollVars
  <1>1. ~Held(m) /\ got[m] = 0 /\ m \notin lost
        BY <1>0 DEF Single, Settled
  <1>2. pending \in Seq(WorkflowMsgs) /\ m \in WorkflowMsgs
        BY <1>0 DEF TypeInv, TypeOK, PhaseInv
  <1>3. /\ \A x : In(x, Append(pending, m)) <=> In(x, pending) \/ x = m
        /\ NoDup(pending) /\ ~In(m, pending) => NoDup(Append(pending, m))
        BY <1>2, AppendSeq
  <1>4. (\A x : In(x, pending') <=> In(x, pending) \/ x = m) /\ NoDup(pending')
        BY <1>0, <1>1, <1>3 DEF Distinct, Held
  <1>5. ASSUME NEW x \in Msgs \ {m} PROVE Single(x)' /\ Place(x)' = Place(x)
    <2>1. Kept(x)
          BY <1>0, <1>4, <1>5 DEF Kept, TypeInv, TypeOK
    <2> QED BY <2>1, KeptIsSingle
  <1>6. phase'[m] = "sent"
        BY <1>0 DEF TypeInv, TypeOK
  <1>7. Apart(m)' /\ Held(m)'
        BY <1>0, <1>1, <1>4 DEF Apart, Held
  <1>8. Settled(m)'
        BY <1>0, <1>1, <1>6, <1>7 DEF Settled
  <1>9. Place(m) = "waiting" /\ Place(m)' = "waiting"
        BY <1>0, <1>1, <1>4 DEF Place, Waits, Held
  <1>10. Distinct'
        BY <1>0, <1>4 DEF Distinct
  <1>11. PlaceInv'
        BY <1>5, <1>7, <1>8, <1>10 DEF Single
  <1> QED BY <1>5, <1>9, <1>11, MovesOne

\* A drain takes the pending list.
LEMMA StepDrainTake ==
  ASSUME PlaceInv, TypeInv', NEW s \in SessionIds, DrainTake(s)
  PROVE  PlaceInv' /\ [Box!Next]_PlaceMap
  <1> USE DEF PlaceInv
  <1>1. /\ batch[s] = <<>> /\ batch'[s] = pending /\ pending' = <<>>
        /\ \A u \in SessionIds : u # s => batch'[u] = batch[u]
        /\ UNCHANGED <<remaining, chan, phase, got, lost>>
        BY DEF DrainTake, TypeInv, TypeOK, DrainInv, chanVars, pollVars
  <1>2. ASSUME NEW x \in Msgs
        PROVE  /\ ~In(x, pending') /\ ~In(x, batch[s])
               /\ In(x, batch'[s]) <=> In(x, pending)
               /\ \A u \in SessionIds : u # s => (In(x, batch'[u]) <=> In(x, batch[u]))
               /\ \A u \in SessionIds : /\ In(x, remaining'[u]) <=> In(x, remaining[u])
                                        /\ In(x, chan'[u]) <=> In(x, chan[u])
               /\ phase'[x] = phase[x] /\ got'[x] = got[x]
               /\ x \in lost' <=> x \in lost
        BY <1>1, EmptySeq
  <1>3. ASSUME NEW x \in Msgs PROVE Single(x)' /\ Place(x)' = Place(x)
    <2>1. Apart(x) /\ Settled(x)
          BY DEF Single
    <2>2. Apart(x)'
          BY <1>2, <2>1 DEF Apart
    <2>3. Held(x)' <=> Held(x)
          BY <1>2 DEF Held
    <2>4. Settled(x)'
          BY <1>2, <2>1, <2>3 DEF Settled
    <2>5. Waits(x)' <=> Waits(x)
          BY <1>2 DEF Waits
    <2>6. Place(x)' = Place(x)
          BY <1>2, <2>5 DEF Place
    <2> QED BY <2>2, <2>4, <2>6 DEF Single
  <1>4. Distinct'
        BY <1>1, EmptySeq DEF Distinct
  <1> QED BY <1>3, <1>4, MovesNone

\* A drain puts back what it could not send.
LEMMA StepDrainPutBack ==
  ASSUME PlaceInv, TypeInv', NEW s \in SessionIds, DrainPutBack(s)
  PROVE  PlaceInv' /\ [Box!Next]_PlaceMap
  <1> USE DEF PlaceInv
  <1>1. /\ remaining'[s] = <<>> /\ pending' = remaining[s] \o pending
        /\ \A u \in SessionIds : u # s => remaining'[u] = remaining[u]
        /\ UNCHANGED <<batch, chan, phase, got, lost>>
        /\ pending \in Seq(WorkflowMsgs) /\ remaining[s] \in Seq(WorkflowMsgs)
        BY DEF DrainPutBack, TypeInv, TypeOK, chanVars, pollVars
  <1>2. \A x : In(x, pending') <=> In(x, remaining[s]) \/ In(x, pending)
        BY <1>1, ConcatSeq
  <1>3. \A x : ~(In(x, remaining[s]) /\ In(x, pending))
    <2>1. \A x : In(x, pending) => x \in Msgs
          BY <1>1 DEF In, Msgs
    <2> QED BY <2>1 DEF Single, Apart
  <1>4. NoDup(pending')
        BY <1>1, <1>3, ConcatSeq DEF Distinct
  <1>5. ASSUME NEW x \in Msgs
        PROVE  /\ In(x, pending') <=> In(x, remaining[s]) \/ In(x, pending)
               /\ ~In(x, remaining'[s])
               /\ \A u \in SessionIds :
                     u # s => (In(x, remaining'[u]) <=> In(x, remaining[u]))
               /\ \A u \in SessionIds : /\ In(x, batch'[u]) <=> In(x, batch[u])
                                        /\ In(x, chan'[u]) <=> In(x, chan[u])
               /\ phase'[x] = phase[x] /\ got'[x] = got[x]
               /\ x \in lost' <=> x \in lost
        BY <1>1, <1>2, EmptySeq
  <1>6. ASSUME NEW x \in Msgs PROVE Single(x)' /\ Place(x)' = Place(x)
    <2>1. Apart(x) /\ Settled(x)
          BY DEF Single
    <2>2. Apart(x)'
          BY <1>5, <2>1 DEF Apart
    <2>3. Held(x)' <=> Held(x)
          BY <1>5 DEF Held
    <2>4. Settled(x)'
          BY <1>5, <2>1, <2>3 DEF Settled
    <2>5. Waits(x)' <=> Waits(x)
          BY <1>5 DEF Waits
    <2>6. Place(x)' = Place(x)
          BY <1>5, <2>5 DEF Place
    <2> QED BY <2>2, <2>4, <2>6 DEF Single
  <1>7. Distinct'
        BY <1>1, <1>4, EmptySeq DEF Distinct
  <1> QED BY <1>6, <1>7, MovesNone

\* A drain sends the first message of its batch, or keeps it for later.
LEMMA StepDrainSend ==
  ASSUME PlaceInv, TypeInv', NEW s \in SessionIds, DrainSend(s)
  PROVE  PlaceInv' /\ [Box!Next]_PlaceMap
  <1> USE DEF PlaceInv
  <1> SUFFICES ASSUME NEW m, m = Head(batch[s])
               PROVE  PlaceInv' /\ [Box!Next]_PlaceMap
      OBVIOUS
  <1>1. /\ batch[s] \in Seq(WorkflowMsgs) /\ batch[s] # <<>>
        /\ remaining[s] \in Seq(WorkflowMsgs)
        /\ batch'[s] = Tail(batch[s])
        /\ \A u \in SessionIds : u # s => batch'[u] = batch[u]
        /\ UNCHANGED <<pending, phase, got, lost>>
        BY DEF DrainSend, TypeInv, TypeOK, pollVars
  <1>2. m \in WorkflowMsgs /\ m \in Msgs /\ In(m, batch[s])
        BY <1>1, TailSeq DEF Msgs
  <1>3. /\ NoDup(batch'[s])
        /\ \A x : In(x, batch'[s]) <=> In(x, batch[s]) /\ x # m
        BY <1>1, TailSeq DEF Distinct
  <1>4. \/ (\E u \in SessionIds : GiveTo(u, m)) /\ UNCHANGED remaining
        \/ NoRunner /\ remaining' = [remaining EXCEPT ![s] = Append(@, m)]
        BY DEF DrainSend
  <1>5. Apart(m) /\ Settled(m) /\ Held(m)
        BY <1>2 DEF Single, Held
  <1>6. /\ ~In(m, pending) /\ got[m] = 0 /\ m \notin lost /\ phase[m] = "sent"
        /\ \A u \in SessionIds : /\ ~In(m, remaining[u]) /\ ~In(m, chan[u])
                                 /\ In(m, batch[u]) => u = s
        BY <1>2, <1>5 DEF Apart, Settled
  <1>7. \A u \in SessionIds : ~In(m, batch'[u])
        BY <1>1, <1>3, <1>6
  <1>8. Place(m) = "waiting"
    <2>1. Waits(m) /\ ~Offered(m)
          BY <1>2, <1>6 DEF Waits, Offered
    <2> QED BY <1>2, <1>6, <2>1, PlaceIs
  <1>9. CASE (\E u \in SessionIds : GiveTo(u, m)) /\ UNCHANGED remaining
    <2>1. PICK w \in SessionIds : GiveTo(w, m)
          BY <1>9
    <2>2. /\ \A u \in SessionIds, x \in Msgs :
                In(x, chan'[u]) <=> In(x, chan[u]) \/ (u = w /\ x = m)
          /\ \A u \in SessionIds : NoDup(chan'[u])
          BY <1>2, <1>6, <2>1, GiveToEffect DEF TypeInv, Distinct
    <2>3. ASSUME NEW x \in Msgs \ {m} PROVE Single(x)' /\ Place(x)' = Place(x)
      <3>1. Kept(x)
            BY <1>1, <1>3, <1>9, <2>2, <2>3 DEF Kept
      <3> QED BY <3>1, KeptIsSingle
    <2>4. /\ ~In(m, pending')
          /\ \A u \in SessionIds : /\ ~In(m, remaining'[u])
                                   /\ In(m, chan'[u]) <=> u = w
          BY <1>1, <1>2, <1>6, <1>9, <2>2
    <2>5. Apart(m)'
          BY <1>7, <2>4 DEF Apart
    <2>6. Held(m)'
          BY <2>4 DEF Held
    <2>7. Settled(m)'
          BY <1>1, <1>6, <2>6 DEF Settled
    <2>8. Place(m)' = "offered"
      <3>1. Offered(m)' /\ ~Waits(m)'
            BY <1>1, <1>6, <1>7, <2>4 DEF Offered, Waits
      <3> QED BY <1>1, <1>2, <1>6, <3>1, PlaceIsNext
    <2>9. Distinct'
          BY <1>1, <1>3, <1>9, <2>2 DEF Distinct
    <2>10. PlaceInv'
          BY <2>3, <2>5, <2>7, <2>9 DEF Single
    <2> QED BY <1>2, <1>8, <2>3, <2>8, <2>10, MovesOne
  <1>10. CASE NoRunner /\ remaining' = [remaining EXCEPT ![s] = Append(@, m)]
    <2>1. /\ remaining'[s] = Append(remaining[s], m) /\ UNCHANGED chan
          /\ \A u \in SessionIds : u # s => remaining'[u] = remaining[u]
          BY <1>10 DEF NoRunner, chanVars, TypeInv, TypeOK
    <2>2. /\ \A x : In(x, Append(remaining[s], m)) <=> In(x, remaining[s]) \/ x = m
          /\ NoDup(remaining[s]) /\ ~In(m, remaining[s])
                => NoDup(Append(remaining[s], m))
          BY <1>1, <1>2, AppendSeq
    <2>3. /\ \A x : In(x, remaining'[s]) <=> In(x, remaining[s]) \/ x = m
          /\ NoDup(remaining'[s])
          BY <1>6, <2>1, <2>2 DEF Distinct
    <2>4. ASSUME NEW x \in Msgs \ {m} PROVE Single(x)' /\ Place(x)' = Place(x)
      <3>1. Kept(x)
            BY <1>1, <1>3, <2>1, <2>3, <2>4 DEF Kept
      <3> QED BY <3>1, KeptIsSingle
    <2>5. /\ ~In(m, pending')
          /\ \A u \in SessionIds : /\ ~In(m, chan'[u])
                                   /\ In(m, remaining'[u]) <=> u = s
          BY <1>1, <1>6, <2>1, <2>3
    <2>6. Apart(m)'
          BY <1>7, <2>5 DEF Apart
    <2>7. Held(m)' /\ Waits(m)' /\ ~Offered(m)'
          BY <2>5 DEF Held, Waits, Offered
    <2>8. Settled(m)'
          BY <1>1, <1>6, <2>7 DEF Settled
    <2>9. Place(m)' = "waiting"
          BY <1>1, <1>2, <1>6, <2>7, PlaceIsNext
    <2>10. Distinct'
          BY <1>1, <1>3, <2>1, <2>3 DEF Distinct
    <2>11. PlaceInv'
          BY <2>4, <2>6, <2>8, <2>10 DEF Single
    <2> QED BY <1>2, <1>8, <2>4, <2>9, <2>11, MovesOne
  <1> QED BY <1>4, <1>9, <1>10

\* A poll takes the first message of a channel: the runner has it, or it is
\* lost with the runner's connection.
LEMMA StepPollReceive ==
  ASSUME PlaceInv, TypeInv', NEW p \in Pollers, PollReceive(p)
  PROVE  PlaceInv' /\ [Box!Next]_PlaceMap
  <1> USE DEF PlaceInv
  <1> SUFFICES ASSUME NEW s, s = poll[p], NEW m, m = Head(chan[s])
               PROVE  PlaceInv' /\ [Box!Next]_PlaceMap
      OBVIOUS
  <1>1. /\ s \in SessionIds /\ chan[s] \in Seq(Msgs) /\ chan[s] # <<>>
        /\ chan'[s] = Tail(chan[s])
        /\ \A u \in SessionIds : u # s => chan'[u] = chan[u]
        /\ UNCHANGED <<pending, batch, remaining, phase>>
        BY DEF PollReceive, TypeInv, TypeOK, drainVars
  <1>2. m \in Msgs /\ In(m, chan[s])
        BY <1>1, TailSeq
  <1>3. /\ NoDup(chan'[s])
        /\ \A x : In(x, chan'[s]) <=> In(x, chan[s]) /\ x # m
        BY <1>1, TailSeq DEF Distinct
  <1>4. \/ got' = [got EXCEPT ![m] = @ + 1] /\ UNCHANGED lost
        \/ lost' = lost \cup {m} /\ UNCHANGED got
        BY DEF PollReceive
  <1>5. Apart(m) /\ Settled(m) /\ Held(m)
        BY <1>1, <1>2 DEF Single, Held
  <1>6. /\ ~In(m, pending) /\ got[m] = 0 /\ m \notin lost /\ phase[m] = "sent"
        /\ \A u \in SessionIds : /\ ~In(m, batch[u]) /\ ~In(m, remaining[u])
                                 /\ In(m, chan[u]) => u = s
        BY <1>1, <1>2, <1>5 DEF Apart, Settled
  <1>7. /\ ~In(m, pending')
        /\ \A u \in SessionIds : /\ ~In(m, batch'[u]) /\ ~In(m, remaining'[u])
                                 /\ ~In(m, chan'[u])
        BY <1>1, <1>3, <1>6
  <1>8. Apart(m)' /\ ~Held(m)'
        BY <1>7 DEF Apart, Held
  <1>9. phase'[m] = "sent" /\ ~Waits(m)' /\ ~Offered(m)'
        BY <1>1, <1>6, <1>7 DEF Waits, Offered
  <1>10. Place(m) = "offered"
    <2>1. Offered(m) /\ ~Waits(m)
          BY <1>1, <1>2, <1>6 DEF Offered, Waits
    <2> QED BY <1>2, <1>6, <2>1, PlaceIs
  <1>11. \/ got'[m] = 1 /\ m \notin lost'
         \/ got'[m] = 0 /\ m \in lost'
    <2>1. got \in [Msgs -> Nat]
          BY DEF TypeInv, TypeOK
    <2> QED BY <1>2, <1>4, <1>6, <2>1
  <1>12. ASSUME NEW x \in Msgs \ {m} PROVE Single(x)' /\ Place(x)' = Place(x)
    <2>1. got'[x] = got[x] /\ (x \in lost' <=> x \in lost)
          BY <1>4, <1>12 DEF TypeInv, TypeOK
    <2>2. Kept(x)
          BY <1>1, <1>3, <1>12, <2>1 DEF Kept
    <2> QED BY <2>2, KeptIsSingle
  <1>13. Settled(m)'
        BY <1>8, <1>9, <1>11 DEF Settled
  <1>14. Place(m)' \in {"taken", "lost"}
        BY <1>2, <1>9, <1>11, PlaceIsNext
  <1>15. Distinct'
        BY <1>1, <1>3 DEF Distinct
  <1>16. PlaceInv'
        BY <1>8, <1>12, <1>13, <1>15 DEF Single
  <1> QED BY <1>2, <1>10, <1>12, <1>14, <1>16, MovesOne

LEMMA PlaceInit == Init => PlaceInv /\ Box!Init
  <1> SUFFICES ASSUME Init PROVE PlaceInv /\ Box!Init
      OBVIOUS
  <1>1. TypeInv
        BY TypeInit
  <1>2. Distinct
        BY EmptySeq DEF Init, Distinct
  <1>3. ASSUME NEW m \in Msgs
        PROVE  /\ ~In(m, pending) /\ phase[m] = "new" /\ got[m] = 0 /\ m \notin lost
               /\ \A s \in SessionIds : /\ ~In(m, batch[s]) /\ ~In(m, remaining[s])
                                        /\ ~In(m, chan[s])
        BY EmptySeq DEF Init
  <1>4. ASSUME NEW m \in Msgs PROVE Single(m) /\ Place(m) = "waiting"
    <2>1. Apart(m) /\ ~Held(m)
          BY <1>3 DEF Apart, Held
    <2>2. Settled(m)
          BY <1>3, <2>1 DEF Settled
    <2>3. Waits(m)
          BY <1>3 DEF Waits
    <2> QED BY <1>3, <2>1, <2>2, <2>3, PlaceIs DEF Single, Offered
  <1> QED BY <1>1, <1>2, <1>4 DEF PlaceInv, Box!Init

\* One case for every action of Next.
LEMMA PlaceStep ==
  ASSUME PlaceInv, [Next]_vars
  PROVE  PlaceInv' /\ [Box!Next]_PlaceMap
  <1>1. TypeInv'
        BY TypeStep DEF PlaceInv
  <1>2. CASE UNCHANGED vars
        BY <1>1, <1>2, PlacesKept DEF vars, chanVars, drainVars, pollVars
  <1>3. ASSUME NEW m \in Msgs, DispatchSend(m) \/ HandleSubmitJob(m)
        PROVE  PlaceInv' /\ [Box!Next]_PlaceMap
    <2>1. phase[m] = "new" /\ UNCHANGED <<pending, batch, remaining, got, lost>>
          BY <1>3 DEF DispatchSend, HandleSubmitJob, drainVars, pollVars
    <2>2. CASE \E s \in SessionIds : GiveTo(s, m) /\ phase' = [phase EXCEPT ![m] = "sent"]
          BY <1>1, <2>1, <2>2, StepGive
    <2>3. CASE NoRunner /\ phase' = [phase EXCEPT ![m] = "requeue"]
          BY <1>1, <2>1, <2>3, StepNoRunner DEF NoRunner, chanVars
    <2>4. CASE /\ m \in DirectMsgs
               /\ NoRunner /\ phase' = [phase EXCEPT ![m] = "dropped"]
          BY <1>1, <2>1, <2>4, StepNoRunner DEF NoRunner, chanVars
    <2> QED BY <1>3, <2>2, <2>3, <2>4 DEF DispatchSend, HandleSubmitJob
  <1>4. ASSUME NEW m \in Msgs, RequeuePendingMessage(m)
        PROVE  PlaceInv' /\ [Box!Next]_PlaceMap
        BY <1>1, <1>4, StepRequeue
  <1>5. ASSUME NEW s \in SessionIds, HandleCreateSession(s) \/ HandleDeleteSession(s)
        PROVE  PlaceInv' /\ [Box!Next]_PlaceMap
        BY <1>1, <1>5, PlacesKept
           DEF HandleCreateSession, HandleDeleteSession, drainVars, pollVars
  <1>6. ASSUME NEW s \in SessionIds, DrainTake(s) \/ DrainSend(s) \/ DrainPutBack(s)
        PROVE  PlaceInv' /\ [Box!Next]_PlaceMap
        BY <1>1, <1>6, StepDrainTake, StepDrainSend, StepDrainPutBack
  <1>7. ASSUME NEW p \in Pollers, NEW s \in SessionIds, GetMessage(p, s)
        PROVE  PlaceInv' /\ [Box!Next]_PlaceMap
        BY <1>1, <1>7, PlacesKept DEF GetMessage, chanVars, drainVars
  <1>8. ASSUME NEW p \in Pollers, PollEmpty(p) \/ ClientGone(p)
        PROVE  PlaceInv' /\ [Box!Next]_PlaceMap
        BY <1>1, <1>8, PlacesKept DEF PollEmpty, ClientGone, chanVars, drainVars
  <1>9. ASSUME NEW p \in Pollers, PollReceive(p)
        PROVE  PlaceInv' /\ [Box!Next]_PlaceMap
        BY <1>1, <1>9, StepPollReceive
  <1> QED BY <1>2, <1>3, <1>4, <1>5, <1>6, <1>7, <1>8, <1>9 DEF Next

\* The broker implements Mailbox: whatever sends, drains, polls, disconnections
\* and deletions of sessions overlap, a job message moves only from waiting to
\* offered (or, if it was submitted directly, dropped) and from there to the
\* runner that takes it or to a connection that is gone, one message at a time.
THEOREM ImplementsMailbox == Spec => IsMailbox
  <1>1. PlaceInv /\ [Next]_vars => PlaceInv' /\ [Box!Next]_PlaceMap
        BY PlaceStep
  <1> QED BY <1>1, PlaceInit, PTL DEF Spec, IsMailbox, Box!Spec, PlaceMap

-----------------------------------------------------------------------------
\* From the invariant about every message to the sum of OnePlace.

\* In a sequence without duplicates a message counts once or not at all.
LEMMA CountIsBit ==
  ASSUME NEW m, NEW q, NoDup(q)
  PROVE  Count(m, q) = Bit(In(m, q))
  <1> DEFINE S == {i \in 1 .. Len(q) : q[i] = m}
  <1>1. CASE In(m, q)
    <2>1. PICK i \in 1 .. Len(q) : q[i] = m
          BY <1>1 DEF In
    <2>2. S = {i}
          BY <2>1 DEF NoDup
    <2> QED BY <1>1, <2>2, FS_Singleton DEF Count, Bit
  <1>2. CASE ~In(m, q)
    <2>1. S = {}
          BY <1>2 DEF In
    <2> QED BY <1>2, <2>1, FS_EmptySet DEF Count, Bit
  <1> QED BY <1>1, <1>2

\* Such a sequence is no longer than there are messages.
LEMMA NoDupLength ==
  ASSUME NEW q \in Seq(Msgs), NoDup(q)
  PROVE  Len(q) <= Cardinality(Msgs)
  <1>1. Len(q) \in Nat /\ q \in [1 .. Len(q) -> Msgs]
        OBVIOUS
  <1>2. q \in Injection(1 .. Len(q), Msgs)
        BY <1>1 DEF NoDup, Injection, IsInjective
  <1>3. Cardinality(1 .. Len(q)) <= Cardinality(Msgs)
        BY <1>2, FS_Injection, BrokerAssumption
  <1>4. Cardinality(1 .. Len(q)) = Len(q)
        BY <1>1, FS_Interval, SMTT(30)
  <1> QED BY <1>3, <1>4

\* A message that at most one session holds, once, counts once or not at all.
LEMMA AcrossIsBit ==
  ASSUME NEW m, NEW f \in [SessionIds -> Seq(Msgs)],
         \A s \in SessionIds : NoDup(f[s]),
         \A s, u \in SessionIds : In(m, f[s]) /\ In(m, f[u]) => s = u
  PROVE  Across(m, f) = Bit(\E s \in SessionIds : In(m, f[s]))
  <1> DEFINE S == {x \in SessionIds \X (1 .. Cardinality(Msgs)) :
                     x[2] <= Len(f[x[1]]) /\ f[x[1]][x[2]] = m}
  <1>0. Cardinality(Msgs) \in Nat
        BY FS_CardinalityType, BrokerAssumption
  <1>1. ASSUME NEW x \in S
        PROVE  /\ x[1] \in SessionIds /\ x[2] \in 1 .. Len(f[x[1]])
               /\ f[x[1]][x[2]] = m /\ x = <<x[1], x[2]>> /\ In(m, f[x[1]])
    <2>1. /\ x[1] \in SessionIds /\ x[2] \in 1 .. Cardinality(Msgs)
          /\ x[2] <= Len(f[x[1]]) /\ f[x[1]][x[2]] = m /\ x = <<x[1], x[2]>>
          BY <1>1
    <2>2. Len(f[x[1]]) \in Nat
          BY <2>1
    <2>3. x[2] \in 1 .. Len(f[x[1]])
          BY <1>0, <2>1, <2>2
    <2> QED BY <2>1, <2>3 DEF In
  <1>2. CASE \E s \in SessionIds : In(m, f[s])
    <2>1. PICK s \in SessionIds : In(m, f[s])
          BY <1>2
    <2>2. PICK i \in 1 .. Len(f[s]) : f[s][i] = m
          BY <2>1 DEF In
    <2>3. Len(f[s]) \in Nat /\ Len(f[s]) <= Cardinality(Msgs)
          BY NoDupLength
    <2>4. i \in 1 .. Cardinality(Msgs) /\ i <= Len(f[s])
          BY <1>0, <2>2, <2>3
    <2>5. <<s, i>> \in S
          BY <2>2, <2>4
    <2>6. ASSUME NEW x \in S PROVE x = <<s, i>>
      <3>1. x[1] = s
            BY <1>1, <2>1, <2>6
      <3>2. x[2] = i
            BY <1>1, <2>2, <2>6, <3>1 DEF NoDup
      <3> QED BY <1>1, <2>6, <3>1, <3>2
    <2>7. S = {<<s, i>>}
          BY <2>5, <2>6
    <2> QED BY <1>2, <2>7, FS_Singleton DEF Across, Bit
  <1>3. CASE ~ \E s \in SessionIds : In(m, f[s])
    <2>1. S = {}
          BY <1>1, <1>3
    <2> QED BY <1>3, <2>1, FS_EmptySet DEF Across, Bit
  <1> QED BY <1>2, <1>3

\* The invariant makes the sum one.
LEMMA SumIsOne ==
  ASSUME PlaceInv, NEW m \in Msgs
  PROVE  1 = Bit(phase[m] # "sent")
             + Count(m, pending) + Across(m, batch) + Across(m, remaining)
             + Across(m, chan) + got[m] + Bit(m \in lost)
  <1> DEFINE inBatch == \E s \in SessionIds : In(m, batch[s])
             inRemaining == \E s \in SessionIds : In(m, remaining[s])
             inChan == \E s \in SessionIds : In(m, chan[s])
  <1>1. Apart(m) /\ Settled(m)
        BY DEF PlaceInv, Single
  <1>2. /\ batch \in [SessionIds -> Seq(Msgs)] /\ remaining \in [SessionIds -> Seq(Msgs)]
        /\ chan \in [SessionIds -> Seq(Msgs)]
    <2>1. Seq(WorkflowMsgs) \subseteq Seq(Msgs)
          BY DEF Msgs
    <2> QED BY <2>1 DEF PlaceInv, TypeInv, TypeOK
  <1>3. Across(m, batch) = Bit(inBatch)
        BY <1>1, <1>2, AcrossIsBit DEF PlaceInv, Distinct, Apart
  <1>4. Across(m, remaining) = Bit(inRemaining)
        BY <1>1, <1>2, AcrossIsBit DEF PlaceInv, Distinct, Apart
  <1>5. Across(m, chan) = Bit(inChan)
        BY <1>1, <1>2, AcrossIsBit DEF PlaceInv, Distinct, Apart
  <1>6. Count(m, pending) = Bit(In(m, pending))
        BY CountIsBit DEF PlaceInv, Distinct
  <1>7. /\ ~(In(m, pending) /\ (inBatch \/ inRemaining \/ inChan))
        /\ ~(inBatch /\ (inRemaining \/ inChan)) /\ ~(inRemaining /\ inChan)
        BY <1>1 DEF Apart
  <1>8. Held(m) <=> In(m, pending) \/ inBatch \/ inRemaining \/ inChan
        BY DEF Held
  <1> HIDE DEF inBatch, inRemaining, inChan
  <1> QED BY <1>1, <1>3, <1>4, <1>5, <1>6, <1>7, <1>8 DEF Settled, Bit

\* Every message is in exactly one place, for any number of messages, sessions,
\* polls and any capacity of the channels: no job message is given to two
\* runners, and none vanishes between a list, a drain and a channel.
THEOREM MessagesInOnePlace == Spec => []OnePlace
  <1>1. PlaceInv /\ [Next]_vars => PlaceInv'
        BY PlaceStep
  <1>2. PlaceInv => OnePlace
        BY SumIsOne DEF OnePlace
  <1> QED BY <1>1, <1>2, PlaceInit, PTL DEF Spec

-----------------------------------------------------------------------------
(***************************************************************************)
(* The round robin is fair.  FairShare is not inductive: that a session    *)
(* two behind is not passed over needs the order of the shares.  The next  *)
(* session to be tried has the least, and the shares grow with the         *)
(* distance from it by one in all.                                         *)
(***************************************************************************)
ShareInv ==
    \A s, u \in sessions :
        Distance(s) <= Distance(u) => share[s] <= share[u] /\ share[u] <= share[s] + 1

\* The distance as a function of rank, index and number of sessions.
Around(r, i, n) == (r + n - (i % n)) % n

LEMMA SmallMod ==
  ASSUME NEW n \in Nat \ {0}, NEW x \in Nat, x < n + n
  PROVE  x % n = IF x < n THEN x ELSE x - n
  <1>1. CASE x < n
        BY <1>1, SMTT(30)
  <1>2. CASE ~ x < n
        BY <1>2, SMTT(30)
  <1> QED BY <1>1, <1>2

LEMMA ModRange ==
  ASSUME NEW n \in Nat \ {0}, NEW x \in Nat PROVE x % n \in 0 .. n - 1
  BY SMTT(30)

LEMMA AroundIs ==
  ASSUME NEW n \in Nat \ {0}, NEW i \in Nat, NEW r \in 0 .. n - 1
  PROVE  /\ i % n \in 0 .. n - 1
         /\ Around(r, i, n) = IF r < i % n THEN r + n - (i % n) ELSE r - (i % n)
         /\ Around(r, i, n) \in 0 .. n - 1
  <1>1. i % n \in 0 .. n - 1
        BY ModRange
  <1>2. PICK k \in 0 .. n - 1 : k = i % n
        BY <1>1
  <1>3. PICK x \in Nat : x = r + n - k /\ x < n + n
        BY <1>2
  <1>4. x % n = IF x < n THEN x ELSE x - n
        BY <1>3, SmallMod
  <1>5. Around(r, i, n) = x % n
        BY <1>2, <1>3 DEF Around
  <1>6. Around(r, i, n) = IF r < k THEN r + n - k ELSE r - k
        BY <1>2, <1>3, <1>4, <1>5
  <1> QED BY <1>1, <1>2, <1>6

\* When the session at index r is served and the index moves past it, it is the
\* last in turn and every other session is one nearer.
LEMMA TurnAround ==
  ASSUME NEW n \in Nat \ {0}, NEW i \in Nat, NEW r \in 0 .. n - 1, NEW q \in 0 .. n - 1,
         Around(r, i, n) = 0
  PROVE  /\ Around(r, (r + 1) % n, n) = n - 1
         /\ q # r => Around(q, (r + 1) % n, n) = Around(q, i, n) - 1
  <1>0. PICK k \in 0 .. n - 1 : k = i % n
        BY ModRange
  <1>1. r = k
    <2>1. Around(r, i, n) = IF r < k THEN r + n - k ELSE r - k
          BY <1>0, AroundIs
    <2> QED BY <2>1
  <1>2. PICK j \in 0 .. n - 1 : j = (r + 1) % n /\ j = IF r + 1 < n THEN r + 1 ELSE 0
    <2>1. PICK x \in Nat : x = r + 1
          OBVIOUS
    <2>2. x < n + n
          BY <2>1
    <2>3. x % n = IF x < n THEN x ELSE x - n
          BY <2>2, SmallMod
    <2> QED BY <2>1, <2>3
  <1>4. j % n = j
    <2>1. j \in Nat /\ j < n + n /\ j < n
          OBVIOUS
    <2> QED BY <2>1, SmallMod
  <1>5. /\ Around(r, j, n) = IF r < j THEN r + n - j ELSE r - j
        /\ Around(q, j, n) = IF q < j THEN q + n - j ELSE q - j
    <2>1. j \in Nat
          OBVIOUS
    <2>2. Around(r, j, n) = IF r < j % n THEN r + n - (j % n) ELSE r - (j % n)
          BY <2>1, AroundIs
    <2>3. Around(q, j, n) = IF q < j % n THEN q + n - (j % n) ELSE q - (j % n)
          BY <2>1, AroundIs
    <2> QED BY <1>4, <2>2, <2>3
  <1>6. Around(q, i, n) = IF q < r THEN q + n - r ELSE q - r
        BY <1>0, <1>1, AroundIs, SMTT(30)
  <1>7. Around(r, j, n) = n - 1
        BY <1>2, <1>5
  <1>8. q # r => Around(q, j, n) = Around(q, i, n) - 1
        BY <1>2, <1>5, <1>6
  <1> QED BY <1>2, <1>7, <1>8

\* Different sessions have different ranks, below the number of sessions.
LEMMA RankOrder ==
  ASSUME TypeOK, NEW s \in sessions, NEW u \in sessions, s # u
  PROVE  Rank(s) # Rank(u)
  <1>1. ASSUME NEW a \in sessions, NEW b \in sessions, a < b PROVE Rank(a) < Rank(b)
    <2>1. PICK A : A = {v \in sessions : v < a}
          OBVIOUS
    <2>2. PICK B : B = {v \in sessions : v < b}
          OBVIOUS
    <2>3. sessions \subseteq Nat
          BY DEF TypeOK, SessionIds
    <2>4. a \notin A /\ A \cup {a} \subseteq B
      <3>1. a \notin A /\ a \in B
            BY <1>1, <2>1, <2>2, <2>3
      <3>2. \A v \in sessions : v < a => v < b
            BY <1>1, <2>3
      <3> QED BY <2>1, <2>2, <3>1, <3>2
    <2>5. IsFiniteSet(A) /\ IsFiniteSet(B)
          BY <2>1, <2>2, SessionsFinite, FS_Subset
    <2>6. IsFiniteSet(A \cup {a}) /\ Cardinality(A \cup {a}) = Cardinality(A) + 1
          BY <2>4, <2>5, FS_AddElement
    <2>7. Cardinality(A \cup {a}) <= Cardinality(B)
          BY <2>4, <2>5, FS_Subset
    <2>8. Cardinality(A) \in Nat /\ Cardinality(B) \in Nat
          BY <2>5, FS_CardinalityType
    <2> QED BY <2>1, <2>2, <2>6, <2>7, <2>8 DEF Rank
  <1>2. s \in Nat /\ u \in Nat /\ s \in SessionIds /\ u \in SessionIds
        BY DEF TypeOK, SessionIds
  <1>3. Rank(s) \in Nat /\ Rank(u) \in Nat
        BY <1>2, RankType
  <1>4. CASE s < u
        BY <1>1, <1>3, <1>4
  <1>5. CASE u < s
        BY <1>1, <1>3, <1>5
  <1> QED BY <1>2, <1>4, <1>5

LEMMA RankBound ==
  ASSUME TypeOK, NEW s \in sessions
  PROVE  /\ Cardinality(sessions) \in Nat \ {0}
         /\ Rank(s) \in 0 .. Cardinality(sessions) - 1
  <1>1. PICK A : A = {v \in sessions : v < s}
        OBVIOUS
  <1>2. sessions \subseteq Nat
        BY DEF TypeOK, SessionIds
  <1>3. s \notin A /\ A \cup {s} \subseteq sessions
        BY <1>1, <1>2
  <1>4. IsFiniteSet(A) /\ IsFiniteSet(sessions) /\ Cardinality(sessions) \in Nat \ {0}
        BY <1>1, SessionsFinite, FS_Subset
  <1>5. Cardinality(A \cup {s}) = Cardinality(A) + 1
        BY <1>3, <1>4, FS_AddElement
  <1>6. Cardinality(A \cup {s}) <= Cardinality(sessions)
        BY <1>3, <1>4, FS_Subset
  <1>7. Cardinality(A) \in Nat
        BY <1>4, FS_CardinalityType
  <1> QED BY <1>1, <1>4, <1>5, <1>6, <1>7 DEF Rank

LEMMA ResetShare ==
  ASSUME TypeOK', share' = [u \in SessionIds |-> 0] PROVE ShareInv'
  BY DEF TypeOK, ShareInv

\* A message given to the next session in turn.
LEMMA GiveShare ==
  ASSUME TypeOK, TypeOK', ShareInv, NEW s \in SessionIds, NEW m, GiveTo(s, m),
         UNCHANGED sessions
  PROVE  ShareInv'
  <1>1. CASE Distance(s) # 0
    <2>1. share' = [u \in SessionIds |-> 0]
          BY <1>1 DEF GiveTo
    <2> QED BY <2>1, ResetShare
  <1>2. CASE Distance(s) = 0
    <2>1. PICK n : n = Cardinality(sessions)
          OBVIOUS
    <2>2. s \in sessions /\ lastIdx' = (Rank(s) + 1) % n
          BY <2>1 DEF GiveTo, WithRoom
    <2>3. n \in Nat \ {0} /\ \A u \in sessions : Rank(u) \in 0 .. n - 1
          BY <2>1, <2>2, RankBound
    <2>4. lastIdx \in Nat /\ sessions \subseteq SessionIds
          BY DEF TypeOK
    <2>5. \A u \in sessions : /\ Distance(u) = Around(Rank(u), lastIdx, n)
                              /\ Distance(u)' = Around(Rank(u), lastIdx', n)
          BY <2>1 DEF Distance, Rank, Around
    <2>6. \A u \in sessions : Distance(u) \in 0 .. n - 1
          BY <2>3, <2>4, <2>5, AroundIs
    <2>7. ASSUME NEW u \in sessions
          PROVE  Distance(u)' = IF u = s THEN n - 1 ELSE Distance(u) - 1
      <3>1. Around(Rank(s), lastIdx, n) = 0
            BY <1>2, <2>2, <2>5
      <3>2. /\ Around(Rank(s), lastIdx', n) = n - 1
            /\ Rank(u) # Rank(s) => Around(Rank(u), lastIdx', n) = Around(Rank(u), lastIdx, n) - 1
            BY <2>2, <2>3, <2>4, <3>1, TurnAround
      <3>3. u # s => Rank(u) # Rank(s)
            BY <2>2, RankOrder
      <3> QED BY <2>2, <2>5, <3>2, <3>3
    <2>8. \A u \in sessions : share'[u] = IF u = s THEN share[u] + 1 ELSE share[u]
      <3>1. share' = [share EXCEPT ![s] = @ + 1] /\ share \in [SessionIds -> Nat]
            BY <1>2 DEF GiveTo, TypeOK
      <3> QED BY <2>4, <3>1
    <2>9. \A u \in sessions : share[u] \in Nat /\ share[s] <= share[u]
                              /\ share[u] <= share[s] + 1
      <3>1. \A u \in sessions : share[u] \in Nat
            BY <2>4 DEF TypeOK
      <3>2. \A u \in sessions : Distance(s) <= Distance(u)
            BY <1>2, <2>6
      <3> QED BY <2>2, <3>1, <3>2 DEF ShareInv
    <2> SUFFICES ASSUME NEW a \in sessions, NEW b \in sessions, Distance(a)' <= Distance(b)'
                 PROVE  share'[a] <= share'[b] /\ share'[b] <= share'[a] + 1
        BY DEF ShareInv
    <2>10. CASE a = s /\ b = s
           BY <2>8, <2>9, <2>10
    <2>11. CASE a = s /\ b # s
      <3>1. n - 1 <= Distance(b) - 1 /\ Distance(b) \in 0 .. n - 1
            BY <2>2, <2>6, <2>7, <2>11
      <3> QED BY <2>3, <3>1
    <2>12. CASE a # s /\ b = s
           BY <2>8, <2>9, <2>12
    <2>13. CASE a # s /\ b # s
      <3>1. Distance(a) - 1 <= Distance(b) - 1 /\ Distance(a) \in Nat /\ Distance(b) \in Nat
            BY <2>3, <2>6, <2>7, <2>13
      <3>2. Distance(a) <= Distance(b)
            BY <3>1
      <3> QED BY <2>8, <2>13, <3>2 DEF ShareInv
    <2> QED BY <2>10, <2>11, <2>12, <2>13
  <1> QED BY <1>1, <1>2

LEMMA ShareStays ==
  ASSUME ShareInv, UNCHANGED <<sessions, lastIdx, share>> PROVE ShareInv'
  BY DEF ShareInv, Distance, Rank

LEMMA ShareStep == TypeInv /\ ShareInv /\ [Next]_vars => ShareInv'
  <1> SUFFICES ASSUME TypeInv, ShareInv, [Next]_vars PROVE ShareInv'
      OBVIOUS
  <1>0. TypeOK /\ TypeOK'
        BY TypeStep DEF TypeInv
  <1>1. ASSUME NEW m \in Msgs, DispatchSend(m) \/ HandleSubmitJob(m) PROVE ShareInv'
    <2>1. UNCHANGED sessions /\ ((\E s \in SessionIds : GiveTo(s, m)) \/ NoRunner)
          BY <1>1 DEF DispatchSend, HandleSubmitJob, sessVars
    <2> QED BY <1>0, <2>1, GiveShare, ShareStays DEF NoRunner, chanVars
  <1>2. ASSUME NEW s \in SessionIds, DrainSend(s) PROVE ShareInv'
    <2>1. /\ UNCHANGED sessions
          /\ (\E u \in SessionIds : GiveTo(u, Head(batch[s]))) \/ NoRunner
          BY <1>2 DEF DrainSend, sessVars
    <2> QED BY <1>0, <2>1, GiveShare, ShareStays DEF NoRunner, chanVars
  <1>3. ASSUME NEW s \in SessionIds, HandleCreateSession(s) \/ HandleDeleteSession(s)
        PROVE  ShareInv'
        BY <1>0, <1>3, ResetShare DEF HandleCreateSession, HandleDeleteSession
  <1>4. ASSUME NEW m \in Msgs, RequeuePendingMessage(m) PROVE ShareInv'
        BY <1>4, ShareStays DEF RequeuePendingMessage, chanVars, sessVars
  <1>5. ASSUME NEW s \in SessionIds, DrainTake(s) \/ DrainPutBack(s) PROVE ShareInv'
        BY <1>5, ShareStays DEF DrainTake, DrainPutBack, chanVars, sessVars
  <1>6. ASSUME NEW p \in Pollers,
               \/ \E s \in SessionIds : GetMessage(p, s)
               \/ PollReceive(p) \/ PollEmpty(p) \/ ClientGone(p)
        PROVE  ShareInv'
        BY <1>6, ShareStays DEF GetMessage, PollReceive, PollEmpty, ClientGone, chanVars, sessVars
  <1>7. CASE UNCHANGED vars
        BY <1>7, ShareStays DEF vars, chanVars, sessVars
  <1> QED BY <1>1, <1>2, <1>3, <1>4, <1>5, <1>6, <1>7 DEF Next

\* While no session comes, goes or is full, sendMessageToAgent gives no session
\* two messages more than another, for any number of sessions and senders.
THEOREM RoundRobinIsFair == Spec => []FairShare
  <1>1. Init => TypeInv /\ ShareInv
        BY TypeInit DEF Init, ShareInv
  <1>2. TypeInv /\ ShareInv /\ [Next]_vars => TypeInv' /\ ShareInv'
        BY TypeStep, ShareStep
  <1>3. TypeInv /\ ShareInv => FairShare
    <2> SUFFICES ASSUME TypeInv, ShareInv, NEW s \in sessions, NEW u \in sessions
                 PROVE  share[s] <= share[u] + 1
        BY DEF FairShare
    <2>1. TypeOK
          BY DEF TypeInv
    <2>2. share[s] \in Nat /\ share[u] \in Nat /\ lastIdx \in Nat
          BY <2>1 DEF TypeOK
    <2>3. Distance(s) \in Nat /\ Distance(u) \in Nat
      <3>1. PICK n : n = Cardinality(sessions)
            OBVIOUS
      <3>2. n \in Nat \ {0} /\ Rank(s) \in 0 .. n - 1 /\ Rank(u) \in 0 .. n - 1
            BY <2>1, <3>1, RankBound
      <3>3. Distance(s) = Around(Rank(s), lastIdx, n) /\ Distance(u) = Around(Rank(u), lastIdx, n)
            BY <3>1 DEF Distance, Around
      <3> QED BY <2>2, <3>2, <3>3, AroundIs
    <2>4. CASE Distance(s) <= Distance(u)
          BY <2>2, <2>4 DEF ShareInv
    <2>5. CASE Distance(u) <= Distance(s)
          BY <2>2, <2>5 DEF ShareInv
    <2> QED BY <2>3, <2>4, <2>5
  <1> QED BY <1>1, <1>2, <1>3, PTL DEF Spec
=============================================================================
