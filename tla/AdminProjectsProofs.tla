------------------------ MODULE AdminProjectsProofs ------------------------
(***************************************************************************)
(* Proofs about AdminProjects, for any project, any number of requests,    *)
(* runs and registrations.                                                 *)
(*                                                                         *)
(* The order of the instances comes first: Order is a permutation of what  *)
(* is declared in which no sim comes after a backend or a bleephub.  Then  *)
(* the types.  Then the invariant that ties entries, runs, goroutines and  *)
(* requests to each other, whatever requests overlap, and what follows     *)
(* from it.                                                                *)
(***************************************************************************)
EXTENDS AdminProjects, FiniteSetTheorems, TLAPS

-----------------------------------------------------------------------------
\* The order of instances.

D == DOMAIN Declared
Sooner(i) == {j \in D : Before(j, i)}

\* Declared is a sequence of instances, at least one.
LEMMA Positions ==
    /\ Len(Declared) \in Nat /\ Len(Declared) >= 1
    /\ D = 1 .. Len(Declared) /\ D \subseteq Nat
    /\ IsFiniteSet(D) /\ Cardinality(D) = Len(Declared)
    /\ \A i \in D : Declared[i] \in Instances
  <1>1. Len(Declared) \in Nat /\ D = 1 .. Len(Declared) /\ Declared # <<>>
    BY AdminAssumption DEF D
  <1>2. Len(Declared) >= 1
    BY AdminAssumption
  <1>3. IsFiniteSet(D) /\ Cardinality(D) = Len(Declared)
    BY <1>1, <1>2, FS_Interval
  <1> QED BY <1>1, <1>2, <1>3 DEF Instances, D

\* Before is a strict total order of the positions.
LEMMA BeforeIsTotal ==
    /\ \A i \in D : ~Before(i, i)
    /\ \A i, j \in D : i # j => Before(i, j) \/ Before(j, i)
    /\ \A i, j, k \in D : Before(i, j) /\ Before(j, k) => Before(i, k)
  <1>1. \A i \in D : Group(Kind[Declared[i]]) \in 1 .. 3
    BY DEF Group
  <1> DEFINE a(i) == Group(Kind[Declared[i]])
  <1>2. \A i, j \in D : Before(i, j) <=> a(i) < a(j) \/ (a(i) = a(j) /\ i < j)
    BY DEF Before
  <1>3. \A i \in D : a(i) \in Nat /\ i \in Nat
    BY <1>1, Positions
  <1> HIDE DEF a
  <1> QED BY <1>2, <1>3

\* The instance that comes sooner has the smaller place.
LEMMA PlaceGrows ==
    ASSUME NEW i \in D, NEW j \in D, Before(i, j)
    PROVE  Place(i) < Place(j)
  <1>1. Sooner(i) \subseteq Sooner(j) /\ i \in Sooner(j) /\ i \notin Sooner(i)
    BY BeforeIsTotal DEF Sooner
  <1>2. Sooner(j) \subseteq D
    BY DEF Sooner
  <1>3. IsFiniteSet(Sooner(j))
    BY <1>2, Positions, FS_Subset
  <1>4. /\ Cardinality(Sooner(i)) <= Cardinality(Sooner(j))
        /\ Cardinality(Sooner(i)) # Cardinality(Sooner(j))
        /\ IsFiniteSet(Sooner(i))
    BY <1>1, <1>3, FS_Subset
  <1>5. Cardinality(Sooner(i)) \in Nat /\ Cardinality(Sooner(j)) \in Nat
    BY <1>3, <1>4, FS_CardinalityType
  <1> QED BY <1>4, <1>5 DEF Place, Sooner, D

\* Two instances have two places, both among the positions.
LEMMA PlacesDiffer ==
    /\ \A i \in D : Place(i) \in D
    /\ \A i, j \in D : Place(i) = Place(j) => i = j
  <1>1. ASSUME NEW i \in D PROVE Place(i) \in D
    <2>1. Sooner(i) \subseteq D /\ i \notin Sooner(i)
      BY BeforeIsTotal DEF Sooner
    <2>2. /\ IsFiniteSet(Sooner(i)) /\ Cardinality(Sooner(i)) <= Cardinality(D)
          /\ Cardinality(Sooner(i)) # Cardinality(D)
      BY <2>1, Positions, FS_Subset
    <2>3. Cardinality(Sooner(i)) \in Nat
      BY <2>2, FS_CardinalityType
    <2>4. Cardinality(Sooner(i)) + 1 \in D
      BY <2>2, <2>3, Positions
    <2> QED BY <2>4 DEF Place, Sooner, D
  <1>2. ASSUME NEW i \in D, NEW j \in D, Place(i) = Place(j), i # j PROVE FALSE
    <2>1. Place(i) \in Nat /\ Place(j) \in Nat
      BY <1>1, Positions
    <2> QED BY <1>2, <2>1, BeforeIsTotal, PlaceGrows
  <1> QED BY <1>1, <1>2

\* Every place is taken by one instance declared.
LEMMA PlacesAreTaken == \A m \in D : \E i \in D : Place(i) = m
  <1> DEFINE f == [i \in D |-> Place(i)]
  <1>1. f \in [D -> D]
    BY PlacesDiffer
  <1>2. \A i, j \in D : f[i] = f[j] => i = j
    BY PlacesDiffer
  <1>3. f \in Injection(D, D)
    BY <1>1, <1>2 DEF Injection, IsInjective
  <1>4. f \in Surjection(D, D)
    BY <1>3, Positions, FS_Injection
  <1> QED BY <1>4 DEF Surjection

\* Order is a permutation of the instances, and all that comes before a sim
\* is a sim.
LEMMA OrderFacts ==
    /\ Len(Order) = Len(Declared) /\ DOMAIN Order = 1 .. Len(Declared)
    /\ \A j \in 1 .. Len(Declared) : Order[j] \in Instances
    /\ \A n \in Instances : \E j \in 1 .. Len(Declared) : Order[j] = n
    /\ \A j, k \in 1 .. Len(Declared) :
          j <= k /\ Kind[Order[k]] = "sim" => Kind[Order[j]] = "sim"
  <1> DEFINE At_(m) == CHOOSE i \in D : Place(i) = m
  <1>1. \A m \in D : At_(m) \in D /\ Place(At_(m)) = m
    BY PlacesAreTaken
  <1>2. Order = [m \in D |-> Declared[At_(m)]]
    BY DEF Order, D
  <1> HIDE DEF At_
  <1>3. D = 1 .. Len(Declared)
    BY Positions
  <1>4. Order \in Seq(Instances) /\ Len(Order) = Len(Declared)
    <2>1. \A m \in 1 .. Len(Declared) : Order[m] \in Instances
      BY <1>1, <1>2, <1>3, Positions
    <2> QED BY <2>1, <1>2, <1>3, Positions
  <1>5. \A n \in Instances : \E j \in 1 .. Len(Declared) : Order[j] = n
    <2> SUFFICES ASSUME NEW n \in Instances PROVE \E j \in D : Order[j] = n
      BY <1>3
    <2>1. PICK i \in D : Declared[i] = n
      BY DEF Instances, D
    <2>2. Place(i) \in D
      BY PlacesDiffer
    <2>3. At_(Place(i)) = i
      BY <1>1, <2>2, PlacesDiffer
    <2> QED BY <1>2, <2>1, <2>2, <2>3
  <1>6. ASSUME NEW j \in D, NEW k \in D, j <= k, Kind[Order[k]] = "sim"
        PROVE  Kind[Order[j]] = "sim"
    <2>1. At_(j) \in D /\ At_(k) \in D /\ Place(At_(j)) = j /\ Place(At_(k)) = k
      BY <1>1
    <2>2. j \in Nat /\ k \in Nat
      BY Positions
    <2>3. ASSUME Before(At_(k), At_(j)) PROVE FALSE
      <3>1. Place(At_(k)) < Place(At_(j))
        BY <2>1, <2>3, PlaceGrows
      <3> QED BY <1>6, <2>1, <2>2, <3>1
    <2>4. At_(j) = At_(k) \/ Before(At_(j), At_(k))
      BY <2>1, <2>3, BeforeIsTotal
    <2>5. Order[j] = Declared[At_(j)] /\ Order[k] = Declared[At_(k)]
      BY <1>2
    <2>6. Kind[Declared[At_(j)]] \in {"sim", "backend", "bleephub"}
      BY <2>1, Positions, AdminAssumption
    <2> QED BY <1>6, <2>4, <2>5, <2>6 DEF Before, Group
  <1> QED BY <1>2, <1>3, <1>4, <1>5, <1>6

-----------------------------------------------------------------------------
\* Types.

\* What the position of a request says of its operation and its instance.
Shape(f) ==
    /\ f.op = "none" <=> f.at = "idle"
    /\ f.at = "idle" => f = Idle
    /\ f.at \in {"start", "spawn", "spawned"} => f.op \in {"start", "pstart"}
    /\ f.at \in {"health", "boot"} => f.op = "start"
    /\ f.at \in {"stop", "wait", "reap", "after"} =>
          f.op \in {"start", "stop", "delete", "pstop", "shutdown"}
    /\ f.at = "unlock" => f.op \in {"start", "stop", "delete"}
    /\ f.at \in {"remove", "forget", "unlink"} => f.op = "delete"
    /\ f.at \in {"list", "sweep"} => f.op = "shutdown" /\ f.i = 0
    /\ f.at \in {"start", "spawn", "spawned", "health", "boot",
                 "stop", "wait", "reap", "after"} =>
          /\ f.n \in Names
          /\ \/ f.op \in {"start", "stop", "delete"}
             \/ f.op = "shutdown" /\ f.i # 0
             => f.i \in 1 .. Len(Declared) /\ f.n = Order[f.i]
    /\ f.at = "remove" => f.i \in 1 .. Len(Declared)
    /\ f.op = "pstop" => f.i = 0

\* A request that starts or stops a process has an entry that was registered,
\* and the run or the command that it works on.
Grip(f) ==
    /\ f.at \in {"spawn", "spawned", "wait", "reap", "after"} =>
          f.g \in 1 .. gen[f.n]
    /\ f.at \in {"spawn", "spawned"} =>
          f.r \in Runs /\ entry[f.r] \in Entries /\ proc[EntryOf(f)].done # 0
    /\ f.at \in {"wait", "reap"} => f.cmd # 0

\* A goroutine knows the channel that it will close, and the entry of a run was
\* registered.
Watch(r) ==
    /\ monitor[r].at \in {"wait", "unlocked"} =>
          monitor[r].done # 0 /\ entry[r] \in Entries
    /\ entry[r] \in Entries => entry[r][2] <= gen[entry[r][1]]

TypeInv ==
    /\ TypeOK
    /\ \A n \in Names : processes[n] <= gen[n]
    /\ \A q \in Requests : Shape(req[q]) /\ Grip(req[q])
    /\ \A r \in Runs : Watch(r)

\* The frames that the calls of a request return to.
LEMMA DownShape ==
    ASSUME NEW f \in Frame, NEW j \in 0 .. Len(Declared),
           f.op \in {"start", "stop", "delete", "shutdown"}
    PROVE  /\ Down(f, j) \in Frame /\ Shape(Down(f, j))
           /\ Down(f, j).at \in {"stop", "remove", "list", "unlock"}
  <1>0. 0 \in 0 .. Len(Declared) + 1 /\ 1 \in 0 .. Len(Declared) + 1
        /\ j \in 0 .. Len(Declared) + 1 /\ 1 \in 1 .. Len(Declared)
    BY Positions
  <1> DEFINE h == Down(f, j)
  <1> SUFFICES h \in Frame /\ Shape(h) /\ h.at \in {"stop", "remove", "list", "unlock"}
    OBVIOUS
  <1>1. CASE j = 0
    <2>1. CASE f.op = "delete"
      <3>1. h = [f EXCEPT !.at = "remove", !.i = 1]
        BY <1>1, <2>1 DEF Down, Stopped
      <3>2. h \in Frame
        BY <1>0, <3>1 DEF Frame, At
      <3>3. h.op = "delete" /\ h.at = "remove" /\ h.i = 1
        BY <2>1, <3>1 DEF Frame
      <3> HIDE DEF h
      <3> QED BY <1>0, <3>2, <3>3 DEF Shape
    <2>2. CASE f.op = "shutdown"
      <3>1. h = [f EXCEPT !.at = "list", !.i = 0]
        BY <1>1, <2>2 DEF Down, Stopped
      <3>2. h \in Frame
        BY <1>0, <3>1 DEF Frame, At
      <3>3. h.op = "shutdown" /\ h.at = "list" /\ h.i = 0
        BY <2>2, <3>1 DEF Frame
      <3> HIDE DEF h
      <3> QED BY <3>2, <3>3 DEF Shape
    <2>3. CASE f.op \in {"start", "stop"}
      <3>1. h = [f EXCEPT !.at = "unlock"]
        BY <1>1, <2>3 DEF Down, Stopped
      <3>2. h \in Frame /\ h.op = f.op /\ h.at = "unlock"
        BY <3>1 DEF Frame, At
      <3> HIDE DEF h
      <3> QED BY <2>3, <3>2 DEF Shape
    <2> QED BY <2>1, <2>2, <2>3
  <1>2. CASE j # 0
    <2>1. j \in 1 .. Len(Declared) /\ Order[j] \in Names
      BY <1>2, Positions, OrderFacts DEF Names
    <2>2. h = [f EXCEPT !.at = "stop", !.i = j, !.n = Order[j]]
      BY <1>2 DEF Down
    <2>3. h \in Frame
      BY <1>0, <2>1, <2>2 DEF Frame, At
    <2>4. h.op = f.op /\ h.at = "stop" /\ h.i = j /\ h.n = Order[j]
      BY <2>2 DEF Frame
    <2> HIDE DEF h
    <2> QED BY <2>1, <2>3, <2>4 DEF Shape
  <1> QED BY <1>1, <1>2

LEMMA UpShape ==
    ASSUME NEW f \in Frame, NEW j \in 1 .. Len(Declared) + 1, f.op = "start"
    PROVE  /\ Up(f, j) \in Frame /\ Shape(Up(f, j))
           /\ Up(f, j).at \in {"start", "unlock"}
  <1>0. j \in 0 .. Len(Declared) + 1
    BY Positions
  <1> DEFINE h == Up(f, j)
  <1> SUFFICES h \in Frame /\ Shape(h) /\ h.at \in {"start", "unlock"}
    OBVIOUS
  <1>1. CASE j > Len(Order)
    <2>1. h = [f EXCEPT !.at = "unlock", !.i = j]
      BY <1>1 DEF Up
    <2>2. h \in Frame
      BY <1>0, <2>1 DEF Frame, At
    <2>3. h.op = f.op /\ h.at = "unlock"
      BY <2>1 DEF Frame
    <2> HIDE DEF h
    <2> QED BY <2>2, <2>3 DEF Shape
  <1>2. CASE ~(j > Len(Order))
    <2>1. j \in 1 .. Len(Declared) /\ Order[j] \in Names
      BY <1>2, Positions, OrderFacts DEF Names
    <2>2. h = [f EXCEPT !.at = "start", !.i = j, !.n = Order[j]]
      BY <1>2 DEF Up
    <2>3. h \in Frame
      BY <1>0, <2>1, <2>2 DEF Frame, At
    <2>4. h.op = f.op /\ h.at = "start" /\ h.i = j /\ h.n = Order[j]
      BY <2>2 DEF Frame
    <2> HIDE DEF h
    <2> QED BY <2>1, <2>3, <2>4 DEF Shape
  <1> QED BY <1>1, <1>2

LEMMA IdleShape == Idle \in Frame /\ Shape(Idle)
  BY Positions, AdminAssumption DEF Idle, Frame, Shape, Ops, At

LEMMA ReturnedShape ==
    ASSUME NEW f \in Frame
    PROVE  /\ Returned(f) \in Frame /\ Returned(f).op = f.op
           /\ Returned(f).i = f.i /\ Returned(f).n = f.n
           /\ Returned(f).mine = f.mine /\ Returned(f).todo = f.todo
  <1> DEFINE h == Returned(f)
  <1>1. 0 \in 0 .. MaxGen /\ 0 \in 0 .. MaxRuns
    BY AdminAssumption
  <1>2. h = [f EXCEPT !.g = 0, !.r = 0, !.cmd = 0]
    BY DEF Returned
  <1> HIDE DEF h
  <1>3. h \in Frame
    BY <1>1, <1>2 DEF Frame
  <1>4. h.op = f.op /\ h.i = f.i /\ h.n = f.n /\ h.mine = f.mine /\ h.todo = f.todo
    BY <1>2 DEF Frame
  <1> QED BY <1>3, <1>4 DEF h

LEMMA StartReturnsShape ==
    ASSUME NEW f \in Frame, Shape(f), f.at \in {"start", "spawn", "spawned"},
           NEW ok \in BOOLEAN
    PROVE  /\ StartReturns(f, ok) \in Frame /\ Shape(StartReturns(f, ok))
           /\ StartReturns(f, ok).at \in
                 {"idle", "health", "stop", "remove", "list", "unlock"}
  <1> DEFINE b == Returned(f)
  <1>0. b \in Frame /\ b.op = f.op /\ b.i = f.i /\ b.n = f.n
    BY ReturnedShape
  <1>1. CASE f.op = "pstart"
    BY <1>1, IdleShape DEF StartReturns, Idle
  <1>2. CASE f.op # "pstart" /\ ok
    <2> DEFINE h == StartReturns(f, ok)
    <2>1. f.op = "start"
      BY <1>2 DEF Shape
    <2>2. h = [b EXCEPT !.at = "health"]
      BY <1>2, <2>1 DEF StartReturns
    <2> HIDE DEF b
    <2>3. h \in Frame /\ h.at = "health" /\ h.op = f.op /\ h.i = f.i /\ h.n = f.n
      BY <1>0, <2>2 DEF Frame, At
    <2> HIDE DEF h
    <2>4. Shape(h)
      BY <2>1, <2>3 DEF Shape
    <2> QED BY <2>3, <2>4 DEF h
  <1>3. CASE f.op # "pstart" /\ ~ok
    <2>1. f.op = "start" /\ f.i - 1 \in 0 .. Len(Declared)
      BY <1>3, Positions DEF Shape
    <2>2. StartReturns(f, ok) = Down(b, f.i - 1)
      BY <1>3 DEF StartReturns
    <2> HIDE DEF b
    <2> QED BY <1>0, <2>1, <2>2, DownShape
  <1> QED BY <1>1, <1>2, <1>3

LEMMA StopReturnsShape ==
    ASSUME NEW f \in Frame, Shape(f), f.at \in {"stop", "after"}
    PROVE  /\ StopReturns(f) \in Frame /\ Shape(StopReturns(f))
           /\ StopReturns(f).at \in
                 {"idle", "sweep", "stop", "remove", "list", "unlock"}
  <1> DEFINE b == Returned(f)
  <1>0. b \in Frame /\ b.op = f.op /\ b.i = f.i /\ b.n = f.n
    BY ReturnedShape
  <1>1. CASE f.op = "pstop"
    BY <1>1, IdleShape DEF StopReturns, Idle
  <1>2. CASE f.op = "shutdown" /\ f.i = 0
    <2> DEFINE h == StopReturns(f)
    <2>1. h = [b EXCEPT !.at = "sweep"]
      BY <1>2 DEF StopReturns
    <2> HIDE DEF b
    <2>2. h \in Frame /\ h.at = "sweep" /\ h.op = f.op /\ h.i = f.i /\ h.n = f.n
      BY <1>0, <2>1 DEF Frame, At
    <2> HIDE DEF h
    <2>3. Shape(h)
      BY <1>2, <2>2 DEF Shape
    <2> QED BY <2>2, <2>3 DEF h
  <1>3. CASE f.op # "pstop" /\ ~(f.op = "shutdown" /\ f.i = 0)
    <2>1. /\ f.op \in {"start", "stop", "delete", "shutdown"}
          /\ f.i - 1 \in 0 .. Len(Declared)
      BY <1>3, Positions DEF Shape
    <2>2. StopReturns(f) = Down(b, f.i - 1)
      BY <1>3 DEF StopReturns
    <2> HIDE DEF b
    <2> QED BY <1>0, <2>1, <2>2, DownShape
  <1> QED BY <1>1, <1>2, <1>3

\* A step that moves one request, and changes neither table nor runs.
LEMMA RequestMoves ==
    ASSUME TypeInv, NEW q \in Requests, NEW h \in Frame, Shape(h), Grip(h),
           req' = [req EXCEPT ![q] = h],
           UNCHANGED <<table, runs, entry, child, closed, panicked, monitor,
                       reused, lost>>,
           stored' \in BOOLEAN, file' \in BOOLEAN,
           opLock' \in {"start", "stop", "delete", None}, killed' \subseteq Runs
    PROVE  TypeInv'
  <1>1. UNCHANGED <<processes, proc, gen, runs, entry, child, closed, panicked,
                    monitor, reused, lost>>
    BY DEF table
  <1>2. TypeOK'
    BY <1>1 DEF TypeInv, TypeOK
  <1>3. ASSUME NEW p \in Requests
        PROVE  Shape(req[p])' /\ Grip(req[p])'
    <2>1. req'[p] = IF p = q THEN h ELSE req[p]
      BY DEF TypeInv, TypeOK
    <2>2. Shape(req'[p]) /\ Grip(IF p = q THEN h ELSE req[p])
      BY <2>1 DEF TypeInv
    <2>3. Shape(req[p])'
      BY <2>2 DEF Shape
    <2> QED BY <1>1, <2>1, <2>2, <2>3 DEF Grip, EntryOf
  <1>4. \A r \in Runs : Watch(r)'
    BY <1>1 DEF TypeInv, Watch
  <1>5. \A n \in Names : processes'[n] <= gen'[n]
    BY <1>1 DEF TypeInv
  <1> QED BY <1>2, <1>3, <1>4, <1>5 DEF TypeInv

\* A step of a request that leaves table and runs alone.
LEMMA MovesType ==
    ASSUME TypeInv, NEW q \in Requests,
           \/ \E op \in {"start", "stop", "delete"} : ProjectRequest(q, op)
           \/ Shutdown(q) \/ StartRefused(q) \/ StopRefused(q) \/ StopSees(q)
           \/ StopTimeout(q) \/ GiveUp(q) \/ Healthy(q) \/ Bootstrapped(q)
           \/ Unlock(q) \/ Forget(q) \/ Unlink(q) \/ StopAll(q) \/ StopNext(q)
    PROVE  TypeInv'
  <1> DEFINE f == req[q]
  <1>1. f \in Frame /\ Shape(f) /\ Grip(f) /\ TypeOK
    BY DEF TypeInv, TypeOK
  <1>2. /\ stored \in BOOLEAN /\ file \in BOOLEAN /\ killed \subseteq Runs
        /\ opLock \in {"start", "stop", "delete", None}
    BY <1>1 DEF TypeOK
  <1>3. ASSUME NEW op \in {"start", "stop", "delete"}, ProjectRequest(q, op)
        PROVE  TypeInv'
    <2> DEFINE b == [Idle EXCEPT !.op = op]
               c == [b EXCEPT !.mine = Running(Instances)]
               h == IF op = "start" THEN Up(b, 1) ELSE Down(c, Len(Order))
    <2>1. b \in Frame /\ b.op = op
      BY IdleShape DEF Idle, Frame, Ops
    <2>2. 1 \in 1 .. Len(Declared) + 1 /\ Len(Order) \in 0 .. Len(Declared)
      BY Positions, OrderFacts
    <2>3. req' = [req EXCEPT ![q] = h]
      BY <1>3 DEF ProjectRequest, Goto
    <2> HIDE DEF b
    <2>4. c \in Frame /\ c.op = op
      BY <2>1 DEF Frame, Running
    <2> HIDE DEF c
    <2>5. h \in Frame /\ Shape(h) /\ h.at \in {"start", "stop", "remove", "list", "unlock"}
      BY <2>1, <2>2, <2>4, UpShape, DownShape
    <2>6. Grip(h)
      BY <2>5 DEF Grip
    <2> HIDE DEF h
    <2> QED BY <1>2, <1>3, <2>3, <2>5, <2>6, RequestMoves
            DEF ProjectRequest, os, history
  <1>5. CASE Shutdown(q)
    <2> DEFINE b == [Idle EXCEPT !.op = "shutdown", !.mine = Running(Instances)]
               h == IF stored THEN Down(b, Len(Order)) ELSE Stopped(b)
    <2>1. b \in Frame /\ b.op = "shutdown"
      BY IdleShape DEF Idle, Frame, Ops, Running
    <2>2. 0 \in 0 .. Len(Declared) /\ Len(Order) \in 0 .. Len(Declared)
      BY Positions, OrderFacts
    <2>3. req' = [req EXCEPT ![q] = h]
      BY <1>5 DEF Shutdown, Goto
    <2> HIDE DEF b
    <2>4. Stopped(b) = Down(b, 0)
      BY DEF Down
    <2>5. h \in Frame /\ Shape(h) /\ h.at \in {"stop", "remove", "list", "unlock"}
      BY <2>1, <2>2, <2>4, DownShape
    <2>6. Grip(h)
      BY <2>5 DEF Grip
    <2> HIDE DEF h
    <2> QED BY <1>2, <1>5, <2>3, <2>5, <2>6, RequestMoves
            DEF Shutdown, project, os, history
  <1>6. CASE StartRefused(q)
    <2> DEFINE h == StartReturns(f, FALSE)
    <2>1. h \in Frame /\ Shape(h) /\ Grip(h)
      BY <1>1, <1>6, StartReturnsShape DEF StartRefused, Grip
    <2>2. req' = [req EXCEPT ![q] = h]
      BY <1>6 DEF StartRefused, Goto
    <2> HIDE DEF h
    <2> QED BY <1>2, <1>6, <2>1, <2>2, RequestMoves DEF StartRefused, project, os, history
  <1>7. CASE StopRefused(q)
    <2> DEFINE h == StopReturns(f)
    <2>1. h \in Frame /\ Shape(h) /\ Grip(h)
      BY <1>1, <1>7, StopReturnsShape DEF StopRefused, Grip
    <2>2. req' = [req EXCEPT ![q] = h]
      BY <1>7 DEF StopRefused, Goto
    <2> HIDE DEF h
    <2> QED BY <1>2, <1>7, <2>1, <2>2, RequestMoves DEF StopRefused, project, os, history
  <1>8. CASE StopSees(q)
    <2> DEFINE h == [f EXCEPT !.at = "after"]
    <2>1. /\ h \in Frame /\ h.at = "after"
          /\ h.op = f.op /\ h.n = f.n /\ h.i = f.i /\ h.g = f.g
      BY <1>1 DEF Frame, At
    <2>2. req' = [req EXCEPT ![q] = h]
      BY <1>8 DEF StopSees, Goto
    <2> HIDE DEF h
    <2>3. Shape(h) /\ Grip(h)
      BY <1>1, <1>8, <2>1 DEF Shape, Grip, StopSees
    <2> QED BY <1>2, <1>8, <2>1, <2>2, <2>3, RequestMoves DEF StopSees, project, os, history
  <1>9. CASE StopTimeout(q)
    <2> DEFINE h == [f EXCEPT !.at = "reap"]
    <2>1. /\ h \in Frame /\ h.at = "reap" /\ f.cmd \in 0 .. MaxRuns
          /\ h.op = f.op /\ h.n = f.n /\ h.i = f.i /\ h.g = f.g /\ h.cmd = f.cmd
      BY <1>1 DEF Frame, At
    <2>2. req' = [req EXCEPT ![q] = h]
      BY <1>9 DEF StopTimeout, Goto
    <2> HIDE DEF h
    <2>3. Shape(h) /\ Grip(h)
      BY <1>1, <1>9, <2>1 DEF Shape, Grip, StopTimeout
    <2>4. killed' \subseteq Runs
      BY <1>1, <1>2, <1>9, <2>1, AdminAssumption DEF StopTimeout, Kill, Grip, Runs
    <2> QED BY <1>2, <1>9, <2>1, <2>2, <2>3, <2>4, RequestMoves
            DEF StopTimeout, project, history
  <1>10. CASE GiveUp(q)
    <2> DEFINE h == Down(f, f.i)
    <2>1. f.op = "start" /\ f.i \in 0 .. Len(Declared)
      BY <1>1, <1>10, Positions DEF GiveUp, Shape
    <2>2. h \in Frame /\ Shape(h) /\ Grip(h)
      BY <1>1, <2>1, DownShape DEF Grip
    <2>3. req' = [req EXCEPT ![q] = h]
      BY <1>10 DEF GiveUp, Goto
    <2> HIDE DEF h
    <2> QED BY <1>2, <1>10, <2>2, <2>3, RequestMoves DEF GiveUp, project, os, history
  <1>11. CASE Healthy(q)
    <2> DEFINE h == IF Kind[f.n] = "backend" /\ SimOf[f.n] # None
                    THEN [f EXCEPT !.at = "boot"] ELSE Up(f, f.i + 1)
    <2>1. f.op = "start" /\ f.at = "health" /\ f.i + 1 \in 1 .. Len(Declared) + 1
      BY <1>1, <1>11, Positions DEF Healthy, Shape
    <2>2. h \in Frame /\ Shape(h) /\ Grip(h)
      <3>1. CASE Kind[f.n] = "backend" /\ SimOf[f.n] # None
        <4>1. h \in Frame /\ h.at = "boot" /\ h.op = f.op /\ h.n = f.n /\ h.i = f.i
          BY <1>1, <3>1 DEF Frame, At
        <4> HIDE DEF h
        <4> QED BY <1>1, <2>1, <4>1 DEF Shape, Grip
      <3>2. CASE ~(Kind[f.n] = "backend" /\ SimOf[f.n] # None)
        BY <1>1, <2>1, <3>2, UpShape DEF Grip
      <3> QED BY <3>1, <3>2
    <2>3. req' = [req EXCEPT ![q] = h]
      BY <1>11 DEF Healthy, Goto
    <2> HIDE DEF h
    <2> QED BY <1>2, <1>11, <2>2, <2>3, RequestMoves DEF Healthy, project, os, history
  <1>12. CASE Bootstrapped(q)
    <2> DEFINE h == Up(f, f.i + 1)
    <2>1. f.op = "start" /\ f.i + 1 \in 1 .. Len(Declared) + 1
      BY <1>1, <1>12, Positions DEF Bootstrapped, Shape
    <2>2. h \in Frame /\ Shape(h) /\ Grip(h)
      BY <1>1, <2>1, UpShape DEF Grip
    <2>3. req' = [req EXCEPT ![q] = h]
      BY <1>12 DEF Bootstrapped, Goto
    <2> HIDE DEF h
    <2> QED BY <1>2, <1>12, <2>2, <2>3, RequestMoves DEF Bootstrapped, project, os, history
  <1>13. CASE Unlock(q)
    <2>1. Grip(Idle)
      BY DEF Grip, Idle
    <2> QED BY <1>2, <1>13, <2>1, IdleShape, RequestMoves DEF Unlock, Goto, os, history
  <1>14. CASE Forget(q) \/ Unlink(q)
    <2> DEFINE h == [f EXCEPT !.at = IF Forget(q) THEN "unlink" ELSE "unlock"]
    <2>0. Forget(q) => ~Unlink(q)
      BY DEF Forget, Unlink
    <2>1. /\ h \in Frame /\ h.op = f.op /\ f.op = "delete"
          /\ h.at \in {"unlink", "unlock"}
      BY <1>1, <1>14 DEF Frame, At, Forget, Unlink, Shape
    <2>2. req' = [req EXCEPT ![q] = h]
      BY <1>14, <2>0 DEF Forget, Unlink, Goto
    <2> HIDE DEF h
    <2>3. Shape(h) /\ Grip(h)
      BY <2>1 DEF Shape, Grip
    <2>4. /\ stored' \in BOOLEAN /\ file' \in BOOLEAN /\ UNCHANGED opLock
          /\ UNCHANGED <<table, os, monitor, history>>
      BY <1>2, <1>14 DEF Forget, Unlink
    <2> QED BY <1>2, <2>1, <2>2, <2>3, <2>4, RequestMoves DEF os, history
  <1>15. CASE StopAll(q)
    <2> DEFINE S == {n \in Names : /\ processes[n] # 0
                                   /\ proc[<<n, processes[n]>>].status = "running"}
               h == [f EXCEPT !.at = "sweep", !.mine = @ \cup Running(Names), !.todo = S]
    <2>1. S \subseteq Names
      OBVIOUS
    <2>2. req' = [req EXCEPT ![q] = h]
      BY <1>15 DEF StopAll, Goto
    <2> HIDE DEF S
    <2>3. h \in Frame /\ h.op = f.op /\ h.at = "sweep" /\ h.i = f.i
      BY <1>1, <2>1 DEF Frame, At, Running
    <2> HIDE DEF h
    <2>4. Shape(h) /\ Grip(h)
      BY <1>1, <1>15, <2>3 DEF Shape, Grip, StopAll
    <2> QED BY <1>2, <1>15, <2>2, <2>3, <2>4, RequestMoves DEF StopAll, project, os, history
  <1>16. CASE StopNext(q)
    <2>0. PICK n \in f.todo :
             req' = [req EXCEPT ![q] = [f EXCEPT !.at = "stop", !.n = n,
                                                 !.todo = @ \ {n}]]
      BY <1>16 DEF StopNext, Goto
    <2> DEFINE h == [f EXCEPT !.at = "stop", !.n = n, !.todo = @ \ {n}]
    <2>1. n \in Names
      BY <1>1 DEF Frame
    <2>2. h \in Frame /\ h.op = f.op /\ h.at = "stop" /\ h.n = n /\ h.i = f.i
      BY <1>1, <2>1 DEF Frame, At
    <2>3. req' = [req EXCEPT ![q] = h]
      BY <2>0
    <2> HIDE DEF h
    <2>4. Shape(h) /\ Grip(h)
      BY <1>1, <1>16, <2>1, <2>2 DEF Shape, Grip, StopNext
    <2> QED BY <1>2, <1>16, <2>2, <2>3, <2>4, RequestMoves
            DEF StopNext, project, os, history
  <1> QED BY <1>3, <1>5, <1>6, <1>7, <1>8, <1>9, <1>10, <1>11, <1>12, <1>13,
             <1>14, <1>15, <1>16

\* A request keeps hold of its entry and its run: registrations, done channels
\* and runs are never taken back.
LEMMA HolderKeeps ==
    ASSUME TypeInv, NEW p \in Requests, req'[p] = req[p],
           \A n \in Names : gen[n] <= gen'[n] /\ gen'[n] \in Nat,
           \A e \in Entries : e[2] <= gen[e[1]] /\ proc[e].done # 0
                                => proc'[e].done # 0,
           \A r \in Runs : entry[r] \in Entries => entry'[r] \in Entries
    PROVE  Shape(req[p])' /\ Grip(req[p])'
  <1> DEFINE f == req[p]
  <1>1. Shape(f) /\ Grip(f)
    BY DEF TypeInv
  <1>2. Shape(req'[p])
    BY <1>1
  <1>3. Shape(req[p])'
    BY <1>2 DEF Shape
  <1>4. ASSUME f.at \in {"spawn", "spawned", "wait", "reap", "after"}
        PROVE  f.g \in 1 .. gen'[f.n] /\ EntryOf(f) \in Entries /\ f.g <= gen[f.n]
    <2>1. f.g \in 1 .. gen[f.n] /\ f.n \in Names
      BY <1>1, <1>4 DEF Grip, Shape
    <2>2. gen[f.n] \in 0 .. MaxGen /\ gen[f.n] <= gen'[f.n] /\ gen'[f.n] \in Nat
      BY <2>1 DEF TypeInv, TypeOK
    <2>3. f.g \in 1 .. MaxGen /\ f.g <= gen[f.n] /\ f.g \in 1 .. gen'[f.n]
      BY <2>1, <2>2, AdminAssumption
    <2> QED BY <2>1, <2>3 DEF Entries, EntryOf
  <1>5. ASSUME f.at \in {"spawn", "spawned"}
        PROVE  /\ f.r \in Runs /\ entry'[f.r] \in Entries
               /\ proc'[EntryOf(f)].done # 0
    <2>1. f.r \in Runs /\ entry[f.r] \in Entries /\ proc[EntryOf(f)].done # 0
      BY <1>1, <1>5 DEF Grip
    <2>2. EntryOf(f) \in Entries /\ EntryOf(f)[2] <= gen[EntryOf(f)[1]]
      BY <1>4, <1>5 DEF EntryOf
    <2> QED BY <2>1, <2>2
  <1>6. f.at \in {"wait", "reap"} => f.cmd # 0
    BY <1>1 DEF Grip
  <1> HIDE DEF f
  <1>7. req'[p] = f
    BY DEF f
  <1> QED BY <1>3, <1>4, <1>5, <1>6, <1>7 DEF Grip, EntryOf

\* The same for all requests when one of them moves.
LEMMA HoldersKeep ==
    ASSUME TypeInv, NEW q \in Requests, NEW h \in Frame, Shape(h),
           req' = [req EXCEPT ![q] = h],
           h.at \in {"spawn", "spawned", "wait", "reap", "after"} =>
              h.g \in 1 .. gen'[h.n],
           h.at \in {"spawn", "spawned"} =>
              /\ h.r \in Runs /\ entry'[h.r] \in Entries
              /\ proc'[<<h.n, h.g>>].done # 0,
           h.at \in {"wait", "reap"} => h.cmd # 0,
           \A n \in Names : gen[n] <= gen'[n] /\ gen'[n] \in Nat,
           \A e \in Entries : e[2] <= gen[e[1]] /\ proc[e].done # 0
                                => proc'[e].done # 0,
           \A r \in Runs : entry[r] \in Entries => entry'[r] \in Entries
    PROVE  \A p \in Requests : Shape(req[p])' /\ Grip(req[p])'
  <1> SUFFICES ASSUME NEW p \in Requests
               PROVE  Shape(req[p])' /\ Grip(req[p])'
    OBVIOUS
  <1>1. req'[p] = IF p = q THEN h ELSE req[p]
    BY DEF TypeInv, TypeOK
  <1>2. CASE p = q
    <2>1. req'[p] = h
      BY <1>1, <1>2
    <2>2. Shape(req'[p])
      BY <2>1
    <2>3. Shape(req[p])'
      BY <2>2 DEF Shape
    <2> QED BY <2>1, <2>3 DEF Grip, EntryOf
  <1>3. CASE p # q
    BY <1>1, <1>3, HolderKeeps
  <1> QED BY <1>2, <1>3

LEMMA HoldersStay ==
    ASSUME TypeInv, NEW q \in Requests, NEW h \in Frame, Shape(h),
           req' = [req EXCEPT ![q] = h], UNCHANGED <<gen, entry>>,
           h.at \in {"spawn", "spawned", "wait", "reap", "after"} =>
              h.g \in 1 .. gen[h.n],
           h.at \in {"spawn", "spawned"} =>
              /\ h.r \in Runs /\ entry[h.r] \in Entries
              /\ proc'[<<h.n, h.g>>].done # 0,
           h.at \in {"wait", "reap"} => h.cmd # 0,
           \A e \in Entries : proc'[e].done = proc[e].done
    PROVE  \A p \in Requests : Shape(req[p])' /\ Grip(req[p])'
  <1>1. \A n \in Names : gen[n] <= gen'[n] /\ gen'[n] \in Nat
    BY AdminAssumption DEF TypeInv, TypeOK
  <1>2. \A e \in Entries : e[2] <= gen[e[1]] /\ proc[e].done # 0 => proc'[e].done # 0
    OBVIOUS
  <1>3. \A r \in Runs : entry[r] \in Entries => entry'[r] \in Entries
    OBVIOUS
  <1>4. /\ h.at \in {"spawn", "spawned", "wait", "reap", "after"} =>
              h.g \in 1 .. gen'[h.n]
        /\ h.at \in {"spawn", "spawned"} =>
              /\ h.r \in Runs /\ entry'[h.r] \in Entries
              /\ proc'[<<h.n, h.g>>].done # 0
    OBVIOUS
  <1> QED BY <1>1, <1>2, <1>3, <1>4, HoldersKeep

LEMMA EntryIsOne ==
    ASSUME TypeInv, NEW n \in Names, processes[n] # 0
    PROVE  /\ <<n, processes[n]>> \in Entries /\ processes[n] \in 1 .. gen[n]
           /\ processes[n] \in 0 .. MaxGen /\ proc[<<n, processes[n]>>] \in Entry
  BY AdminAssumption DEF TypeInv, TypeOK, Entries

LEMMA EntryOfIsOne ==
    ASSUME TypeInv, NEW q \in Requests,
           req[q].at \in {"spawn", "spawned", "wait", "reap", "after"}
    PROVE  /\ EntryOf(req[q]) \in Entries /\ proc[EntryOf(req[q])] \in Entry
           /\ req[q].g <= gen[req[q].n]
  <1>1. req[q] \in Frame /\ Shape(req[q]) /\ Grip(req[q])
    BY DEF TypeInv, TypeOK
  <1>2. req[q].n \in Names /\ req[q].g \in 1 .. gen[req[q].n]
    BY <1>1 DEF Grip, Shape
  <1>3. gen[req[q].n] \in 0 .. MaxGen
    BY <1>2 DEF TypeInv, TypeOK
  <1>4. req[q].g \in 1 .. MaxGen /\ req[q].g <= gen[req[q].n]
    BY <1>2, <1>3, AdminAssumption
  <1>5. EntryOf(req[q]) \in Entries
    BY <1>2, <1>4 DEF EntryOf, Entries
  <1> QED BY <1>4, <1>5 DEF TypeInv, TypeOK

\* The runs are numbered from 1, and the next one is a run.
LEMMA RunsAreCounted == \A r \in Runs : r # 0
  BY DEF Runs

LEMMA NoEntry == <<None, 0>> \notin Entries
  BY DEF Entries

LEMMA NextRunType ==
    ASSUME TypeOK, runs < MaxRuns
    PROVE  runs + 1 \in Runs /\ runs + 1 \in 0 .. MaxRuns /\ runs \in Nat /\ runs + 1 > runs
  <1>1. runs \in 0 .. MaxRuns
    BY DEF TypeOK
  <1> QED BY <1>1, AdminAssumption DEF Runs

\* What pm.Start does up to the unlock, for a request that comes to it as f.
LEMMA StartBeginFacts ==
    ASSUME TypeInv, NEW q \in Requests, NEW f \in Frame, Shape(f), StartBegin(q, f)
    PROVE  LET n == f.n
               e == <<n, processes[n]>>
               r == runs + 1
               h == [f EXCEPT !.at = "spawn", !.g = processes[n], !.r = r]
           IN /\ n \in Names /\ e \in Entries /\ processes[n] \in 1 .. gen[n]
              /\ r \in Runs /\ r \in 0 .. MaxRuns /\ r # 0 /\ runs \in Nat
              /\ h \in Frame /\ Shape(h) /\ h.at = "spawn" /\ h.g = processes[n]
              /\ h.r = r /\ h.op = f.op /\ h.n = n /\ h.i = f.i /\ h.mine = f.mine
              /\ h.todo = f.todo
              /\ req' = [req EXCEPT ![q] = h] /\ req'[q] = h
              /\ \A p \in Requests \ {q} : req'[p] = req[p]
              /\ proc' = [proc EXCEPT ![e] = [status |-> "starting", cmd |-> r,
                                              cancel |-> r, done |-> r]]
              /\ proc'[e] = [status |-> "starting", cmd |-> r, cancel |-> r, done |-> r]
              /\ \A x \in Entries \ {e} : proc'[x] = proc[x]
              /\ entry' = [entry EXCEPT ![r] = e] /\ entry'[r] = e
              /\ \A x \in Runs \ {r} : entry'[x] = entry[x]
              /\ child' = [child EXCEPT ![r] = "command"] /\ child'[r] = "command"
              /\ \A x \in Runs \ {r} : child'[x] = child[x]
              /\ runs' = r /\ reused \subseteq reused' /\ reused' \subseteq Entries
              /\ reused' \subseteq reused \cup {e}
              /\ proc[e].status \notin {"running", "starting"}
              /\ proc[e].status = "stopping" => e \in reused'
              /\ UNCHANGED <<stored, file, opLock, processes, gen, killed, closed,
                             panicked, monitor, lost>>
  <1> DEFINE n == f.n  e == <<n, processes[n]>>  r == runs + 1
             h == [f EXCEPT !.at = "spawn", !.g = processes[n], !.r = r]
  <1>1. f.at = "start" /\ n \in Names /\ processes[n] # 0
    BY DEF StartBegin, Shape
  <1>2. e \in Entries /\ processes[n] \in 1 .. gen[n] /\ processes[n] \in 0 .. MaxGen
    BY <1>1, EntryIsOne
  <1>3. r \in Runs /\ r \in 0 .. MaxRuns /\ runs \in Nat
    <2>1. TypeOK /\ runs < MaxRuns
      BY DEF TypeInv, StartBegin
    <2> QED BY <2>1, NextRunType
  <1>4. h \in Frame
    BY <1>2, <1>3 DEF Frame, At
  <1>5. /\ h.at = "spawn" /\ h.g = processes[n] /\ h.r = r /\ h.op = f.op
        /\ h.n = n /\ h.i = f.i /\ h.mine = f.mine /\ h.todo = f.todo
    BY DEF Frame
  <1>6. /\ req' = [req EXCEPT ![q] = h]
        /\ proc' = [proc EXCEPT ![e] = [status |-> "starting", cmd |-> r,
                                        cancel |-> r, done |-> r]]
        /\ runs' = r /\ entry' = [entry EXCEPT ![r] = e]
        /\ child' = [child EXCEPT ![r] = "command"]
        /\ proc[e].status \notin {"running", "starting"}
        /\ reused' = reused \cup {x \in {e} : proc[x].status = "stopping"}
        /\ UNCHANGED <<stored, file, opLock, processes, gen, killed, closed,
                       panicked, monitor, lost>>
    BY DEF StartBegin, MayStart, Goto, project
  <1>7. /\ reused \subseteq reused' /\ reused' \subseteq Entries
        /\ reused' \subseteq reused \cup {e}
        /\ proc[e].status = "stopping" => e \in reused'
    BY <1>2, <1>6 DEF TypeInv, TypeOK
  <1> HIDE DEF h, e, r
  <1>8. Shape(h)
    BY <1>1, <1>5 DEF Shape
  <1>9. /\ req'[q] = h
        /\ \A p \in Requests \ {q} : req'[p] = req[p]
    BY <1>6 DEF TypeInv, TypeOK
  <1>10. /\ proc'[e] = [status |-> "starting", cmd |-> r, cancel |-> r, done |-> r]
         /\ \A x \in Entries \ {e} : proc'[x] = proc[x]
    BY <1>2, <1>6 DEF TypeInv, TypeOK
  <1>11. /\ entry'[r] = e
         /\ \A x \in Runs \ {r} : entry'[x] = entry[x]
    BY <1>3, <1>6 DEF TypeInv, TypeOK
  <1>12. /\ child'[r] = "command"
         /\ \A x \in Runs \ {r} : child'[x] = child[x]
    BY <1>3, <1>6 DEF TypeInv, TypeOK
  <1>13. r # 0
    BY <1>3, RunsAreCounted
  <1> QED
    BY <1>1, <1>2, <1>3, <1>4, <1>5, <1>6, <1>7, <1>8, <1>9, <1>10, <1>11, <1>12,
       <1>13, Zenon DEF h, e, r

LEMMA StartBeginType ==
    ASSUME TypeInv, NEW q \in Requests, NEW f \in Frame, Shape(f), StartBegin(q, f)
    PROVE  TypeInv'
  <1> DEFINE n == f.n  e == <<n, processes[n]>>  r == runs + 1
             h == [f EXCEPT !.at = "spawn", !.g = processes[n], !.r = r]
  <1>1. /\ n \in Names /\ e \in Entries /\ processes[n] \in 1 .. gen[n]
        /\ r \in Runs /\ r \in 0 .. MaxRuns /\ r # 0
        /\ h \in Frame /\ Shape(h) /\ h.at = "spawn" /\ h.g = processes[n]
        /\ h.r = r /\ h.n = n
        /\ req' = [req EXCEPT ![q] = h] /\ runs' = r
        /\ entry' = [entry EXCEPT ![r] = e] /\ child' = [child EXCEPT ![r] = "command"]
        /\ proc' = [proc EXCEPT ![e] = [status |-> "starting", cmd |-> r,
                                        cancel |-> r, done |-> r]]
        /\ reused' \subseteq Entries
        /\ UNCHANGED <<stored, file, opLock, processes, gen, killed, closed,
                       panicked, monitor, lost>>
    BY StartBeginFacts, ZenonT(60)
  <1>2. /\ proc'[e].done = r /\ entry'[r] = e
        /\ \A x \in Entries : proc'[x].done = IF x = e THEN r ELSE proc[x].done
        /\ \A x \in Runs : entry'[x] = IF x = r THEN e ELSE entry[x]
    BY <1>1 DEF TypeInv, TypeOK
  <1>3. e = <<h.n, h.g>> /\ e[1] = n /\ e[2] = processes[n]
    BY <1>1
  <1> HIDE DEF h, e, r
  <1>4. TypeOK'
    BY <1>1 DEF TypeInv, TypeOK, Entry, Child
  <1>5. \A x \in Names : gen[x] <= gen'[x] /\ gen'[x] \in Nat
    BY <1>1, AdminAssumption DEF TypeInv, TypeOK
  <1>6. \A p \in Requests : Shape(req[p])' /\ Grip(req[p])'
    <2>1. h.at \in {"spawn", "spawned", "wait", "reap", "after"} =>
             h.g \in 1 .. gen'[h.n]
      BY <1>1
    <2>2. /\ h.r \in Runs /\ entry'[h.r] \in Entries
          /\ proc'[<<h.n, h.g>>].done # 0
      BY <1>1, <1>2, <1>3
    <2>3. h.at \in {"wait", "reap"} => h.cmd # 0
      BY <1>1
    <2>4. \A x \in Entries : x[2] <= gen[x[1]] /\ proc[x].done # 0 => proc'[x].done # 0
      BY <1>1, <1>2
    <2>5. \A x \in Runs : entry[x] \in Entries => entry'[x] \in Entries
      BY <1>1, <1>2
    <2> QED BY <1>1, <1>5, <2>1, <2>2, <2>3, <2>4, <2>5, HoldersKeep
  <1>7. \A x \in Runs : Watch(x)'
    <2>1. processes[n] <= gen[n]
      BY <1>1 DEF TypeInv
    <2> QED BY <1>1, <1>2, <1>3, <2>1 DEF TypeInv, Watch
  <1> QED BY <1>1, <1>4, <1>6, <1>7 DEF TypeInv

\* The steps of pm.Start after the unlock.
LEMMA SpawnFailsFacts ==
    ASSUME TypeInv, NEW q \in Requests, SpawnFails(q)
    PROVE  LET f == req[q]
               e == EntryOf(f)
               h == StartReturns(f, FALSE)
           IN /\ f \in Frame /\ Shape(f) /\ f.at = "spawn"
              /\ e \in Entries /\ f.r \in Runs /\ proc[e].done \in Runs
              /\ h \in Frame /\ Shape(h)
              /\ h.at \notin {"spawn", "spawned", "wait", "reap", "after"}
              /\ req' = [req EXCEPT ![q] = h] /\ req'[q] = h
              /\ \A p \in Requests \ {q} : req'[p] = req[p]
              /\ proc' \in [Entries -> Entry]
              /\ proc'[e].status = "failed" /\ proc'[e].cmd = 0
              /\ proc'[e].done = proc[e].done
              /\ \A x \in Entries \ {e} : proc'[x] = proc[x]
              /\ closed' = closed \cup {proc[e].done}
              /\ panicked' = panicked \cup ({proc[e].done} \cap closed)
              /\ child' = [child EXCEPT ![f.r] = "exited"] /\ child'[f.r] = "exited"
              /\ \A x \in Runs \ {f.r} : child'[x] = child[x]
              /\ killed' \subseteq Runs
              /\ UNCHANGED <<stored, file, opLock, processes, gen, runs, entry,
                             monitor, reused, lost>>
  <1> DEFINE f == req[q]  e == EntryOf(f)  h == StartReturns(f, FALSE)
  <1>1. f \in Frame /\ Shape(f) /\ Grip(f) /\ f.at = "spawn"
    BY DEF TypeInv, TypeOK, SpawnFails
  <1>2. e \in Entries /\ proc[e] \in Entry
    BY <1>1, EntryOfIsOne
  <1>3. f.r \in Runs /\ proc[e].done \in Runs
    BY <1>1, <1>2, AdminAssumption DEF Grip, Entry, Runs
  <1>4. /\ h \in Frame /\ Shape(h)
        /\ h.at \notin {"spawn", "spawned", "wait", "reap", "after"}
    BY <1>1, StartReturnsShape
  <1>5. /\ req' = [req EXCEPT ![q] = h]
        /\ proc' = [proc EXCEPT ![e].status = "failed", ![e].cmd = 0,
                                ![e].cancel = 0]
        /\ closed' = closed \cup {proc[e].done}
        /\ panicked' = panicked \cup ({proc[e].done} \cap closed)
        /\ child' = [child EXCEPT ![f.r] = "exited"] /\ killed' = killed \ {f.r}
        /\ UNCHANGED <<stored, file, opLock, processes, gen, runs, entry, monitor,
                       reused, lost>>
    BY DEF SpawnFails, Goto, project, Close, history
  <1> HIDE DEF h, e
  <1>6. /\ \A x \in Entries \ {e} : proc'[x] = proc[x]
        /\ proc'[e] = [proc[e] EXCEPT !.status = "failed", !.cmd = 0, !.cancel = 0]
        /\ proc' = [x \in Entries |-> proc'[x]]
    BY <1>2, <1>5 DEF TypeInv, TypeOK
  <1>7. 0 \in 0 .. MaxRuns
    BY AdminAssumption
  <1>8. /\ proc'[e] \in Entry /\ proc'[e].status = "failed" /\ proc'[e].cmd = 0
        /\ proc'[e].done = proc[e].done
    BY <1>2, <1>6, <1>7 DEF Entry
  <1>9. proc' \in [Entries -> Entry]
    <2>1. \A x \in Entries : proc'[x] \in Entry
      BY <1>6, <1>8 DEF TypeInv, TypeOK
    <2> QED BY <1>6, <2>1
  <1>10. /\ req'[q] = h /\ \A p \in Requests \ {q} : req'[p] = req[p]
         /\ child'[f.r] = "exited" /\ \A x \in Runs \ {f.r} : child'[x] = child[x]
         /\ killed' \subseteq Runs
    BY <1>3, <1>5 DEF TypeInv, TypeOK
  <1> QED BY <1>1, <1>2, <1>3, <1>4, <1>5, <1>6, <1>8, <1>9, <1>10, Zenon DEF h, e

LEMMA SpawnFailsType ==
    ASSUME TypeInv, NEW q \in Requests, SpawnFails(q)
    PROVE  TypeInv'
  <1> DEFINE f == req[q]  e == EntryOf(f)  h == StartReturns(f, FALSE)
  <1>1. /\ e \in Entries /\ f.r \in Runs /\ proc[e].done \in Runs
        /\ h \in Frame /\ Shape(h)
        /\ h.at \notin {"spawn", "spawned", "wait", "reap", "after"}
        /\ req' = [req EXCEPT ![q] = h] /\ proc' \in [Entries -> Entry]
        /\ proc'[e].done = proc[e].done
        /\ \A x \in Entries \ {e} : proc'[x] = proc[x]
        /\ closed' = closed \cup {proc[e].done}
        /\ panicked' = panicked \cup ({proc[e].done} \cap closed)
        /\ child' = [child EXCEPT ![f.r] = "exited"] /\ killed' \subseteq Runs
        /\ UNCHANGED <<stored, file, opLock, processes, gen, runs, entry, monitor,
                       reused, lost>>
    BY SpawnFailsFacts, Zenon
  <1> HIDE DEF e, h, f
  <1>2. TypeOK'
    BY <1>1 DEF TypeInv, TypeOK, Child
  <1>3. \A x \in Entries : proc'[x].done = proc[x].done
    BY <1>1
  <1>4. \A p \in Requests : Shape(req[p])' /\ Grip(req[p])'
    BY <1>1, <1>3, HoldersStay
  <1>5. \A x \in Runs : Watch(x)'
    BY <1>1 DEF TypeInv, Watch
  <1> QED BY <1>1, <1>2, <1>4, <1>5 DEF TypeInv

LEMMA SpawnFacts ==
    ASSUME TypeInv, NEW q \in Requests, Spawn(q)
    PROVE  LET f == req[q]
               h == [f EXCEPT !.at = "spawned"]
           IN /\ f \in Frame /\ Shape(f) /\ Grip(f) /\ f.at = "spawn"
              /\ EntryOf(f) \in Entries /\ f.r \in Runs
              /\ h \in Frame /\ Shape(h) /\ h.at = "spawned" /\ h.op = f.op
              /\ h.n = f.n /\ h.i = f.i /\ h.g = f.g /\ h.r = f.r /\ h.cmd = f.cmd
              /\ h.mine = f.mine /\ h.todo = f.todo
              /\ req' = [req EXCEPT ![q] = h] /\ req'[q] = h
              /\ \A p \in Requests \ {q} : req'[p] = req[p]
              /\ child' = [child EXCEPT ![f.r] = "live"] /\ child'[f.r] = "live"
              /\ \A x \in Runs \ {f.r} : child'[x] = child[x]
              /\ UNCHANGED <<stored, file, opLock, processes, proc, gen, runs, entry,
                             killed, closed, panicked, monitor, reused, lost>>
  <1> DEFINE f == req[q]  h == [f EXCEPT !.at = "spawned"]
  <1>1. f \in Frame /\ Shape(f) /\ Grip(f) /\ f.at = "spawn"
    BY DEF TypeInv, TypeOK, Spawn
  <1>2. EntryOf(f) \in Entries /\ f.r \in Runs
    BY <1>1, EntryOfIsOne DEF Grip
  <1>3. /\ h \in Frame /\ h.at = "spawned" /\ h.op = f.op
        /\ h.n = f.n /\ h.i = f.i /\ h.g = f.g /\ h.r = f.r /\ h.cmd = f.cmd
        /\ h.mine = f.mine /\ h.todo = f.todo
    BY <1>1 DEF Frame, At
  <1>4. /\ req' = [req EXCEPT ![q] = h] /\ child' = [child EXCEPT ![f.r] = "live"]
        /\ UNCHANGED <<stored, file, opLock, processes, proc, gen, runs, entry,
                       killed, closed, panicked, monitor, reused, lost>>
    BY DEF Spawn, Goto, project, table, history
  <1> HIDE DEF h
  <1>5. Shape(h)
    BY <1>1, <1>3 DEF Shape
  <1>6. /\ req'[q] = h /\ \A p \in Requests \ {q} : req'[p] = req[p]
        /\ child'[f.r] = "live" /\ \A x \in Runs \ {f.r} : child'[x] = child[x]
    BY <1>2, <1>4 DEF TypeInv, TypeOK
  <1> QED BY <1>1, <1>2, <1>3, <1>4, <1>5, <1>6, Zenon DEF h

LEMMA SpawnType ==
    ASSUME TypeInv, NEW q \in Requests, Spawn(q)
    PROVE  TypeInv'
  <1> DEFINE f == req[q]  h == [f EXCEPT !.at = "spawned"]
  <1>1. /\ Grip(f) /\ f.at = "spawn" /\ f.r \in Runs
        /\ h \in Frame /\ Shape(h) /\ h.at = "spawned"
        /\ h.n = f.n /\ h.g = f.g /\ h.r = f.r
        /\ req' = [req EXCEPT ![q] = h] /\ child' = [child EXCEPT ![f.r] = "live"]
        /\ UNCHANGED <<stored, file, opLock, processes, proc, gen, runs, entry,
                       killed, closed, panicked, monitor, reused, lost>>
    BY SpawnFacts, Zenon
  <1> HIDE DEF h
  <1>2. TypeOK'
    BY <1>1 DEF TypeInv, TypeOK, Child
  <1>3. \A p \in Requests : Shape(req[p])' /\ Grip(req[p])'
    <2>1. /\ h.r \in Runs /\ entry[h.r] \in Entries
          /\ h.g \in 1 .. gen[h.n] /\ proc'[<<h.n, h.g>>].done # 0
      BY <1>1 DEF Grip, EntryOf
    <2> QED BY <1>1, <2>1, HoldersStay
  <1>4. \A x \in Runs : Watch(x)'
    BY <1>1 DEF TypeInv, Watch
  <1> QED BY <1>1, <1>2, <1>3, <1>4 DEF TypeInv

LEMMA StartEndFacts ==
    ASSUME TypeInv, NEW q \in Requests, StartEnd(q)
    PROVE  LET f == req[q]
               e == EntryOf(f)
               b == [f EXCEPT !.mine = @ \cup {f.r}]
               h == StartReturns(b, TRUE)
           IN /\ f \in Frame /\ Shape(f) /\ f.at = "spawned"
              /\ e \in Entries /\ f.r \in Runs /\ proc[e].done \in Runs
              /\ entry[f.r] \in Entries
              /\ b \in Frame /\ Shape(b) /\ b.at = f.at /\ b.op = f.op /\ b.i = f.i
              /\ b.n = f.n /\ b.mine = f.mine \cup {f.r}
              /\ h \in Frame /\ Shape(h)
              /\ h.at \notin {"spawn", "spawned", "wait", "reap", "after"}
              /\ req' = [req EXCEPT ![q] = h] /\ req'[q] = h
              /\ \A p \in Requests \ {q} : req'[p] = req[p]
              /\ proc' \in [Entries -> Entry]
              /\ proc'[e].status = "running" /\ proc'[e].cmd = proc[e].cmd
              /\ proc'[e].cancel = proc[e].cancel /\ proc'[e].done = proc[e].done
              /\ \A x \in Entries \ {e} : proc'[x] = proc[x]
              /\ monitor' \in [Runs -> Monitor]
              /\ monitor'[f.r].at = "wait" /\ monitor'[f.r].done = proc[e].done
              /\ \A x \in Runs \ {f.r} : monitor'[x] = monitor[x]
              /\ UNCHANGED <<stored, file, opLock, processes, gen, runs, entry,
                             child, killed, closed, panicked, reused, lost>>
  <1> DEFINE f == req[q]  e == EntryOf(f)  b == [f EXCEPT !.mine = @ \cup {f.r}]
             h == StartReturns(b, TRUE)
             w == [at |-> "wait", done |-> proc[e].done, cancel |-> 0]
  <1>1. f \in Frame /\ Shape(f) /\ Grip(f) /\ f.at = "spawned"
    BY DEF TypeInv, TypeOK, StartEnd
  <1>2. e \in Entries /\ proc[e] \in Entry
    BY <1>1, EntryOfIsOne
  <1>3. f.r \in Runs /\ entry[f.r] \in Entries /\ proc[e].done \in Runs
    BY <1>1, <1>2, AdminAssumption DEF Grip, Entry, Runs
  <1>4. /\ b \in Frame /\ b.at = f.at /\ b.op = f.op /\ b.i = f.i /\ b.n = f.n
        /\ b.mine = f.mine \cup {f.r}
    BY <1>1, <1>3 DEF Frame
  <1>5. /\ req' = [req EXCEPT ![q] = h]
        /\ proc' = [proc EXCEPT ![e].status = "running"]
        /\ monitor' = [monitor EXCEPT ![f.r] = w]
        /\ UNCHANGED <<stored, file, opLock, processes, gen, runs, entry, child,
                       killed, closed, panicked, reused, lost>>
    BY DEF StartEnd, Goto, project, os, history
  <1>6. /\ w \in Monitor /\ w.at = "wait" /\ w.done = proc[e].done
    BY <1>3, AdminAssumption DEF Monitor, Runs
  <1> HIDE DEF b, h, e, w
  <1>7. Shape(b)
    BY <1>1, <1>4 DEF Shape
  <1>8. /\ h \in Frame /\ Shape(h)
        /\ h.at \notin {"spawn", "spawned", "wait", "reap", "after"}
    BY <1>1, <1>4, <1>7, StartReturnsShape DEF h
  <1>9. /\ \A x \in Entries \ {e} : proc'[x] = proc[x]
        /\ proc'[e] = [proc[e] EXCEPT !.status = "running"]
        /\ proc' \in [Entries -> Entry]
    BY <1>2, <1>5 DEF TypeInv, TypeOK, Entry
  <1>10. /\ proc'[e].status = "running" /\ proc'[e].cmd = proc[e].cmd
         /\ proc'[e].cancel = proc[e].cancel /\ proc'[e].done = proc[e].done
    BY <1>2, <1>9 DEF Entry
  <1>11. /\ req'[q] = h /\ \A p \in Requests \ {q} : req'[p] = req[p]
         /\ monitor'[f.r] = w /\ \A x \in Runs \ {f.r} : monitor'[x] = monitor[x]
         /\ monitor' \in [Runs -> Monitor]
    BY <1>3, <1>5, <1>6 DEF TypeInv, TypeOK
  <1>12. monitor'[f.r].at = "wait" /\ monitor'[f.r].done = proc[e].done
    BY <1>6, <1>11
  <1> QED BY <1>1, <1>2, <1>3, <1>4, <1>5, <1>7, <1>8, <1>9, <1>10, <1>11, <1>12, Zenon
          DEF h, e, b

LEMMA StartEndType ==
    ASSUME TypeInv, NEW q \in Requests, StartEnd(q)
    PROVE  TypeInv'
  <1> DEFINE f == req[q]  e == EntryOf(f)
             h == StartReturns([f EXCEPT !.mine = @ \cup {f.r}], TRUE)
  <1>1. /\ e \in Entries /\ f.r \in Runs /\ proc[e].done \in Runs
        /\ entry[f.r] \in Entries /\ h \in Frame /\ Shape(h)
        /\ h.at \notin {"spawn", "spawned", "wait", "reap", "after"}
        /\ req' = [req EXCEPT ![q] = h] /\ proc' \in [Entries -> Entry]
        /\ proc'[e].done = proc[e].done
        /\ \A x \in Entries \ {e} : proc'[x] = proc[x]
        /\ monitor' \in [Runs -> Monitor]
        /\ monitor'[f.r].at = "wait" /\ monitor'[f.r].done = proc[e].done
        /\ \A x \in Runs \ {f.r} : monitor'[x] = monitor[x]
        /\ UNCHANGED <<stored, file, opLock, processes, gen, runs, entry, child,
                       killed, closed, panicked, reused, lost>>
    BY StartEndFacts, Zenon
  <1> HIDE DEF e, h, f
  <1>2. TypeOK'
    BY <1>1 DEF TypeInv, TypeOK
  <1>3. \A x \in Entries : proc'[x].done = proc[x].done
    BY <1>1
  <1>4. \A p \in Requests : Shape(req[p])' /\ Grip(req[p])'
    BY <1>1, <1>3, HoldersStay
  <1>5. \A x \in Runs : Watch(x)'
    <2>1. proc[e].done # 0
      BY <1>1, RunsAreCounted
    <2> QED BY <1>1, <2>1 DEF TypeInv, Watch
  <1> QED BY <1>1, <1>2, <1>4, <1>5 DEF TypeInv

\* pm.Stop up to SIGTERM, for a request that comes to it as f.
LEMMA StopBeginFacts ==
    ASSUME TypeInv, NEW q \in Requests, NEW f \in Frame, Shape(f), StopBegin(q, f)
    PROVE  LET n == f.n
               e == <<n, processes[n]>>
               h == req'[q]
           IN /\ f.at = "stop" /\ n \in Names /\ e \in Entries
              /\ processes[n] \in 1 .. gen[n]
              /\ h \in Frame /\ Shape(h) /\ h.at \in {"wait", "after"}
              /\ h.g = processes[n] /\ h.n = n /\ h.op = f.op /\ h.i = f.i
              /\ h.mine = f.mine /\ h.todo = f.todo
              /\ h.r = proc[e].done /\ h.cmd = proc[e].cmd
              /\ h.at = "wait" => h.cmd # 0
              /\ h.at = "after" => proc[e].cmd \notin {r \in Runs : child[r] # "command"}
              /\ req' = [req EXCEPT ![q] = h]
              /\ \A p \in Requests \ {q} : req'[p] = req[p]
              /\ proc[e].status = "running" /\ proc' \in [Entries -> Entry]
              /\ proc'[e].status = "stopping" /\ proc'[e].cmd = proc[e].cmd
              /\ proc'[e].cancel = proc[e].cancel /\ proc'[e].done = proc[e].done
              /\ \A x \in Entries \ {e} : proc'[x] = proc[x]
              /\ UNCHANGED <<stored, file, opLock, processes, gen, runs, entry, child,
                             killed, closed, panicked, monitor, reused, lost>>
  <1> DEFINE n == f.n  e == <<n, processes[n]>>
             h(at) == [f EXCEPT !.at = at, !.g = processes[n], !.r = proc[e].done,
                                !.cmd = proc[e].cmd]
  <1>1. f.at = "stop" /\ n \in Names /\ processes[n] # 0
    BY DEF StopBegin, Shape
  <1>2. /\ e \in Entries /\ processes[n] \in 1 .. gen[n] /\ processes[n] \in 0 .. MaxGen
        /\ proc[e] \in Entry
    BY <1>1, EntryIsOne
  <1>3. proc[e].cmd \in 0 .. MaxRuns /\ proc[e].done \in 0 .. MaxRuns
    BY <1>2 DEF Entry
  <1>4. PICK at \in {"wait", "after"} :
           /\ at = "wait" => proc[e].cmd # 0
           /\ at = "after" => proc[e].cmd \notin {r \in Runs : child[r] # "command"}
           /\ req' = [req EXCEPT ![q] = h(at)]
    BY DEF StopBegin, Goto
  <1>5. /\ proc[e].status = "running"
        /\ proc' = [proc EXCEPT ![e].status = "stopping"]
        /\ UNCHANGED <<stored, file, opLock, processes, gen, runs, entry, child,
                       killed, closed, panicked, monitor, reused, lost>>
    BY DEF StopBegin, project, os, history
  <1> HIDE DEF e
  <1>6. h(at) \in Frame
    BY <1>2, <1>3 DEF Frame, At
  <1>7. /\ h(at).op = f.op /\ h(at).n = n /\ h(at).i = f.i /\ h(at).g = processes[n]
        /\ h(at).cmd = proc[e].cmd /\ h(at).r = proc[e].done /\ h(at).at = at
        /\ h(at).mine = f.mine /\ h(at).todo = f.todo
    BY DEF Frame
  <1> HIDE DEF h
  <1>8. Shape(h(at))
    BY <1>1, <1>7 DEF Shape
  <1>9. req'[q] = h(at) /\ \A p \in Requests \ {q} : req'[p] = req[p]
    BY <1>4 DEF TypeInv, TypeOK
  <1>10. /\ \A x \in Entries \ {e} : proc'[x] = proc[x]
         /\ proc'[e] = [proc[e] EXCEPT !.status = "stopping"]
         /\ proc' \in [Entries -> Entry]
    BY <1>2, <1>5 DEF TypeInv, TypeOK, Entry
  <1>11. /\ proc'[e].status = "stopping" /\ proc'[e].cmd = proc[e].cmd
         /\ proc'[e].cancel = proc[e].cancel /\ proc'[e].done = proc[e].done
    BY <1>2, <1>10 DEF Entry
  <1>12. /\ req'[q] \in Frame /\ Shape(req'[q]) /\ req' = [req EXCEPT ![q] = req'[q]]
         /\ req'[q].op = f.op /\ req'[q].n = n /\ req'[q].i = f.i
         /\ req'[q].g = processes[n] /\ req'[q].cmd = proc[e].cmd
         /\ req'[q].r = proc[e].done /\ req'[q].at = at
         /\ req'[q].mine = f.mine /\ req'[q].todo = f.todo
    <2>1. req' = [req EXCEPT ![q] = req'[q]]
      BY <1>4, <1>9
    <2> QED BY <1>6, <1>7, <1>8, <1>9, <2>1
  <1> QED BY <1>1, <1>2, <1>4, <1>5, <1>9, <1>10, <1>11, <1>12, Zenon DEF e

LEMMA StopBeginType ==
    ASSUME TypeInv, NEW q \in Requests, NEW f \in Frame, Shape(f), StopBegin(q, f)
    PROVE  TypeInv'
  <1> DEFINE n == f.n  e == <<n, processes[n]>>
  <1>0. PICK h : h = req'[q]
    OBVIOUS
  <1>1. /\ n \in Names /\ e \in Entries /\ processes[n] \in 1 .. gen[n]
        /\ h \in Frame /\ Shape(h) /\ h.at \in {"wait", "after"}
        /\ h.g = processes[n] /\ h.n = n
        /\ h.at = "wait" => h.cmd # 0
        /\ req' = [req EXCEPT ![q] = h] /\ proc' \in [Entries -> Entry]
        /\ proc'[e].done = proc[e].done
        /\ \A x \in Entries \ {e} : proc'[x] = proc[x]
        /\ UNCHANGED <<stored, file, opLock, processes, gen, runs, entry, child,
                       killed, closed, panicked, monitor, reused, lost>>
    BY <1>0, StopBeginFacts, Zenon
  <1> HIDE DEF e
  <1>2. TypeOK'
    BY <1>1 DEF TypeInv, TypeOK
  <1>3. \A x \in Entries : proc'[x].done = proc[x].done
    BY <1>1
  <1>4. \A p \in Requests : Shape(req[p])' /\ Grip(req[p])'
    BY <1>1, <1>3, HoldersStay
  <1>5. \A x \in Runs : Watch(x)'
    BY <1>1 DEF TypeInv, Watch
  <1> QED BY <1>1, <1>2, <1>4, <1>5 DEF TypeInv

\* The clean-up of pm.Stop.
LEMMA StopEndFacts ==
    ASSUME TypeInv, NEW q \in Requests, StopEnd(q)
    PROVE  LET f == req[q]
               e == EntryOf(f)
               h == StopReturns(f)
           IN /\ f \in Frame /\ Shape(f) /\ f.at = "after" /\ e \in Entries
              /\ h \in Frame /\ Shape(h)
              /\ h.at \notin {"spawn", "spawned", "wait", "reap", "after"}
              /\ req' = [req EXCEPT ![q] = h] /\ req'[q] = h
              /\ \A p \in Requests \ {q} : req'[p] = req[p]
              /\ proc' \in [Entries -> Entry]
              /\ proc[e].done # f.r => proc'[e] = proc[e]
              /\ proc'[e].status = proc[e].status /\ proc'[e].cmd = proc[e].cmd
              /\ proc'[e].done = proc[e].done
              /\ \A x \in Entries \ {e} : proc'[x] = proc[x]
              /\ killed' \subseteq Runs
              /\ UNCHANGED <<stored, file, opLock, processes, gen, runs, entry, child,
                             closed, panicked, monitor, reused, lost>>
  <1> DEFINE f == req[q]  e == EntryOf(f)  h == StopReturns(f)
  <1>1. f \in Frame /\ Shape(f) /\ f.at = "after"
    BY DEF TypeInv, TypeOK, StopEnd
  <1>2. e \in Entries /\ proc[e] \in Entry
    BY <1>1, EntryOfIsOne
  <1>3. /\ h \in Frame /\ Shape(h)
        /\ h.at \notin {"spawn", "spawned", "wait", "reap", "after"}
    BY <1>1, StopReturnsShape
  <1>4. /\ req' = [req EXCEPT ![q] = h]
        /\ proc' = IF proc[e].done = f.r THEN [proc EXCEPT ![e].cancel = 0] ELSE proc
        /\ killed' \subseteq killed \cup ({proc[e].cancel} \ {0})
        /\ UNCHANGED <<stored, file, opLock, processes, gen, runs, entry, child,
                       closed, panicked, monitor, reused, lost>>
    BY DEF StopEnd, Goto, project, history, Kill
  <1> HIDE DEF h, e
  <1>5. proc[e].cancel \in 0 .. MaxRuns /\ 0 \in 0 .. MaxRuns
    BY <1>2, AdminAssumption DEF Entry
  <1>6. killed' \subseteq Runs
    BY <1>4, <1>5, AdminAssumption DEF Runs, TypeInv, TypeOK
  <1>7. proc' \in [Entries -> Entry]
    BY <1>2, <1>4, <1>5 DEF TypeInv, TypeOK, Entry
  <1>8. /\ \A x \in Entries \ {e} : proc'[x] = proc[x]
        /\ proc[e].done # f.r => proc'[e] = proc[e]
        /\ proc'[e].status = proc[e].status /\ proc'[e].cmd = proc[e].cmd
        /\ proc'[e].done = proc[e].done
    BY <1>2, <1>4 DEF TypeInv, TypeOK, Entry
  <1>9. req'[q] = h /\ \A p \in Requests \ {q} : req'[p] = req[p]
    BY <1>4 DEF TypeInv, TypeOK
  <1> QED BY <1>1, <1>2, <1>3, <1>4, <1>6, <1>7, <1>8, <1>9, Zenon DEF h, e

LEMMA StopEndType ==
    ASSUME TypeInv, NEW q \in Requests, StopEnd(q)
    PROVE  TypeInv'
  <1> DEFINE f == req[q]  e == EntryOf(f)  h == StopReturns(f)
  <1>1. /\ e \in Entries /\ h \in Frame /\ Shape(h)
        /\ h.at \notin {"spawn", "spawned", "wait", "reap", "after"}
        /\ req' = [req EXCEPT ![q] = h] /\ proc' \in [Entries -> Entry]
        /\ proc'[e].done = proc[e].done
        /\ \A x \in Entries \ {e} : proc'[x] = proc[x]
        /\ killed' \subseteq Runs
        /\ UNCHANGED <<stored, file, opLock, processes, gen, runs, entry, child,
                       closed, panicked, monitor, reused, lost>>
    BY StopEndFacts, Zenon
  <1> HIDE DEF e, h, f
  <1>2. TypeOK'
    BY <1>1 DEF TypeInv, TypeOK
  <1>3. \A x \in Entries : proc'[x].done = proc[x].done
    BY <1>1
  <1>4. \A p \in Requests : Shape(req[p])' /\ Grip(req[p])'
    BY <1>1, <1>3, HoldersStay
  <1>5. \A x \in Runs : Watch(x)'
    BY <1>1 DEF TypeInv, Watch
  <1> QED BY <1>1, <1>2, <1>4, <1>5 DEF TypeInv

\* RemoveProcess, and the end of Create, take entries out of the table, but none
\* that is busy.
LEMMA RemoveFacts ==
    ASSUME TypeInv, NEW q \in Requests, RemoveProcess(q) \/ CreateEnd(q)
    PROVE  LET h == req'[q]
           IN /\ h \in Frame /\ Shape(h) /\ req' = [req EXCEPT ![q] = h]
              /\ \A p \in Requests \ {q} : req'[p] = req[p]
              /\ h = Idle \/ (h.at \in {"remove", "forget"} /\ h.mine = req[q].mine)
              /\ req[q].at \in {"save", "remove"} /\ (req[q].at = "save" <=> h = Idle)
              /\ processes' \in [Names -> 0 .. MaxGen]
              /\ \A n \in Names : processes'[n] # processes[n] =>
                    processes'[n] = 0 /\ ~Busy(n)
              /\ stored' \in BOOLEAN /\ file' \in BOOLEAN
              /\ UNCHANGED <<opLock, proc, gen, runs, entry, child, killed, closed,
                             panicked, monitor, reused, lost>>
  <1>1. CASE RemoveProcess(q)
    <2> DEFINE f == req[q]  n == Declared[f.i]
               h == IF f.i < Len(Declared) THEN [f EXCEPT !.i = @ + 1]
                    ELSE [f EXCEPT !.at = "forget"]
    <2>1. f \in Frame /\ Shape(f) /\ f.at = "remove"
      BY <1>1 DEF TypeInv, TypeOK, RemoveProcess
    <2>2. f.i \in 1 .. Len(Declared) /\ f.op = "delete"
      BY <2>1 DEF Shape
    <2>3. n \in Names
      BY <2>2, Positions DEF Names
    <2>4. f.i < Len(Declared) => f.i + 1 \in 1 .. Len(Declared)
                                 /\ f.i + 1 \in 0 .. Len(Declared) + 1
      BY <2>2, Positions
    <2>5. /\ h \in Frame /\ h.op = "delete" /\ h.at \in {"remove", "forget"}
          /\ h.at = "remove" => h.i \in 1 .. Len(Declared)
          /\ h.mine = f.mine
      <3>1. CASE f.i < Len(Declared)
        BY <2>1, <2>2, <2>4, <3>1 DEF Frame, At
      <3>2. CASE ~(f.i < Len(Declared))
        BY <2>1, <2>2, <3>2 DEF Frame, At
      <3> QED BY <3>1, <3>2
    <2>6. /\ req' = [req EXCEPT ![q] = h]
          /\ processes' = IF Busy(n) THEN processes ELSE [processes EXCEPT ![n] = 0]
          /\ UNCHANGED <<stored, file, opLock, proc, gen, runs, entry, child, killed,
                         closed, panicked, monitor, reused, lost>>
      BY <1>1 DEF RemoveProcess, Goto, project, os, history
    <2> HIDE DEF h, n
    <2>7. Shape(h)
      BY <2>5 DEF Shape
    <2>8. h # Idle
      BY <2>5 DEF Idle
    <2>9. /\ processes' \in [Names -> 0 .. MaxGen]
          /\ \A x \in Names : processes'[x] # processes[x] =>
                processes'[x] = 0 /\ ~Busy(x)
      <3>1. 0 \in 0 .. MaxGen
        BY AdminAssumption
      <3> QED BY <2>3, <2>6, <3>1 DEF TypeInv, TypeOK
    <2>10. req'[q] = h /\ \A p \in Requests \ {q} : req'[p] = req[p]
      BY <2>6 DEF TypeInv, TypeOK
    <2>11. stored \in BOOLEAN /\ file \in BOOLEAN
      BY DEF TypeInv, TypeOK
    <2> QED BY <2>1, <2>5, <2>6, <2>7, <2>8, <2>9, <2>10, <2>11
  <1>2. CASE CreateEnd(q)
    <2>1. /\ req[q].at = "save" /\ req' = [req EXCEPT ![q] = Idle]
          /\ \/ processes' = processes
             \/ processes' = [n \in Names |-> IF n \in Instances /\ ~Busy(n)
                                              THEN 0 ELSE processes[n]]
          /\ UNCHANGED <<opLock, proc, gen, runs, entry, child, killed,
                         closed, panicked, monitor, reused, lost>>
      BY <1>2 DEF CreateEnd, Goto, os, history
    <2>2. stored' \in BOOLEAN /\ file' \in BOOLEAN
      BY <1>2 DEF CreateEnd, TypeInv, TypeOK
    <2>3. /\ processes' \in [Names -> 0 .. MaxGen]
          /\ \A x \in Names : processes'[x] # processes[x] =>
                processes'[x] = 0 /\ ~Busy(x)
      <3>1. 0 \in 0 .. MaxGen
        BY AdminAssumption
      <3> QED BY <2>1, <3>1 DEF TypeInv, TypeOK
    <2>4. req'[q] = Idle /\ \A p \in Requests \ {q} : req'[p] = req[p]
      BY <2>1 DEF TypeInv, TypeOK
    <2> QED BY <2>1, <2>2, <2>3, <2>4, IdleShape
  <1> QED BY <1>1, <1>2

LEMMA RemoveType ==
    ASSUME TypeInv, NEW q \in Requests, RemoveProcess(q) \/ CreateEnd(q)
    PROVE  TypeInv'
  <1>0. PICK h : h = req'[q]
    OBVIOUS
  <1>1. /\ h \in Frame /\ Shape(h) /\ req' = [req EXCEPT ![q] = h]
        /\ h = Idle \/ h.at \in {"remove", "forget"}
        /\ processes' \in [Names -> 0 .. MaxGen]
        /\ \A n \in Names : processes'[n] # processes[n] => processes'[n] = 0
        /\ stored' \in BOOLEAN /\ file' \in BOOLEAN
        /\ UNCHANGED <<opLock, proc, gen, runs, entry, child, killed, closed,
                       panicked, monitor, reused, lost>>
    BY <1>0, RemoveFacts, Zenon
  <1>2. TypeOK'
    BY <1>1 DEF TypeInv, TypeOK
  <1>3. \A x \in Names : processes'[x] <= gen'[x]
    <2>1. \A x \in Names : gen[x] \in Nat /\ processes[x] <= gen[x] /\ 0 <= gen[x]
      BY AdminAssumption DEF TypeInv, TypeOK
    <2>2. \A x \in Names : processes'[x] \in {processes[x], 0}
      BY <1>1
    <2> QED BY <1>1, <2>1, <2>2
  <1>4. h.at \notin {"spawn", "spawned", "wait", "reap", "after"}
    BY <1>1 DEF Idle
  <1>5. \A p \in Requests : Shape(req[p])' /\ Grip(req[p])'
    BY <1>1, <1>4, HoldersStay
  <1>6. \A x \in Runs : Watch(x)'
    BY <1>1 DEF TypeInv, Watch
  <1> QED BY <1>2, <1>3, <1>5, <1>6 DEF TypeInv

LEMMA AddType ==
    ASSUME TypeInv, NEW S \in SUBSET Names, AddProcesses(S)
    PROVE  /\ gen' \in [Names -> 0 .. MaxGen] /\ proc' \in [Entries -> Entry]
           /\ \A n \in Names : gen[n] <= gen'[n] /\ gen'[n] \in Nat
           /\ \A n \in S : gen'[n] = gen[n] + 1
           /\ \A e \in Entries : e[2] <= gen[e[1]] => proc'[e] = proc[e]
           /\ \A e \in Entries : proc'[e] \in {Fresh, proc[e]}
  <1>1. \A n \in Names : /\ gen[n] \in Nat /\ gen[n] \in 0 .. MaxGen
                         /\ n \in S => gen[n] + 1 \in 0 .. MaxGen
    BY AdminAssumption DEF AddProcesses, TypeInv, TypeOK
  <1>2. \A n \in Names : gen'[n] = IF n \in S THEN gen[n] + 1 ELSE gen[n]
    BY DEF AddProcesses
  <1>3. gen' \in [Names -> 0 .. MaxGen]
    BY <1>1 DEF AddProcesses
  <1>4. \A e \in Entries : e[1] \in Names /\ e[2] \in Nat
    BY DEF Entries
  <1>5. \A e \in Entries :
           proc'[e] = IF e[1] \in S /\ e[2] = gen'[e[1]] THEN Fresh ELSE proc[e]
    BY DEF AddProcesses
  <1>6. Fresh \in Entry
    BY AdminAssumption DEF Fresh, Entry
  <1>7. proc' \in [Entries -> Entry]
    BY <1>5, <1>6 DEF AddProcesses, TypeInv, TypeOK
  <1> QED BY <1>1, <1>2, <1>3, <1>4, <1>5, <1>7

\* The first half of Create: new entries under the names of the project.
LEMMA CreateFacts ==
    ASSUME TypeInv, NEW q \in Requests, Create(q)
    PROVE  LET h == [Idle EXCEPT !.op = "create", !.at = "save"]
           IN /\ req[q] = Idle
              /\ h \in Frame /\ Shape(h) /\ h.at = "save" /\ h.mine = {}
              /\ req' = [req EXCEPT ![q] = h] /\ req'[q] = h
              /\ \A p \in Requests \ {q} : req'[p] = req[p]
              /\ gen' \in [Names -> 0 .. MaxGen] /\ proc' \in [Entries -> Entry]
              /\ \A n \in Names : gen[n] <= gen'[n] /\ gen'[n] \in Nat
              /\ \A e \in Entries : e[2] <= gen[e[1]] => proc'[e] = proc[e]
              /\ \A e \in Entries : proc'[e] \in {Fresh, proc[e]}
              /\ processes' \in [Names -> 0 .. MaxGen]
              /\ \A n \in Names : processes'[n] <= gen'[n]
              /\ \A n \in Names \ Instances : processes'[n] = processes[n]
              /\ lost \subseteq lost' /\ lost' \subseteq Runs
              /\ \A r \in Runs : (\E n \in Instances : entry[r] = <<n, processes[n]>>)
                                    => r \in lost'
              /\ \A r \in Runs : r \in lost' => r \in lost \/ \E n \in Instances :
                                                      entry[r] = <<n, processes[n]>>
              /\ UNCHANGED <<stored, file, opLock, runs, entry, child, killed, closed,
                             panicked, monitor, reused>>
  <1> DEFINE h == [Idle EXCEPT !.op = "create", !.at = "save"]
  <1>1. h \in Frame /\ h.at = "save" /\ h.op = "create" /\ h.mine = {}
    BY IdleShape DEF Idle, Frame, Ops, At
  <1>2. /\ req[q] = Idle /\ req' = [req EXCEPT ![q] = h]
        /\ AddProcesses(Instances)
        /\ processes' = [n \in Names |->
                           IF n \in Instances THEN gen'[n] ELSE processes[n]]
        /\ lost' = lost \cup {r \in Runs :
                                \E n \in Instances : entry[r] = <<n, processes[n]>>}
        /\ UNCHANGED <<stored, file, opLock, runs, entry, child, killed, closed,
                       panicked, monitor, reused>>
    BY DEF Create, Goto, project, os
  <1> HIDE DEF h
  <1>3. Shape(h)
    BY <1>1 DEF Shape
  <1>4. req'[q] = h /\ \A p \in Requests \ {q} : req'[p] = req[p]
    BY <1>2 DEF TypeInv, TypeOK
  <1>5. Instances \in SUBSET Names
    BY DEF Names
  <1>6. /\ gen' \in [Names -> 0 .. MaxGen] /\ proc' \in [Entries -> Entry]
        /\ \A n \in Names : gen[n] <= gen'[n] /\ gen'[n] \in Nat
        /\ \A e \in Entries : e[2] <= gen[e[1]] => proc'[e] = proc[e]
        /\ \A e \in Entries : proc'[e] \in {Fresh, proc[e]}
    BY <1>2, <1>5, AddType
  <1>7. \A n \in Names : /\ processes[n] \in Nat /\ gen[n] \in Nat
                         /\ processes[n] <= gen[n] /\ processes[n] \in 0 .. MaxGen
    BY AdminAssumption DEF TypeInv, TypeOK
  <1>8. /\ processes' \in [Names -> 0 .. MaxGen]
        /\ \A n \in Names : processes'[n] <= gen'[n]
        /\ \A n \in Names \ Instances : processes'[n] = processes[n]
    <2>1. \A n \in Names : processes'[n] = IF n \in Instances THEN gen'[n]
                                                            ELSE processes[n]
      BY <1>2
    <2>2. \A n \in Names : processes'[n] \in 0 .. MaxGen
      BY <1>6, <1>7, <2>1
    <2>3. processes' \in [Names -> 0 .. MaxGen]
      BY <1>2, <2>2
    <2> QED BY <1>6, <1>7, <2>1, <2>3
  <1>9. lost \subseteq lost' /\ lost' \subseteq Runs
    BY <1>2 DEF TypeInv, TypeOK
  <1> QED BY <1>1, <1>2, <1>3, <1>4, <1>6, <1>8, <1>9 DEF h

LEMMA CreateType ==
    ASSUME TypeInv, NEW q \in Requests, Create(q)
    PROVE  TypeInv'
  <1> DEFINE h == [Idle EXCEPT !.op = "create", !.at = "save"]
  <1>1. /\ h \in Frame /\ Shape(h) /\ h.at = "save"
        /\ req' = [req EXCEPT ![q] = h]
        /\ gen' \in [Names -> 0 .. MaxGen] /\ proc' \in [Entries -> Entry]
        /\ \A n \in Names : gen[n] <= gen'[n] /\ gen'[n] \in Nat
        /\ \A e \in Entries : e[2] <= gen[e[1]] => proc'[e] = proc[e]
        /\ processes' \in [Names -> 0 .. MaxGen]
        /\ \A n \in Names : processes'[n] <= gen'[n]
        /\ lost' \subseteq Runs
        /\ UNCHANGED <<stored, file, opLock, runs, entry, child, killed, closed,
                       panicked, monitor, reused>>
    BY CreateFacts, Zenon
  <1> HIDE DEF h
  <1>2. TypeOK'
    BY <1>1 DEF TypeInv, TypeOK
  <1>3. \A p \in Requests : Shape(req[p])' /\ Grip(req[p])'
    BY <1>1, HoldersKeep
  <1>4. \A r \in Runs : Watch(r)'
    <2>1. ASSUME NEW r \in Runs, entry[r] \in Entries
          PROVE  entry[r][2] <= gen'[entry[r][1]]
      <3>1. entry[r][2] <= gen[entry[r][1]]
        BY <2>1 DEF TypeInv, Watch
      <3>2. entry[r][1] \in Names /\ entry[r][2] \in Nat
        BY <2>1 DEF Entries
      <3>3. gen[entry[r][1]] \in Nat
        BY <3>2, AdminAssumption DEF TypeInv, TypeOK
      <3> QED BY <1>1, <3>1, <3>2, <3>3
    <2> QED BY <1>1, <2>1 DEF TypeInv, Watch
  <1> QED BY <1>1, <1>2, <1>3, <1>4 DEF TypeInv

\* The end of the program and its next start.
LEMMA RestartFacts ==
    ASSUME TypeInv, NEW q \in Requests, Restart(q)
    PROVE  /\ gen' \in [Names -> 0 .. MaxGen] /\ proc' = [e \in Entries |-> Fresh]
           /\ \A n \in Names : gen[n] <= gen'[n] /\ gen'[n] \in Nat
           /\ processes' \in [Names -> 0 .. MaxGen]
           /\ \A n \in Names : processes'[n] <= gen'[n]
           /\ stored' \in BOOLEAN /\ opLock' = None
           /\ monitor' = [r \in Runs |-> NoMonitor]
           /\ req' = [p \in Requests |-> Idle]
           /\ req[q].at = "sweep" /\ req[q].todo = {}
           /\ lost \subseteq lost' /\ lost' \subseteq Runs
           /\ \A r \in Runs : Live(r) /\ r \notin req[q].mine => r \in lost'
           /\ \A r \in Runs : Live(r) /\ BeingStopped(r) => r \in lost'
           /\ \A r \in Runs : r \in lost' => r \in lost \/ Live(r)
           /\ UNCHANGED <<file, runs, entry, child, killed, closed, panicked, reused>>
  <1> DEFINE known == Static \cup (IF file THEN Instances ELSE {})
  <1>1. /\ \A n \in known : gen[n] < MaxGen
        /\ gen' = [n \in Names |-> IF n \in known THEN gen[n] + 1 ELSE gen[n]]
        /\ proc' = [e \in Entries |-> Fresh]
        /\ processes' = [n \in Names |-> IF n \in known THEN gen'[n] ELSE 0]
        /\ stored' = file /\ opLock' = None
        /\ monitor' = [r \in Runs |-> NoMonitor]
        /\ req' = [p \in Requests |-> Idle]
        /\ req[q].at = "sweep" /\ req[q].todo = {}
        /\ lost' = lost \cup {r \in Runs :
                      Live(r) /\ (r \notin req[q].mine \/ BeingStopped(r))}
        /\ UNCHANGED <<file, runs, entry, child, killed, closed, panicked, reused>>
    BY DEF Restart, os
  <1> HIDE DEF known
  <1>2. \A n \in Names : /\ gen[n] \in 0 .. MaxGen /\ gen[n] \in Nat
                         /\ n \in known => gen[n] + 1 \in 0 .. MaxGen
    BY <1>1, AdminAssumption DEF TypeInv, TypeOK
  <1>3. /\ gen' \in [Names -> 0 .. MaxGen]
        /\ \A n \in Names : gen[n] <= gen'[n] /\ gen'[n] \in Nat
    BY <1>1, <1>2
  <1>4. /\ processes' \in [Names -> 0 .. MaxGen]
        /\ \A n \in Names : processes'[n] <= gen'[n]
    BY <1>1, <1>3, AdminAssumption
  <1>5. file \in BOOLEAN /\ lost \subseteq Runs
    BY DEF TypeInv, TypeOK
  <1> QED BY <1>1, <1>3, <1>4, <1>5

LEMMA RestartType ==
    ASSUME TypeInv, NEW q \in Requests, Restart(q)
    PROVE  TypeInv'
  <1>1. /\ gen' \in [Names -> 0 .. MaxGen] /\ proc' = [e \in Entries |-> Fresh]
        /\ \A n \in Names : gen[n] <= gen'[n] /\ gen'[n] \in Nat
        /\ processes' \in [Names -> 0 .. MaxGen]
        /\ \A n \in Names : processes'[n] <= gen'[n]
        /\ stored' \in BOOLEAN /\ opLock' = None
        /\ monitor' = [r \in Runs |-> NoMonitor]
        /\ req' = [p \in Requests |-> Idle]
        /\ lost' \subseteq Runs
        /\ UNCHANGED <<file, runs, entry, child, killed, closed, panicked, reused>>
    BY RestartFacts
  <1>2. NoMonitor \in Monitor /\ Fresh \in Entry
    BY AdminAssumption DEF NoMonitor, Monitor, Fresh, Entry
  <1>3. TypeOK'
    BY <1>1, <1>2, IdleShape DEF TypeInv, TypeOK
  <1>4. ASSUME NEW p \in Requests PROVE Shape(req[p])' /\ Grip(req[p])'
    <2>1. req'[p] = Idle
      BY <1>1
    <2>2. Shape(req'[p])
      BY <2>1, IdleShape
    <2>3. Shape(req[p])'
      BY <2>2 DEF Shape
    <2> QED BY <2>1, <2>3 DEF Grip, Idle
  <1>5. \A r \in Runs : Watch(r)'
    <2>1. ASSUME NEW r \in Runs, entry[r] \in Entries
          PROVE  entry[r][2] <= gen'[entry[r][1]]
      <3>1. entry[r][2] <= gen[entry[r][1]]
        BY <2>1 DEF TypeInv, Watch
      <3>2. entry[r][1] \in Names /\ entry[r][2] \in Nat
        BY <2>1 DEF Entries
      <3>3. gen[entry[r][1]] \in Nat
        BY <3>2, AdminAssumption DEF TypeInv, TypeOK
      <3> QED BY <1>1, <3>1, <3>2, <3>3
    <2> QED BY <1>1, <2>1 DEF Watch, NoMonitor
  <1> QED BY <1>1, <1>3, <1>4, <1>5 DEF TypeInv

\* A child that ends.
LEMMA ExitFacts ==
    ASSUME TypeInv, NEW r \in Runs, ChildExits(r)
    PROVE  /\ Live(r) /\ child'[r] = "exited" /\ child' \in [Runs -> Child]
           /\ \A x \in Runs \ {r} : child'[x] = child[x]
           /\ killed' \subseteq Runs
           /\ UNCHANGED <<stored, file, opLock, processes, proc, gen, runs, entry,
                          closed, panicked, monitor, req, reused, lost>>
  <1>1. /\ Live(r) /\ child' = [child EXCEPT ![r] = "exited"] /\ killed' = killed \ {r}
        /\ UNCHANGED <<stored, file, opLock, processes, proc, gen, runs, entry,
                       closed, panicked, monitor, req, reused, lost>>
    BY DEF ChildExits, project, table, history
  <1> QED BY <1>1 DEF TypeInv, TypeOK, Child

\* The goroutine of a child, under the lock
LEMMA LockFacts ==
    ASSUME TypeInv, NEW r \in Runs, MonitorLock(r)
    PROVE  LET e == entry[r]
           IN /\ e \in Entries /\ monitor[r].at = "wait" /\ child[r] = "exited"
              /\ proc' \in [Entries -> Entry]
              /\ proc'[e].status \in {"stopped", "failed"} /\ proc'[e].cmd = 0
              /\ proc'[e].done = proc[e].done
              /\ \A x \in Entries \ {e} : proc'[x] = proc[x]
              /\ monitor' \in [Runs -> Monitor] /\ monitor'[r].at = "unlocked"
              /\ monitor'[r].done = monitor[r].done
              /\ \A x \in Runs \ {r} : monitor'[x] = monitor[x]
              /\ UNCHANGED <<stored, file, opLock, processes, gen, runs, entry, child,
                             killed, closed, panicked, req, reused, lost>>
  <1> DEFINE e == entry[r]
             st == IF proc[e].status = "stopping" THEN "stopped" ELSE "failed"
  <1>1. e \in Entries /\ proc[e] \in Entry /\ monitor[r] \in Monitor
    BY DEF MonitorLock, TypeInv, TypeOK, Watch
  <1>2. /\ monitor[r].at = "wait" /\ child[r] = "exited"
        /\ proc' = [proc EXCEPT
              ![e].status = IF @ = "stopping" THEN "stopped" ELSE "failed",
              ![e].cmd = 0, ![e].cancel = 0]
        /\ monitor' = [monitor EXCEPT ![r].at = "unlocked",
                                      ![r].cancel = proc[e].cancel]
        /\ UNCHANGED <<stored, file, opLock, processes, gen, runs, entry, child,
                       killed, closed, panicked, req, reused, lost>>
    BY DEF MonitorLock, project, os, history
  <1>3. /\ \A x \in Entries \ {e} : proc'[x] = proc[x]
        /\ proc'[e] = [proc[e] EXCEPT !.status = st, !.cmd = 0, !.cancel = 0]
        /\ proc' = [x \in Entries |-> proc'[x]]
    BY <1>1, <1>2 DEF TypeInv, TypeOK
  <1>4. st \in {"stopped", "failed"} /\ 0 \in 0 .. MaxRuns
    BY AdminAssumption
  <1> HIDE DEF st
  <1>5. /\ proc'[e] \in Entry /\ proc'[e].status \in {"stopped", "failed"}
        /\ proc'[e].cmd = 0 /\ proc'[e].done = proc[e].done
    BY <1>1, <1>3, <1>4 DEF Entry
  <1>6. proc' \in [Entries -> Entry]
    <2>1. \A x \in Entries : proc'[x] \in Entry
      BY <1>3, <1>5 DEF TypeInv, TypeOK
    <2> QED BY <1>3, <2>1
  <1>7. /\ \A x \in Runs \ {r} : monitor'[x] = monitor[x]
        /\ monitor'[r] = [monitor[r] EXCEPT !.at = "unlocked", !.cancel = proc[e].cancel]
        /\ monitor' = [x \in Runs |-> monitor'[x]]
    BY <1>2 DEF TypeInv, TypeOK
  <1>8. proc[e].cancel \in 0 .. MaxRuns
    BY <1>1 DEF Entry
  <1>9. /\ monitor'[r] \in Monitor /\ monitor'[r].at = "unlocked"
        /\ monitor'[r].done = monitor[r].done
    BY <1>1, <1>7, <1>8 DEF Monitor
  <1>10. monitor' \in [Runs -> Monitor]
    <2>1. \A x \in Runs : monitor'[x] \in Monitor
      BY <1>7, <1>9 DEF TypeInv, TypeOK
    <2> QED BY <1>7, <2>1
  <1> QED BY <1>1, <1>2, <1>3, <1>5, <1>6, <1>7, <1>9, <1>10

\* and after the unlock.
LEMMA CloseFacts ==
    ASSUME TypeInv, NEW r \in Runs, MonitorClose(r)
    PROVE  /\ monitor[r].at = "unlocked" /\ monitor[r].done \in Runs
           /\ closed' = closed \cup {monitor[r].done}
           /\ panicked' = panicked \cup ({monitor[r].done} \cap closed)
           /\ killed' \subseteq Runs
           /\ monitor' \in [Runs -> Monitor] /\ monitor'[r].at = "ended"
           /\ \A x \in Runs \ {r} : monitor'[x] = monitor[x]
           /\ UNCHANGED <<stored, file, opLock, processes, proc, gen, runs, entry,
                          child, req, reused, lost>>
  <1> DEFINE w == [NoMonitor EXCEPT !.at = "ended"]
  <1>1. /\ monitor[r].at = "unlocked"
        /\ killed' \subseteq killed \cup ({monitor[r].cancel} \ {0})
        /\ closed' = closed \cup {monitor[r].done}
        /\ panicked' = panicked \cup ({monitor[r].done} \cap closed)
        /\ monitor' = [monitor EXCEPT ![r] = w]
        /\ UNCHANGED <<stored, file, opLock, processes, proc, gen, runs, entry,
                       child, req, reused, lost>>
    BY DEF MonitorClose, Close, Kill, project, table, history
  <1>2. monitor[r] \in Monitor /\ monitor[r].done # 0
    BY <1>1 DEF TypeInv, TypeOK, Watch
  <1>3. monitor[r].done \in Runs /\ {monitor[r].cancel} \ {0} \subseteq Runs
    BY <1>2, AdminAssumption DEF Monitor, Runs
  <1>4. w \in Monitor /\ w.at = "ended"
    BY AdminAssumption DEF NoMonitor, Monitor
  <1> HIDE DEF w
  <1>5. /\ monitor' \in [Runs -> Monitor] /\ monitor'[r] = w
        /\ \A x \in Runs \ {r} : monitor'[x] = monitor[x]
        /\ killed' \subseteq Runs
    BY <1>1, <1>3, <1>4 DEF TypeInv, TypeOK
  <1> QED BY <1>1, <1>3, <1>4, <1>5

LEMMA RunType ==
    ASSUME TypeInv, NEW r \in Runs, ChildExits(r) \/ MonitorLock(r) \/ MonitorClose(r)
    PROVE  TypeInv'
  <1>1. \A n \in Names : gen[n] <= gen[n] /\ gen[n] \in Nat
    BY AdminAssumption DEF TypeInv, TypeOK
  <1>2. CASE ChildExits(r)
    <2>1. /\ child' \in [Runs -> Child] /\ killed' \subseteq Runs
          /\ UNCHANGED <<stored, file, opLock, processes, proc, gen, runs, entry,
                         closed, panicked, monitor, req, reused, lost>>
      BY <1>2, ExitFacts
    <2>2. TypeOK'
      BY <2>1 DEF TypeInv, TypeOK
    <2>3. \A p \in Requests : Shape(req[p])' /\ Grip(req[p])'
      BY <1>1, <2>1, HolderKeeps
    <2>4. \A x \in Runs : Watch(x)'
      BY <2>1 DEF TypeInv, Watch
    <2> QED BY <2>1, <2>2, <2>3, <2>4 DEF TypeInv
  <1>3. CASE MonitorLock(r)
    <2> DEFINE e == entry[r]
    <2>1. /\ e \in Entries /\ monitor[r].at = "wait"
          /\ proc' \in [Entries -> Entry] /\ proc'[e].done = proc[e].done
          /\ \A x \in Entries \ {e} : proc'[x] = proc[x]
          /\ monitor' \in [Runs -> Monitor]
          /\ monitor'[r].done = monitor[r].done
          /\ \A x \in Runs \ {r} : monitor'[x] = monitor[x]
          /\ UNCHANGED <<stored, file, opLock, processes, gen, runs, entry, child,
                         killed, closed, panicked, req, reused, lost>>
      BY <1>3, LockFacts
    <2> HIDE DEF e
    <2>2. TypeOK'
      BY <2>1 DEF TypeInv, TypeOK
    <2>3. \A x \in Entries : proc'[x].done = proc[x].done
      BY <2>1
    <2>4. \A p \in Requests : Shape(req[p])' /\ Grip(req[p])'
      BY <1>1, <2>1, <2>3, HolderKeeps
    <2>5. \A x \in Runs : Watch(x)'
      BY <2>1 DEF TypeInv, Watch
    <2> QED BY <2>1, <2>2, <2>4, <2>5 DEF TypeInv
  <1>4. CASE MonitorClose(r)
    <2>1. /\ monitor[r].done \in Runs
          /\ closed' = closed \cup {monitor[r].done}
          /\ panicked' = panicked \cup ({monitor[r].done} \cap closed)
          /\ killed' \subseteq Runs
          /\ monitor' \in [Runs -> Monitor] /\ monitor'[r].at = "ended"
          /\ \A x \in Runs \ {r} : monitor'[x] = monitor[x]
          /\ UNCHANGED <<stored, file, opLock, processes, proc, gen, runs, entry,
                         child, req, reused, lost>>
      BY <1>4, CloseFacts
    <2>2. TypeOK'
      BY <2>1 DEF TypeInv, TypeOK
    <2>3. \A p \in Requests : Shape(req[p])' /\ Grip(req[p])'
      BY <1>1, <2>1, HolderKeeps
    <2>4. \A x \in Runs : Watch(x)'
      BY <2>1 DEF TypeInv, Watch
    <2> QED BY <2>1, <2>2, <2>3, <2>4 DEF TypeInv
  <1> QED BY <1>2, <1>3, <1>4

LEMMA TypeStart == Init => TypeInv
  <1> SUFFICES ASSUME Init PROVE TypeInv
    OBVIOUS
  <1>1. Idle \in Frame /\ Shape(Idle) /\ Grip(Idle)
    BY IdleShape DEF Grip, Idle
  <1>2. Fresh \in Entry /\ NoMonitor \in Monitor
    BY AdminAssumption DEF Fresh, Entry, NoMonitor, Monitor
  <1>3. gen \in [Names -> 0 .. MaxGen] /\ processes = gen
    BY AdminAssumption DEF Init
  <1>4. TypeOK
    <2>1. /\ proc \in [Entries -> Entry] /\ monitor \in [Runs -> Monitor]
          /\ req \in [Requests -> Frame] /\ child \in [Runs -> Child]
      BY <1>1, <1>2 DEF Init, Child
    <2>2. runs \in 0 .. MaxRuns /\ entry \in [Runs -> Entries \cup {<<None, 0>>}]
      BY AdminAssumption DEF Init
    <2> QED BY <1>3, <2>1, <2>2 DEF Init, TypeOK
  <1>5. \A n \in Names : processes[n] <= gen[n]
    BY <1>3, AdminAssumption
  <1>6. \A q \in Requests : Shape(req[q]) /\ Grip(req[q])
    BY <1>1 DEF Init
  <1>7. \A r \in Runs : Watch(r)
    <2>1. \A r \in Runs : entry[r] \notin Entries
      BY NoEntry DEF Init
    <2> QED BY <2>1 DEF Init, Watch, NoMonitor
  <1> QED BY <1>4, <1>5, <1>6, <1>7 DEF TypeInv

\* The frame with which POST /processes/{name}/start or stop comes to the
\* process manager.
LEMMA DirectShape ==
    ASSUME NEW n \in Names, NEW op \in {"pstart", "pstop"},
           NEW at \in {"start", "stop"}, op = "pstart" <=> at = "start"
    PROVE  LET h == [Idle EXCEPT !.op = op, !.at = at, !.n = n]
           IN /\ h \in Frame /\ Shape(h) /\ h.at = at /\ h.op = op /\ h.n = n
              /\ h.mine = {} /\ h.i = 0
  <1> DEFINE h == [Idle EXCEPT !.op = op, !.at = at, !.n = n]
  <1>1. h \in Frame
    BY IdleShape DEF Idle, Frame, Ops, At
  <1>2. h.at = at /\ h.op = op /\ h.n = n /\ h.mine = {} /\ h.i = 0
    BY DEF Idle
  <1> HIDE DEF h
  <1>3. Shape(h)
    BY <1>2 DEF Shape
  <1> QED BY <1>1, <1>2, <1>3 DEF h

LEMMA TypeStep == TypeInv /\ [Next]_vars => TypeInv'
  <1> SUFFICES ASSUME TypeInv, [Next]_vars PROVE TypeInv'
    OBVIOUS
  <1>1. CASE UNCHANGED vars
    BY <1>1 DEF vars, project, table, os, history, TypeInv, TypeOK, Shape, Grip,
                EntryOf, Watch
  <1>2. CASE \E r \in Runs : ChildExits(r) \/ MonitorLock(r) \/ MonitorClose(r)
    BY <1>2, RunType
  <1>3. ASSUME NEW q \in Requests, Begin(q) PROVE TypeInv'
    <2>1. ASSUME NEW n \in Names, ProcessStart(q, n) PROVE TypeInv'
      BY <2>1, DirectShape, StartBeginType DEF ProcessStart
    <2>2. ASSUME NEW n \in Names, ProcessStop(q, n) PROVE TypeInv'
      BY <2>2, DirectShape, StopBeginType DEF ProcessStop
    <2> QED BY <1>3, <2>1, <2>2, MovesType, CreateType DEF Begin
  <1>4. ASSUME NEW q \in Requests, Step(q) PROVE TypeInv'
    <2>1. req[q] \in Frame /\ Shape(req[q])
      BY DEF TypeInv, TypeOK
    <2> QED BY <1>4, <2>1, MovesType, StartBeginType, SpawnFailsType, SpawnType,
               StartEndType, StopBeginType, StopEndType, RemoveType, RestartType
            DEF Step
  <1> QED BY <1>1, <1>2, <1>3, <1>4 DEF Next

\* Every variable keeps its type, whatever requests overlap: no step of Start,
\* Stop, Create, Delete, a shutdown or a goroutine reads an entry, a run or a
\* channel that is not there.
THEOREM TypeCorrect == Spec => []TypeOK
  <1>1. TypeInv => TypeOK
    BY DEF TypeInv
  <1> QED BY <1>1, TypeStart, TypeStep, PTL DEF Spec

-----------------------------------------------------------------------------
\* Entries, runs, goroutines and requests.
\*
\* All that is said of an entry that was never started while it was stopping is
\* said with "e \notin reused"; of the others only where their runs belong.

\* x is no run, or a run of entry e.
Belongs(x, e) == x = 0 \/ (x \in Runs /\ entry[x] = e)

\* A process that is said to run has a command that a goroutine waits for.
EntryOK(e) ==
    /\ Belongs(proc[e].cmd, e) /\ Belongs(proc[e].done, e)
    /\ e \notin reused /\ proc[e].status \in {"running", "stopping"} =>
          proc[e].cmd \in Runs /\ monitor[proc[e].cmd].at = "wait"

Unused(r) ==
    /\ r <= runs => entry[r] \in Entries
    /\ r > runs => /\ entry[r] = <<None, 0>> /\ child[r] = "none"
                   /\ monitor[r].at = "none" /\ r \notin closed

\* The goroutine of r will close the channel of r, which nobody has closed yet.
Closes(r) ==
    monitor[r].at \in {"wait", "unlocked"} =>
        /\ Belongs(monitor[r].done, entry[r])
        /\ entry[r] \notin reused =>
              /\ monitor[r].done = r /\ r \notin closed
              /\ monitor[r].at = "unlocked" => child[r] = "exited"

\* The entry of r is the one its name has.
Tracked(r) == processes[entry[r][1]] = entry[r][2]

\* While the goroutine of r waits, r is what its entry is about.
Attended(r) ==
    LET p == proc[entry[r]]
    IN monitor[r].at = "wait" /\ entry[r] \notin reused =>
          /\ p.cmd = r /\ p.cancel = r /\ p.done = r
          /\ p.status \in {"running", "stopping"}
          /\ child[r] \in {"live", "exited"}
          /\ p.status = "stopping" => BeingStopped(r)
          /\ r \in lost \/ Tracked(r) \/ BeingStopped(r)

\* Every child that lives is about to get its goroutine, or has it.
Reached(r) ==
    Live(r) /\ ~Astray(r) =>
        \/ monitor[r].at = "wait"
        \/ \E q \in Requests : req[q].at = "spawned" /\ req[q].r = r

\* A request in pm.Start has the entry for itself.
Making(f) ==
    LET e == EntryOf(f)
        r == f.r
    IN f.at \in {"spawn", "spawned"} =>
          /\ entry[r] = e /\ monitor[r].at = "none"
          /\ e \notin reused =>
                /\ proc[e] = [status |-> "starting", cmd |-> r, cancel |-> r,
                              done |-> r]
                /\ r \notin closed /\ (r \in lost \/ Tracked(r))
                /\ f.at = "spawn" => child[r] = "command"
                /\ f.at = "spawned" => child[r] \in {"live", "exited"}

\* A request in pm.Stop waits for the channel of the child it stops.
Ending(f) ==
    /\ f.at \in {"wait", "reap"} =>
          /\ Belongs(f.cmd, EntryOf(f))
          /\ EntryOf(f) \notin reused => f.r = f.cmd
    /\ f.at = "after" /\ EntryOf(f) \notin reused => f.r \in closed

\* The instances up to the j-th of the order.
UpTo(j) == {Order[k] : k \in 1 .. j}

\* Request f, if it goes on stopping, has yet to come to the process n.
Ahead(f, n) ==
    /\ f.at \in {"start", "spawn", "spawned"} => n \in UpTo(f.i - 1)
    /\ f.at \in {"health", "boot"} => n \in UpTo(f.i)
    /\ f.at = "stop" /\ f.i # 0 => n \in UpTo(f.i)
    /\ f.at = "stop" /\ f.i = 0 => n \in f.todo \cup {f.n}
    /\ f.at \in {"wait", "reap", "after"} /\ f.i # 0 => n \in UpTo(f.i - 1)
    /\ f.at \in {"wait", "reap", "after"} /\ f.i = 0 => n \in f.todo
    /\ f.at = "sweep" => n \in f.todo
    /\ f.at = "unlock" => f.i > Len(Declared)
    /\ f.at \notin {"remove", "forget", "unlink"}

\* Child r, for which request f answers, is dead, is being stopped, or is yet to
\* be come to.
Answers(f, r) ==
    ~Astray(r) =>
        /\ child[r] \in {"live", "exited"}
        /\ Live(r) => /\ monitor[r].at = "wait"
                      /\ BeingStopped(r) \/ Ahead(f, entry[r][1])

RunOK(r) == Unused(r) /\ Closes(r) /\ Attended(r) /\ Reached(r)
RequestOK(f) == Making(f) /\ Ending(f) /\ \A r \in f.mine : Answers(f, r)

\* Two calls of pm.Start make two runs.
Apart ==
    \A p, q \in Requests :
        /\ p # q
        /\ req[p].at \in {"spawn", "spawned"} /\ req[q].at \in {"spawn", "spawned"}
        => req[p].r # req[q].r

MainInv ==
    /\ \A e \in Entries : EntryOK(e)
    /\ \A r \in Runs : RunOK(r)
    /\ \A q \in Requests : RequestOK(req[q])
    /\ Apart
    /\ NoPanic

LEMMA Ranges ==
    /\ UpTo(0) = {} /\ UpTo(Len(Declared)) = Instances
    /\ \A j \in 1 .. Len(Declared) : UpTo(j) = UpTo(j - 1) \cup {Order[j]}
  <1>1. UpTo(0) = {}
    BY DEF UpTo
  <1>2. UpTo(Len(Declared)) = Instances
    BY OrderFacts DEF UpTo
  <1>3. ASSUME NEW j \in 1 .. Len(Declared)
        PROVE  UpTo(j) = UpTo(j - 1) \cup {Order[j]}
    <2>1. Len(Declared) \in Nat
      BY Positions
    <2>2. 1 .. j = (1 .. j - 1) \cup {j}
      BY <2>1
    <2> QED BY <2>2 DEF UpTo
  <1> QED BY <1>1, <1>2, <1>3

\* What a request has ahead when it goes on.
LEMMA DownAhead ==
    ASSUME NEW f \in Frame, NEW j \in 0 .. Len(Declared),
           f.op \in {"start", "stop", "delete", "shutdown"}
    PROVE  /\ Down(f, j).mine = f.mine
           /\ \A n \in UpTo(j) : Ahead(Down(f, j), n)
  <1> DEFINE h == Down(f, j)
  <1> SUFFICES h.mine = f.mine /\ \A n \in UpTo(j) : Ahead(h, n)
    OBVIOUS
  <1>1. CASE j = 0
    <2>1. PICK at \in {"remove", "list", "unlock"}, i \in {0, 1, f.i} :
             h = [f EXCEPT !.at = at, !.i = i]
      BY <1>1 DEF Down, Stopped, Frame
    <2>2. h.mine = f.mine
      BY <2>1 DEF Frame
    <2> QED BY <1>1, <2>2, Ranges
  <1>2. CASE j # 0
    <2>1. h = [f EXCEPT !.at = "stop", !.i = j, !.n = Order[j]]
      BY <1>2 DEF Down
    <2>2. h.at = "stop" /\ h.i = j /\ h.mine = f.mine
      BY <2>1 DEF Frame
    <2> HIDE DEF h
    <2> QED BY <1>2, <2>2 DEF Ahead
  <1> QED BY <1>1, <1>2

LEMMA UpAhead ==
    ASSUME NEW f \in Frame, NEW j \in 1 .. Len(Declared) + 1, f.op = "start"
    PROVE  /\ Up(f, j).mine = f.mine
           /\ \A n \in UpTo(j - 1) : Ahead(Up(f, j), n)
  <1> DEFINE h == Up(f, j)
  <1> SUFFICES h.mine = f.mine /\ \A n \in UpTo(j - 1) : Ahead(h, n)
    OBVIOUS
  <1>1. CASE j > Len(Order)
    <2>1. h = [f EXCEPT !.at = "unlock", !.i = j]
      BY <1>1 DEF Up
    <2>2. h.at = "unlock" /\ h.i = j /\ h.mine = f.mine
      BY <2>1 DEF Frame
    <2>3. j > Len(Declared)
      BY <1>1, OrderFacts
    <2> HIDE DEF h
    <2> QED BY <2>2, <2>3 DEF Ahead
  <1>2. CASE ~(j > Len(Order))
    <2>1. h = [f EXCEPT !.at = "start", !.i = j, !.n = Order[j]]
      BY <1>2 DEF Up
    <2>2. h.at = "start" /\ h.i = j /\ h.mine = f.mine
      BY <2>1 DEF Frame
    <2> HIDE DEF h
    <2> QED BY <2>2 DEF Ahead
  <1> QED BY <1>1, <1>2

LEMMA StartFailsAhead ==
    ASSUME NEW f \in Frame, Shape(f), f.at \in {"start", "spawn", "spawned"}
    PROVE  LET h == StartReturns(f, FALSE)
           IN \/ h.mine = {}
              \/ h.mine = f.mine /\ \A n : Ahead(f, n) => Ahead(h, n)
  <1>1. CASE f.op = "pstart"
    BY <1>1 DEF StartReturns, Idle
  <1>2. CASE f.op # "pstart"
    <2> DEFINE b == Returned(f)
    <2>1. f.op = "start" /\ f.i - 1 \in 0 .. Len(Declared)
      BY <1>2, Positions DEF Shape
    <2>2. StartReturns(f, FALSE) = Down(b, f.i - 1)
      BY <1>2 DEF StartReturns
    <2>3. b \in Frame /\ b.op = f.op /\ b.mine = f.mine
      BY ReturnedShape
    <2> HIDE DEF b
    <2>4. PICK j \in 0 .. Len(Declared) : j = f.i - 1
      BY <2>1
    <2>5. Down(b, j).mine = b.mine /\ \A n \in UpTo(j) : Ahead(Down(b, j), n)
      BY <2>1, <2>3, DownAhead
    <2>6. \A n : Ahead(f, n) => n \in UpTo(j)
      BY <2>4 DEF Ahead
    <2> QED BY <2>2, <2>3, <2>4, <2>5, <2>6
  <1> QED BY <1>1, <1>2

LEMMA StopReturnsAhead ==
    ASSUME NEW f \in Frame, Shape(f), f.at \in {"stop", "after"}
    PROVE  LET h == StopReturns(f)
           IN \/ h.mine = {}
              \/ /\ h.mine = f.mine
                 /\ \A n : Ahead(f, n) /\ (f.at = "stop" => n # f.n) => Ahead(h, n)
  <1> DEFINE b == Returned(f)
  <1>0. /\ b \in Frame /\ b.op = f.op /\ b.mine = f.mine /\ b.todo = f.todo
    BY ReturnedShape
  <1>1. CASE f.op = "pstop"
    BY <1>1 DEF StopReturns, Idle
  <1>2. CASE f.op = "shutdown" /\ f.i = 0
    <2> DEFINE h == StopReturns(f)
    <2>1. h = [b EXCEPT !.at = "sweep"]
      BY <1>2 DEF StopReturns
    <2> HIDE DEF b
    <2>2. h.mine = f.mine /\ h.at = "sweep" /\ h.todo = f.todo
      BY <1>0, <2>1 DEF Frame
    <2> HIDE DEF h
    <2>3. \A n : Ahead(f, n) /\ (f.at = "stop" => n # f.n) => Ahead(h, n)
      BY <1>2, <2>2 DEF Ahead
    <2> QED BY <2>2, <2>3 DEF h
  <1>3. CASE f.op # "pstop" /\ ~(f.op = "shutdown" /\ f.i = 0)
    <2>1. /\ f.op \in {"start", "stop", "delete", "shutdown"}
          /\ f.i \in 1 .. Len(Declared) /\ f.n = Order[f.i]
          /\ f.i - 1 \in 0 .. Len(Declared) /\ f.i # 0
      BY <1>3, Positions DEF Shape
    <2>2. StopReturns(f) = Down(b, f.i - 1)
      BY <1>3 DEF StopReturns
    <2> HIDE DEF b
    <2>3. PICK j \in 0 .. Len(Declared) : j = f.i - 1
      BY <2>1
    <2>4. Down(b, j).mine = b.mine /\ \A n \in UpTo(j) : Ahead(Down(b, j), n)
      BY <1>0, <2>1, DownAhead
    <2>5. UpTo(f.i) = UpTo(j) \cup {f.n}
      BY <2>1, <2>3, Ranges
    <2>6. \A n : Ahead(f, n) /\ (f.at = "stop" => n # f.n) => n \in UpTo(j)
      BY <2>1, <2>3, <2>5 DEF Ahead
    <2> QED BY <1>0, <2>2, <2>3, <2>4, <2>6
  <1> QED BY <1>1, <1>2, <1>3

\* What never goes back, but for a restart of the program.
Grows ==
    /\ \A x \in Runs : entry[x] \in Entries => entry'[x] = entry[x]
    /\ runs <= runs' /\ closed \subseteq closed'
    /\ reused \subseteq reused' /\ lost \subseteq lost'

\* A Stop that waits for a child goes on until it sees the channel closed.
LEMMA BeingKeeps ==
    ASSUME TypeInv, MainInv, NEW q \in Requests,
           \A p \in Requests \ {q} : req'[p] = req[p],
           req[q].at \in {"wait", "reap"} =>
              \/ req'[q].at \in {"wait", "reap"} /\ req'[q].cmd = req[q].cmd
              \/ req[q].r \in closed,
           NEW r \in Runs, r \notin closed, entry[r] \notin reused, BeingStopped(r)
    PROVE  BeingStopped(r)'
  <1>1. PICK p \in Requests : req[p].at \in {"wait", "reap"} /\ req[p].cmd = r
    BY DEF BeingStopped
  <1>2. CASE p # q
    BY <1>1, <1>2 DEF BeingStopped
  <1>3. CASE p = q
    <2>1. Belongs(r, EntryOf(req[q])) /\ (EntryOf(req[q]) \notin reused => req[q].r = r)
      BY <1>1, <1>3 DEF MainInv, RequestOK, Ending
    <2>2. req[q].r = r
      BY <2>1, RunsAreCounted DEF Belongs
    <2> QED BY <1>1, <1>3, <2>2 DEF BeingStopped
  <1> QED BY <1>2, <1>3

\* Entries, goroutines and requests that a step leaves alone.
LEMMA EntryKeeps ==
    ASSUME TypeInv, MainInv, Grows, NEW e \in Entries, proc'[e] = proc[e],
           e \notin reused' /\ proc[e].status \in {"running", "stopping"} =>
              monitor'[proc[e].cmd].at = "wait"
    PROVE  EntryOK(e)'
  <1>1. EntryOK(e)
    BY DEF MainInv
  <1>2. \A x : Belongs(x, e) => Belongs(x, e)'
    BY DEF Belongs, Grows
  <1>3. Belongs(proc[e].cmd, e)' /\ Belongs(proc[e].done, e)'
    BY <1>1, <1>2 DEF EntryOK, Belongs
  <1> QED BY <1>1, <1>3 DEF EntryOK, Grows

LEMMA UnusedKeeps ==
    ASSUME MainInv, NEW r \in Runs, runs' = runs, entry'[r] = entry[r],
           r > runs => child'[r] = child[r] /\ monitor'[r] = monitor[r]
                       /\ (r \in closed' => r \in closed)
    PROVE  Unused(r)'
  BY DEF MainInv, RunOK, Unused

LEMMA ClosesKeeps ==
    ASSUME TypeInv, MainInv, Grows, NEW r \in Runs, monitor'[r] = monitor[r],
           entry[r] \notin reused /\ r \in closed' /\ monitor[r].at # "none"
              => r \in closed,
           monitor[r].at # "none" /\ child[r] = "exited" => child'[r] = "exited"
    PROVE  Closes(r)'
  <1> SUFFICES ASSUME monitor[r].at \in {"wait", "unlocked"} PROVE Closes(r)'
    BY DEF Closes
  <1>1. Closes(r) /\ entry[r] \in Entries /\ entry'[r] = entry[r]
    BY DEF MainInv, RunOK, TypeInv, Watch, Grows
  <1>2. Belongs(monitor[r].done, entry[r])'
    BY <1>1 DEF Closes, Belongs, Grows
  <1> QED BY <1>1, <1>2 DEF Closes, Grows

LEMMA AttendedKeeps ==
    ASSUME TypeInv, MainInv, Grows, NEW r \in Runs, monitor'[r] = monitor[r],
           entry[r] \notin reused' /\ monitor[r].at = "wait" =>
              /\ proc'[entry[r]] = proc[entry[r]]
              /\ child[r] = "live" => child'[r] \in {"live", "exited"}
              /\ child[r] = "exited" => child'[r] = "exited"
              /\ BeingStopped(r) => BeingStopped(r)'
              /\ Tracked(r) => \/ Tracked(r)' \/ r \in lost'
                               \/ proc[entry[r]].status # "running"
    PROVE  Attended(r)'
  <1> SUFFICES ASSUME monitor[r].at = "wait", entry'[r] \notin reused' PROVE Attended(r)'
    BY DEF Attended
  <1>1. /\ Attended(r) /\ entry[r] \in Entries /\ entry'[r] = entry[r]
        /\ entry[r] \notin reused' /\ entry[r] \notin reused /\ lost \subseteq lost'
    BY DEF MainInv, RunOK, TypeInv, Watch, Grows
  <1> QED BY <1>1 DEF Attended

LEMMA ReachedKeeps ==
    ASSUME TypeInv, MainInv, Grows, NEW r \in Runs,
           child'[r] = "live" => child[r] = "live" /\ entry'[r] = entry[r],
           Live(r) /\ monitor[r].at = "wait" => monitor'[r].at = "wait",
           \A q \in Requests : req[q].at = "spawned" /\ req[q].r = r =>
              \/ req'[q].at = "spawned" /\ req'[q].r = r
              \/ monitor'[r].at = "wait"
    PROVE  Reached(r)'
  <1> SUFFICES ASSUME child'[r] = "live", r \notin lost', entry'[r] \notin reused'
               PROVE  Reached(r)'
    BY DEF Reached, Live, Astray
  <1>1. Live(r) /\ ~Astray(r) /\ Reached(r)
    BY DEF Live, Astray, Grows, MainInv, RunOK
  <1> QED BY <1>1 DEF Reached

LEMMA MakingKeeps ==
    ASSUME TypeInv, MainInv, Grows, NEW p \in Requests, req'[p] = req[p],
           req[p].at \in {"spawn", "spawned"} =>
              /\ monitor'[req[p].r] = monitor[req[p].r]
              /\ EntryOf(req[p]) \notin reused' =>
                    /\ proc'[EntryOf(req[p])] = proc[EntryOf(req[p])]
                    /\ req[p].r \in closed' => req[p].r \in closed
                    /\ Tracked(req[p].r) => Tracked(req[p].r)' \/ req[p].r \in lost'
                    /\ child'[req[p].r] # child[req[p].r] =>
                          child[req[p].r] = "live" /\ child'[req[p].r] = "exited"
    PROVE  Making(req[p])'
  <1> SUFFICES ASSUME req[p].at \in {"spawn", "spawned"} PROVE Making(req[p])'
    BY DEF Making
  <1> DEFINE f == req[p]
  <1>1. /\ Making(f) /\ f.r \in Runs /\ entry[f.r] \in Entries
        /\ entry'[f.r] = entry[f.r]
    BY DEF MainInv, RequestOK, TypeInv, Grip, Grows
  <1>2. reused \subseteq reused' /\ lost \subseteq lost'
    BY DEF Grows
  <1>3. Tracked(f.r)' = (processes'[entry'[f.r][1]] = entry'[f.r][2])
    BY DEF Tracked
  <1>4. EntryOf(f)' = EntryOf(f)
    BY DEF EntryOf
  <1> QED BY <1>1, <1>2, <1>4 DEF Making, Tracked

LEMMA EndingKeeps ==
    ASSUME TypeInv, MainInv, Grows, NEW p \in Requests, req'[p] = req[p]
    PROVE  Ending(req[p])'
  <1> SUFFICES ASSUME req[p].at \in {"wait", "reap", "after"} PROVE Ending(req[p])'
    BY DEF Ending
  <1>1. Ending(req[p]) /\ EntryOf(req[p]) \in Entries
    BY EntryOfIsOne DEF MainInv, RequestOK
  <1>2. EntryOf(req[p])' = EntryOf(req[p])
    BY DEF EntryOf
  <1>3. Belongs(req[p].cmd, EntryOf(req[p])) => Belongs(req[p].cmd, EntryOf(req[p]))'
    BY <1>1, <1>2 DEF Belongs, Grows
  <1> QED BY <1>1, <1>2, <1>3 DEF Ending, Grows

\* A request that moves and answers for r as before.
LEMMA AnswersMove ==
    ASSUME TypeInv, MainInv, Grows, NEW q \in Requests, NEW r \in req[q].mine,
           entry[r] \notin reused' /\ r \notin lost' =>
              /\ child[r] = "live" => child'[r] \in {"live", "exited"}
              /\ child[r] = "exited" => child'[r] = "exited"
              /\ child'[r] = "live" /\ monitor[r].at = "wait" =>
                    monitor'[r].at = "wait"
              /\ BeingStopped(r) /\ r \notin closed => BeingStopped(r)'
              /\ Ahead(req[q], entry[r][1]) /\ child'[r] = "live"
                    => Ahead(req'[q], entry[r][1]) \/ BeingStopped(r)'
    PROVE  Answers(req[q], r)'
  <1>1. r \in Runs /\ Answers(req[q], r)
    BY DEF TypeInv, TypeOK, Frame, MainInv, RequestOK
  <1>2. Unused(r) /\ Closes(r)
    BY <1>1 DEF MainInv, RunOK
  <1> SUFFICES ASSUME r \notin lost', entry'[r] \notin reused' PROVE Answers(req[q], r)'
    BY DEF Answers, Astray
  <1>3. entry[r] \in Entries /\ entry'[r] = entry[r]
    <2>1. CASE entry[r] \in Entries
      BY <1>1, <2>1 DEF Grows
    <2>2. CASE entry[r] \notin Entries
      <3>1. r > runs
        BY <1>1, <1>2, <2>2 DEF Unused, TypeInv, TypeOK, Runs
      <3>2. child[r] = "none"
        BY <1>2, <3>1 DEF Unused
      <3>3. ~Astray(r)
        BY <2>2 DEF Grows, Astray, TypeInv, TypeOK
      <3> QED BY <1>1, <3>2, <3>3 DEF Answers
    <2> QED BY <2>1, <2>2
  <1>4. ~Astray(r) /\ entry[r] \notin reused'
    BY <1>3 DEF Astray, Grows
  <1>5. Ahead(req[q], entry[r][1])' = Ahead(req'[q], entry'[r][1])
    BY DEF Ahead
  <1> QED BY <1>1, <1>2, <1>3, <1>4, <1>5 DEF Answers, Live, Closes, Astray

LEMMA AnswersKeep ==
    ASSUME TypeInv, MainInv, Grows, NEW p \in Requests, req'[p] = req[p],
           NEW r \in req[p].mine,
           entry[r] \notin reused' /\ r \notin lost' =>
              /\ child[r] = "live" => child'[r] \in {"live", "exited"}
              /\ child[r] = "exited" => child'[r] = "exited"
              /\ child'[r] = "live" /\ monitor[r].at = "wait" =>
                    monitor'[r].at = "wait"
              /\ BeingStopped(r) /\ r \notin closed => BeingStopped(r)'
    PROVE  Answers(req[p], r)'
  <1>1. \A n : Ahead(req[p], n) => Ahead(req'[p], n)
    OBVIOUS
  <1> QED BY <1>1, AnswersMove

LEMMA ApartKeeps ==
    ASSUME MainInv, NEW q \in Requests,
           \A p \in Requests \ {q} : req'[p] = req[p],
           \/ req'[q].at \notin {"spawn", "spawned"}
           \/ req[q].at \in {"spawn", "spawned"} /\ req'[q].r = req[q].r
    PROVE  Apart'
  BY DEF MainInv, Apart


-----------------------------------------------------------------------------
\* Steps that only move a request.

LEMMA MoveKeeps ==
    ASSUME TypeInv, MainInv, NEW q \in Requests,
           \A p \in Requests \ {q} : req'[p] = req[p],
           UNCHANGED <<processes, proc, gen, runs, entry, child, closed, panicked,
                       monitor, reused, lost>>,
           req[q].at \notin {"spawn", "spawned"},
           req'[q].at \notin {"spawn", "spawned"},
           req[q].at \in {"wait", "reap"} =>
              \/ req'[q].at \in {"wait", "reap"} /\ req'[q].cmd = req[q].cmd
              \/ req[q].r \in closed,
           Ending(req[q])', req'[q].mine \subseteq Runs,
           \A r \in req'[q].mine : ~Astray(r) =>
              /\ child[r] \in {"live", "exited"}
              /\ Live(r) => /\ monitor[r].at = "wait"
                            /\ BeingStopped(r) \/ Ahead(req'[q], entry[r][1])
    PROVE  MainInv'
  <1>1. Grows
    BY DEF Grows, TypeInv, TypeOK
  <1>2. ASSUME NEW r \in Runs, r \notin closed, entry[r] \notin reused, BeingStopped(r)
        PROVE  BeingStopped(r)'
    BY <1>2, BeingKeeps
  <1>3. \A e \in Entries : EntryOK(e)'
    BY DEF MainInv, EntryOK, Belongs
  <1>4. ASSUME NEW r \in Runs PROVE RunOK(r)'
    <2>1. RunOK(r)
      BY DEF MainInv
    <2>2. Unused(r)' /\ Closes(r)'
      BY <2>1 DEF RunOK, Unused, Closes, Belongs
    <2>3. Tracked(r)' = Tracked(r)
      BY DEF Tracked
    <2>4. monitor[r].at = "wait" /\ entry[r] \notin reused => r \notin closed
      BY <2>1 DEF RunOK, Closes
    <2>5. Attended(r)'
      BY <1>1, <1>2, <2>3, <2>4, AttendedKeeps
    <2>6. Reached(r)'
      BY <2>1 DEF RunOK, Reached, Live, Astray
    <2> QED BY <2>2, <2>5, <2>6 DEF RunOK
  <1>5. ASSUME NEW p \in Requests \ {q} PROVE RequestOK(req[p])'
    <2>1. Making(req[p])'
      BY <1>1, MakingKeeps DEF Tracked
    <2>2. Ending(req[p])'
      BY <1>1, EndingKeeps
    <2>3. ASSUME NEW r \in req[p].mine PROVE Answers(req[p], r)'
      <3>1. r \in Runs
        BY DEF TypeInv, TypeOK, Frame
      <3> QED BY <1>1, <1>2, <3>1, AnswersKeep
    <2>4. \A r \in req'[p].mine : Answers(req[p], r)'
      BY <2>3
    <2> QED BY <2>1, <2>2, <2>4 DEF RequestOK
  <1>6. RequestOK(req[q])'
    <2>1. Making(req[q])'
      BY DEF Making
    <2>2. ASSUME NEW r \in req'[q].mine PROVE Answers(req[q], r)'
      <3>1. r \in Runs /\ Closes(r)
        BY DEF MainInv, RunOK
      <3>2. ~Astray(r) /\ Live(r) /\ BeingStopped(r) => BeingStopped(r)'
        BY <1>2, <3>1 DEF Astray, Closes
      <3>3. Ahead(req[q], entry[r][1])' = Ahead(req'[q], entry[r][1])
        BY DEF Ahead
      <3> QED BY <3>2, <3>3 DEF Answers, Live, Astray
    <2> QED BY <2>1, <2>2 DEF RequestOK
  <1>7. Apart'
    BY ApartKeeps
  <1>8. NoPanic'
    BY DEF MainInv, NoPanic
  <1> QED BY <1>3, <1>4, <1>5, <1>6, <1>7, <1>8 DEF MainInv

\* A request that answers for the same children, or for none.
LEMMA MineKeeps ==
    ASSUME TypeInv, MainInv, NEW q \in Requests,
           \A p \in Requests \ {q} : req'[p] = req[p],
           UNCHANGED <<processes, proc, gen, runs, entry, child, closed, panicked,
                       monitor, reused, lost>>,
           req[q].at \notin {"spawn", "spawned"},
           req'[q].at \notin {"spawn", "spawned"},
           req[q].at \in {"wait", "reap"} =>
              \/ req'[q].at \in {"wait", "reap"} /\ req'[q].cmd = req[q].cmd
              \/ req[q].r \in closed,
           Ending(req[q])',
           \/ req'[q].mine = {}
           \/ /\ req'[q].mine = req[q].mine
              /\ \A r \in Runs : Live(r) /\ ~Astray(r) /\ monitor[r].at = "wait"
                                 /\ Ahead(req[q], entry[r][1])
                    => BeingStopped(r) \/ Ahead(req'[q], entry[r][1])
    PROVE  MainInv'
  <1>1. req[q].mine \subseteq Runs
    BY DEF TypeInv, TypeOK, Frame
  <1>2. \A r \in req[q].mine : Answers(req[q], r)
    BY DEF MainInv, RequestOK
  <1>3. req'[q].mine \subseteq Runs
    BY <1>1
  <1>4. \A r \in req'[q].mine : ~Astray(r) =>
              /\ child[r] \in {"live", "exited"}
              /\ Live(r) => /\ monitor[r].at = "wait"
                            /\ BeingStopped(r) \/ Ahead(req'[q], entry[r][1])
    <2> SUFFICES ASSUME NEW r \in req'[q].mine, ~Astray(r)
                 PROVE  /\ child[r] \in {"live", "exited"}
                        /\ Live(r) => /\ monitor[r].at = "wait"
                                      /\ BeingStopped(r) \/ Ahead(req'[q], entry[r][1])
      OBVIOUS
    <2>1. r \in req[q].mine /\ r \in Runs
      BY <1>1
    <2>2. Answers(req[q], r)
      BY <1>2, <2>1
    <2> QED BY <2>1, <2>2 DEF Answers
  <1> QED BY <1>3, <1>4, MoveKeeps

\* The commands of processes that run have their goroutine.
LEMMA RunningAreAttended ==
    ASSUME TypeInv, MainInv, NEW S \in SUBSET Names, NEW r \in Running(S)
    PROVE  /\ r \in Runs /\ entry[r][1] \in S
           /\ ~Astray(r) => monitor[r].at = "wait" /\ child[r] \in {"live", "exited"}
  <1>1. PICK n \in S : /\ processes[n] # 0
                       /\ proc[<<n, processes[n]>>].status = "running"
                       /\ proc[<<n, processes[n]>>].cmd = r
    BY DEF Running
  <1>2. r \in Runs
    BY DEF Running
  <1> DEFINE e == <<n, processes[n]>>
  <1>3. e \in Entries
    BY <1>1, EntryIsOne
  <1>4. EntryOK(e)
    BY <1>3 DEF MainInv
  <1>5. entry[r] = e
    BY <1>1, <1>2, <1>4, RunsAreCounted DEF EntryOK, Belongs
  <1>6. ASSUME ~Astray(r) PROVE monitor[r].at = "wait" /\ child[r] \in {"live", "exited"}
    <2>1. monitor[r].at = "wait" /\ entry[r] \notin reused
      BY <1>1, <1>4, <1>5, <1>6 DEF EntryOK, Astray
    <2>2. Attended(r)
      BY <1>2 DEF MainInv, RunOK
    <2> QED BY <2>1, <2>2 DEF Attended
  <1> QED BY <1>2, <1>5, <1>6

\* A child whose name has no process that runs is being stopped.
LEMMA IdleNameStopped ==
    ASSUME TypeInv, MainInv, NEW r \in Runs, monitor[r].at = "wait", ~Astray(r),
           LET n == entry[r][1]
           IN processes[n] # 0 => proc[<<n, processes[n]>>].status # "running"
    PROVE  BeingStopped(r)
  <1> DEFINE n == entry[r][1]
  <1>1. Attended(r) /\ entry[r] \in Entries
    BY DEF MainInv, RunOK, TypeInv, Watch
  <1>2. entry[r] = <<n, entry[r][2]>> /\ entry[r][2] # 0
    BY <1>1 DEF Entries
  <1>3. /\ proc[entry[r]].status \in {"running", "stopping"}
        /\ proc[entry[r]].status = "stopping" => BeingStopped(r)
        /\ Tracked(r) \/ BeingStopped(r)
    BY <1>1 DEF Attended, Astray
  <1>4. CASE Tracked(r)
    <2>1. processes[n] = entry[r][2]
      BY <1>4 DEF Tracked
    <2>2. <<n, processes[n]>> = entry[r] /\ processes[n] # 0
      BY <1>2, <2>1
    <2>3. proc[entry[r]].status # "running"
      BY <2>2
    <2> QED BY <1>3, <2>3
  <1> QED BY <1>3, <1>4

LEMMA MovesMain ==
    ASSUME TypeInv, MainInv, NEW q \in Requests,
           \/ \E op \in {"start", "stop", "delete"} : ProjectRequest(q, op)
           \/ Shutdown(q) \/ StartRefused(q) \/ StopRefused(q) \/ StopSees(q)
           \/ StopTimeout(q) \/ GiveUp(q) \/ Healthy(q) \/ Bootstrapped(q)
           \/ Unlock(q) \/ Forget(q) \/ Unlink(q) \/ StopAll(q) \/ StopNext(q)
    PROVE  MainInv'
  <1> DEFINE f == req[q]
  <1>1. f \in Frame /\ Shape(f) /\ Ending(f) /\ req \in [Requests -> Frame]
    BY DEF TypeInv, TypeOK, MainInv, RequestOK
  <1>2. UNCHANGED <<processes, proc, gen, runs, entry, child, closed, panicked,
                    monitor, reused, lost>>
    BY DEF ProjectRequest, Shutdown, StartRefused, StopRefused, StopSees, StopTimeout,
           GiveUp, Healthy, Bootstrapped, Unlock, Forget, Unlink, StopAll, StopNext,
           table, os, history
  <1>3. \A h : Goto(q, h) => req'[q] = h /\ \A p \in Requests \ {q} : req'[p] = req[p]
    BY <1>1 DEF Goto
  <1>4. req'[q].at \notin {"wait", "reap", "after"} => Ending(req[q])'
    BY DEF Ending
  <1>5. ASSUME NEW h \in Frame, Goto(q, h),
               f.at \notin {"spawn", "spawned", "wait", "reap"},
               h.at \notin {"spawn", "spawned", "wait", "reap", "after"},
               \/ h.mine = {}
               \/ /\ h.mine = f.mine
                  /\ \A r \in Runs : Live(r) /\ ~Astray(r) /\ monitor[r].at = "wait"
                                     /\ Ahead(f, entry[r][1])
                        => BeingStopped(r) \/ Ahead(h, entry[r][1])
        PROVE  MainInv'
    <2>1. req'[q] = h /\ \A p \in Requests \ {q} : req'[p] = req[p]
      BY <1>3, <1>5
    <2> QED BY <1>2, <1>4, <1>5, <2>1, MineKeeps
  <1>6. ASSUME NEW h \in Frame, Goto(q, h), f.at \in {"idle", "list"},
               f.at = "idle" => f.mine = {},
               h.at \notin {"spawn", "spawned", "wait", "reap", "after"},
               NEW S \in SUBSET Names, h.mine = f.mine \cup Running(S),
               \A r \in Runs : /\ ~Astray(r) /\ monitor[r].at = "wait"
                               /\ f.at = "idle" => entry[r][1] \in S
                               => BeingStopped(r) \/ Ahead(h, entry[r][1])
        PROVE  MainInv'
    <2>1. req'[q] = h /\ \A p \in Requests \ {q} : req'[p] = req[p]
      BY <1>3, <1>6
    <2>2. h.mine \subseteq Runs
      BY DEF Frame
    <2>3. ASSUME NEW r \in h.mine, ~Astray(r)
          PROVE  /\ child[r] \in {"live", "exited"}
                 /\ Live(r) => monitor[r].at = "wait"
                               /\ (BeingStopped(r) \/ Ahead(h, entry[r][1]))
      <3>1. CASE r \in f.mine
        <4>1. Answers(f, r) /\ f.at = "list"
          BY <1>6, <3>1 DEF MainInv, RequestOK
        <4> QED BY <1>6, <2>2, <2>3, <4>1 DEF Answers
      <3>2. CASE r \in Running(S)
        <4>1. /\ r \in Runs /\ entry[r][1] \in S
              /\ monitor[r].at = "wait" /\ child[r] \in {"live", "exited"}
          BY <2>3, <3>2, RunningAreAttended
        <4> QED BY <1>6, <2>3, <4>1
      <3> QED BY <1>6, <3>1, <3>2
    <2> QED BY <1>2, <1>4, <1>6, <2>1, <2>2, <2>3, MoveKeeps
  <1>7. ASSUME NEW op \in {"start", "stop", "delete"}, ProjectRequest(q, op)
        PROVE  MainInv'
    <2> DEFINE b == [Idle EXCEPT !.op = op]
               c == [b EXCEPT !.mine = Running(Instances)]
    <2>1. b \in Frame /\ b.op = op /\ b.mine = {}
      BY IdleShape DEF Idle, Frame, Ops
    <2>2. c \in Frame /\ c.op = op /\ c.mine = Running(Instances)
      BY <2>1 DEF Frame, Running
    <2>3. 1 \in 1 .. Len(Declared) + 1 /\ Len(Order) \in 0 .. Len(Declared)
          /\ Len(Order) = Len(Declared)
      BY Positions, OrderFacts
    <2>4. f = Idle /\ f.at = "idle" /\ f.mine = {}
      BY <1>7 DEF ProjectRequest, Idle
    <2>5. CASE op = "start"
      <3>1. Goto(q, Up(b, 1))
        BY <1>7, <2>5 DEF ProjectRequest
      <3>2. /\ Up(b, 1) \in Frame /\ Up(b, 1).mine = {}
            /\ Up(b, 1).at \in {"start", "unlock"}
        BY <2>1, <2>3, <2>5, UpShape, UpAhead
      <3> QED BY <1>5, <2>4, <3>1, <3>2
    <2>6. CASE op # "start"
      <3> DEFINE h == Down(c, Len(Order))
      <3>1. Goto(q, h)
        BY <1>7, <2>6 DEF ProjectRequest
      <3>2. /\ h \in Frame /\ h.mine = Running(Instances)
            /\ h.at \in {"stop", "remove", "list", "unlock"}
            /\ \A n \in Instances : Ahead(h, n)
        BY <2>2, <2>3, <2>6, DownShape, DownAhead, Ranges
      <3> HIDE DEF h
      <3>3. h.mine = f.mine \cup Running(Instances) /\ Instances \in SUBSET Names
        BY <2>4, <3>2 DEF Names
      <3> QED BY <1>6, <2>4, <3>1, <3>2, <3>3
    <2> QED BY <2>5, <2>6
  <1>8. CASE Shutdown(q)
    <2> DEFINE b == [Idle EXCEPT !.op = "shutdown", !.mine = Running(Instances)]
               j == IF stored THEN Len(Order) ELSE 0
               h == Down(b, j)
    <2>1. b \in Frame /\ b.op = "shutdown" /\ b.mine = Running(Instances)
      BY IdleShape DEF Idle, Frame, Ops, Running
    <2>2. j \in 0 .. Len(Declared) /\ Len(Order) = Len(Declared)
      BY Positions, OrderFacts
    <2>3. f = Idle /\ f.at = "idle" /\ f.mine = {}
      BY <1>8 DEF Shutdown, Idle
    <2>4. Goto(q, h)
      BY <1>8 DEF Shutdown, Down
    <2>5. /\ h \in Frame /\ h.mine = Running(Instances)
          /\ h.at \in {"stop", "remove", "list", "unlock"}
          /\ \A n \in UpTo(j) : Ahead(h, n)
      BY <2>1, <2>2, DownShape, DownAhead
    <2>6. \A n \in Instances : Ahead(h, n)
      <3>1. CASE stored
        BY <2>2, <2>5, <3>1, Ranges
      <3>2. CASE ~stored
        <4>1. h = [b EXCEPT !.at = "list", !.i = 0]
          BY <2>1, <3>2 DEF Down, Stopped
        <4>2. h.at = "list"
          BY <2>1, <4>1 DEF Frame
        <4> QED BY <4>2 DEF Ahead
      <3> QED BY <3>1, <3>2
    <2> HIDE DEF h
    <2>7. h.mine = f.mine \cup Running(Instances) /\ Instances \in SUBSET Names
      BY <2>3, <2>5 DEF Names
    <2> QED BY <1>6, <2>3, <2>4, <2>5, <2>6, <2>7
  <1>9. CASE StartRefused(q)
    <2> DEFINE h == StartReturns(f, FALSE)
    <2>1. f.at = "start" /\ Goto(q, h)
      BY <1>9 DEF StartRefused
    <2>2. /\ h \in Frame
          /\ h.at \in {"idle", "health", "stop", "remove", "list", "unlock"}
      BY <1>1, <2>1, StartReturnsShape
    <2>3. \/ h.mine = {}
          \/ h.mine = f.mine /\ \A n : Ahead(f, n) => Ahead(h, n)
      BY <1>1, <2>1, StartFailsAhead
    <2> HIDE DEF h
    <2> QED BY <1>5, <2>1, <2>2, <2>3
  <1>10. CASE StopRefused(q)
    <2> DEFINE h == StopReturns(f)
    <2>1. f.at = "stop" /\ Goto(q, h)
          /\ (processes[f.n] # 0 => proc[<<f.n, processes[f.n]>>].status # "running")
      BY <1>10 DEF StopRefused
    <2>2. /\ h \in Frame
          /\ h.at \in {"idle", "sweep", "stop", "remove", "list", "unlock"}
      BY <1>1, <2>1, StopReturnsShape
    <2>3. \/ h.mine = {}
          \/ h.mine = f.mine /\ \A n : Ahead(f, n) /\ n # f.n => Ahead(h, n)
      BY <1>1, <2>1, StopReturnsAhead
    <2>4. \A r \in Runs : ~Astray(r) /\ monitor[r].at = "wait" /\ entry[r][1] = f.n
                             => BeingStopped(r)
      BY <2>1, IdleNameStopped
    <2> HIDE DEF h
    <2> QED BY <1>5, <2>1, <2>2, <2>3, <2>4
  <1>11. CASE StopSees(q) \/ StopTimeout(q)
    <2>0. PICK at \in {"after", "reap"} :
             /\ Goto(q, [f EXCEPT !.at = at])
             /\ at = "after" => f.r \in closed
      BY <1>11 DEF StopSees, StopTimeout
    <2> DEFINE h == [f EXCEPT !.at = at]
    <2>1. f.at \in {"wait", "reap"}
      BY <1>11 DEF StopSees, StopTimeout
    <2>2. /\ h.at = at /\ h.mine = f.mine /\ h.i = f.i /\ h.todo = f.todo /\ h.n = f.n
          /\ h.cmd = f.cmd /\ h.r = f.r /\ h.g = f.g
      BY <1>1 DEF Frame
    <2>3. req'[q] = h /\ \A p \in Requests \ {q} : req'[p] = req[p]
      BY <1>3, <2>0
    <2> HIDE DEF h
    <2>4. EntryOf(req[q])' = EntryOf(f)
      BY <2>2, <2>3 DEF EntryOf
    <2>5. \A x, e : Belongs(x, e)' = Belongs(x, e)
      BY <1>2 DEF Belongs
    <2>6. Ending(req[q])'
      <3>1. Belongs(f.cmd, EntryOf(f)) /\ (EntryOf(f) \notin reused => f.r = f.cmd)
        BY <1>1, <2>1 DEF Ending
      <3>2. Belongs(req[q].cmd, EntryOf(req[q]))' = Belongs(f.cmd, EntryOf(f))
        BY <1>2, <2>2, <2>3, <2>4 DEF Belongs
      <3> QED BY <1>2, <2>0, <2>2, <2>3, <2>4, <3>1, <3>2 DEF Ending
    <2>7. \A n : Ahead(f, n) => Ahead(h, n)
      BY <2>1, <2>2 DEF Ahead
    <2> QED BY <1>2, <2>0, <2>1, <2>2, <2>3, <2>6, <2>7, MineKeeps
  <1>12. CASE GiveUp(q)
    <2> DEFINE h == Down(f, f.i)
    <2>1. f.at \in {"health", "boot"} /\ Goto(q, h) /\ f.i \in 0 .. Len(Declared)
          /\ f.op = "start"
      BY <1>1, <1>12, Positions DEF GiveUp, Shape
    <2>2. /\ h \in Frame /\ h.at \in {"stop", "remove", "list", "unlock"}
          /\ h.mine = f.mine /\ \A n \in UpTo(f.i) : Ahead(h, n)
      BY <1>1, <2>1, DownShape, DownAhead
    <2>3. \A n : Ahead(f, n) => n \in UpTo(f.i)
      BY <2>1 DEF Ahead
    <2> HIDE DEF h
    <2> QED BY <1>5, <2>1, <2>2, <2>3
  <1>13. CASE Healthy(q) \/ Bootstrapped(q)
    <2>1. /\ f.at \in {"health", "boot"} /\ f.i + 1 \in 1 .. Len(Declared) + 1
          /\ f.i \in Nat /\ f.op = "start"
      BY <1>1, <1>13, Positions DEF Healthy, Bootstrapped, Shape
    <2>2. \A n : Ahead(f, n) => n \in UpTo(f.i)
      BY <2>1 DEF Ahead
    <2>3. CASE Goto(q, [f EXCEPT !.at = "boot"])
      <3> DEFINE h == [f EXCEPT !.at = "boot"]
      <3>1. h \in Frame /\ h.at = "boot" /\ h.mine = f.mine /\ h.i = f.i
        BY <1>1 DEF Frame, At
      <3> HIDE DEF h
      <3>2. \A n \in UpTo(f.i) : Ahead(h, n)
        BY <3>1 DEF Ahead
      <3>3. Goto(q, h)
        BY <2>3 DEF h
      <3> QED BY <1>5, <2>1, <2>2, <3>1, <3>2, <3>3
    <2>4. CASE Goto(q, Up(f, f.i + 1))
      <3> DEFINE j == f.i + 1
                 h == Up(f, j)
      <3>1. /\ h \in Frame /\ h.at \in {"start", "unlock"} /\ h.mine = f.mine
            /\ \A n \in UpTo(j - 1) : Ahead(h, n)
        BY <1>1, <2>1, UpShape, UpAhead
      <3>2. j - 1 = f.i
        BY <2>1, SMT
      <3>3. Goto(q, h)
        BY <2>4
      <3> HIDE DEF h, j
      <3> QED BY <1>5, <2>1, <2>2, <3>1, <3>2, <3>3
    <2> QED BY <1>13, <2>3, <2>4 DEF Healthy, Bootstrapped
  <1>14. CASE Unlock(q)
    <2>1. Goto(q, Idle) /\ f.at = "unlock"
      BY <1>14 DEF Unlock
    <2>2. Idle \in Frame /\ Idle.at = "idle" /\ Idle.mine = {}
      BY IdleShape DEF Idle
    <2> QED BY <1>5, <2>1, <2>2
  <1>15. CASE Forget(q) \/ Unlink(q)
    <2>1. PICK at \in {"unlink", "unlock"} : Goto(q, [f EXCEPT !.at = at])
      BY <1>15 DEF Forget, Unlink
    <2>2. f.at \in {"forget", "unlink"}
      BY <1>15 DEF Forget, Unlink
    <2> DEFINE h == [f EXCEPT !.at = at]
    <2>3. h \in Frame /\ h.at = at /\ h.mine = f.mine
      BY <1>1 DEF Frame, At
    <2>4. \A n : ~Ahead(f, n)
      BY <2>2 DEF Ahead
    <2> HIDE DEF h
    <2>5. Goto(q, h)
      BY <2>1 DEF h
    <2> QED BY <1>5, <2>2, <2>3, <2>4, <2>5
  <1>16. CASE StopAll(q)
    <2> DEFINE S == {n \in Names : /\ processes[n] # 0
                                   /\ proc[<<n, processes[n]>>].status = "running"}
               h == [f EXCEPT !.at = "sweep", !.mine = @ \cup Running(Names), !.todo = S]
    <2>1. f.at = "list" /\ Goto(q, h)
      BY <1>16 DEF StopAll
    <2>2. S \in SUBSET Names
      OBVIOUS
    <2>3. /\ h \in Frame /\ h.at = "sweep" /\ h.todo = S
          /\ h.mine = f.mine \cup Running(Names)
      BY <1>1, <2>2 DEF Frame, At, Running
    <2> HIDE DEF h
    <2>4. ASSUME NEW r \in Runs, ~Astray(r), monitor[r].at = "wait"
          PROVE  BeingStopped(r) \/ Ahead(h, entry[r][1])
      <3>1. entry[r][1] \in Names
        BY <2>4 DEF TypeInv, Watch, Entries
      <3>2. CASE entry[r][1] \in S
        BY <2>3, <3>2 DEF Ahead
      <3>3. CASE entry[r][1] \notin S
        BY <2>4, <3>1, <3>3, IdleNameStopped
      <3> QED BY <3>2, <3>3
    <2> QED BY <1>6, <2>1, <2>3, <2>4
  <1>17. CASE StopNext(q)
    <2>1. PICK n \in f.todo :
             Goto(q, [f EXCEPT !.at = "stop", !.n = n, !.todo = @ \ {n}])
      BY <1>17 DEF StopNext
    <2> DEFINE h == [f EXCEPT !.at = "stop", !.n = n, !.todo = @ \ {n}]
    <2>2. f.at = "sweep" /\ f.i = 0 /\ n \in Names
      BY <1>1, <1>17 DEF StopNext, Shape, Frame
    <2>3. /\ h \in Frame /\ h.at = "stop" /\ h.mine = f.mine /\ h.i = f.i
          /\ h.n = n /\ h.todo = f.todo \ {n}
      <3>1. f.todo \ {n} \in SUBSET Names /\ n \in Names \cup {None} /\ "stop" \in At
        BY <1>1, <2>2 DEF Frame, At
      <3>2. h \in Frame
        BY <1>1, <3>1 DEF Frame
      <3> QED BY <1>1, <3>2 DEF Frame
    <2> HIDE DEF h
    <2>4. \A x : Ahead(f, x) => Ahead(h, x)
      BY <2>2, <2>3 DEF Ahead
    <2>5. Goto(q, h)
      BY <2>1 DEF h
    <2> QED BY <1>5, <2>2, <2>3, <2>4, <2>5
  <1> QED BY <1>7, <1>8, <1>9, <1>10, <1>11, <1>12, <1>13, <1>14, <1>15, <1>16, <1>17

-----------------------------------------------------------------------------
\* pm.Start

LEMMA StartBeginMain ==
    ASSUME TypeInv, MainInv, NEW q \in Requests, NEW f \in Frame, Shape(f),
           StartBegin(q, f), req[q] = f \/ (req[q] = Idle /\ f.mine = {})
    PROVE  MainInv'
  <1>0. <<f.n, processes[f.n]>> \in Entries /\ runs + 1 \in Runs
    BY StartBeginFacts, Zenon
  <1> PICK e \in Entries, r \in Runs : e = <<f.n, processes[f.n]>> /\ r = runs + 1
    BY <1>0
  <1> DEFINE n == f.n
             h == [f EXCEPT !.at = "spawn", !.g = processes[n], !.r = runs + 1]
  <1>1. /\ n \in Names /\ runs \in Nat
        /\ h.at = "spawn" /\ h.g = processes[n] /\ h.r = r
        /\ h.n = n /\ h.i = f.i /\ h.mine = f.mine /\ h.todo = f.todo
        /\ req'[q] = h /\ \A p \in Requests \ {q} : req'[p] = req[p]
        /\ proc'[e] = [status |-> "starting", cmd |-> r, cancel |-> r, done |-> r]
        /\ \A x \in Entries \ {e} : proc'[x] = proc[x]
        /\ entry'[r] = e /\ \A x \in Runs \ {r} : entry'[x] = entry[x]
        /\ child'[r] = "command" /\ \A x \in Runs \ {r} : child'[x] = child[x]
        /\ runs' = r /\ reused \subseteq reused' /\ reused' \subseteq Entries
        /\ proc[e].status \notin {"running", "starting"}
        /\ proc[e].status = "stopping" => e \in reused'
        /\ UNCHANGED <<processes, gen, killed, closed, panicked, monitor, lost>>
    BY StartBeginFacts, ZenonT(60)
  <1>2. f.at = "start" /\ req[q].at \in {"idle", "start"}
    BY DEF StartBegin, Idle
  <1> HIDE DEF h
  <1>3. r > runs /\ \A x \in Runs : x <= runs \/ x = r \/ x > r
    BY <1>1 DEF Runs
  <1>4. /\ entry[r] = <<None, 0>> /\ entry[r] \notin Entries /\ child[r] = "none"
        /\ monitor[r].at = "none" /\ r \notin closed
    BY <1>1, <1>3, NoEntry DEF MainInv, RunOK, Unused
  <1>5. Grows
    <2>1. runs <= runs'
      BY <1>1
    <2> QED BY <1>1, <1>4, <2>1 DEF Grows
  <1>6. \A x \in Runs : x \notin closed /\ entry[x] \notin reused /\ BeingStopped(x)
                           => BeingStopped(x)'
    BY <1>1, <1>2, BeingKeeps
  <1>7. ASSUME NEW x \in Entries PROVE EntryOK(x)'
    <2>1. CASE x = e
      <3>1. Belongs(proc[e].cmd, e)' /\ Belongs(proc[e].done, e)'
        BY <1>1 DEF Belongs
      <3>2. proc'[e].status = "starting"
        BY <1>1
      <3> QED BY <2>1, <3>1, <3>2 DEF EntryOK
    <2>2. CASE x # e
      <3>1. EntryOK(x)
        BY DEF MainInv
      <3> QED BY <1>1, <1>5, <2>2, <3>1, EntryKeeps DEF EntryOK
    <2> QED BY <2>1, <2>2
  <1>8. ASSUME NEW x \in Runs PROVE RunOK(x)'
    <2>1. RunOK(x)
      BY DEF MainInv
    <2>2. Unused(x)'
      <3>1. CASE x = r
        BY <1>1, <1>3, <3>1 DEF Unused
      <3>2. CASE x # r
        <4>1. Unused(x)
          BY <2>1 DEF RunOK
        <4>2. /\ entry'[x] = entry[x] /\ child'[x] = child[x]
              /\ monitor'[x] = monitor[x] /\ closed' = closed
          BY <1>1, <3>2
        <4>3. (x <= runs' => x <= runs) /\ (x > runs' => x > runs)
          BY <1>1, <3>2 DEF Runs
        <4> QED BY <4>1, <4>2, <4>3 DEF Unused
      <3> QED BY <3>1, <3>2
    <2>3. Closes(x)'
      BY <1>1, <1>4, <1>5, ClosesKeeps
    <2>4. Attended(x)'
      <3>1. entry[x] \notin reused' /\ monitor[x].at = "wait" =>
              /\ proc'[entry[x]] = proc[entry[x]] /\ child'[x] = child[x]
              /\ BeingStopped(x) => BeingStopped(x)'
              /\ Tracked(x) => Tracked(x)'
        <4> SUFFICES ASSUME entry[x] \notin reused', monitor[x].at = "wait"
                     PROVE  /\ proc'[entry[x]] = proc[entry[x]] /\ child'[x] = child[x]
                            /\ BeingStopped(x) => BeingStopped(x)'
                            /\ Tracked(x) => Tracked(x)'
          OBVIOUS
        <4>1. x # r /\ entry[x] \in Entries /\ entry[x] \notin reused
          BY <1>1, <1>4 DEF TypeInv, Watch
        <4>2. x \notin closed /\ proc[entry[x]].status \in {"running", "stopping"}
          BY <2>1, <4>1 DEF RunOK, Closes, Attended
        <4>3. entry[x] # e
          BY <1>1, <4>2
        <4> QED BY <1>1, <1>6, <4>1, <4>2, <4>3 DEF Tracked
      <3> QED BY <1>1, <1>5, <3>1, AttendedKeeps
    <2>5. Reached(x)'
      BY <1>1, <1>2, <1>5, ReachedKeeps
    <2> QED BY <2>2, <2>3, <2>4, <2>5 DEF RunOK
  <1>9. ASSUME NEW p \in Requests \ {q}, req[p].at \in {"spawn", "spawned"}
        PROVE  req[p].r \in Runs /\ req[p].r # r /\ entry[req[p].r] \in Entries
    BY <1>4, <1>9 DEF TypeInv, Grip
  <1>10. ASSUME NEW p \in Requests \ {q} PROVE RequestOK(req[p])'
    <2>1. Making(req[p])'
      <3> SUFFICES ASSUME req[p].at \in {"spawn", "spawned"} PROVE Making(req[p])'
        BY <1>1 DEF Making
      <3>1. Making(req[p]) /\ EntryOf(req[p]) \in Entries
        BY EntryOfIsOne DEF MainInv, RequestOK
      <3>2. EntryOf(req[p]) \notin reused' => EntryOf(req[p]) # e
        BY <1>1, <3>1 DEF Making
      <3>3. Tracked(req[p].r) => Tracked(req[p].r)'
        <4>1. req'[p] = req[p] /\ entry'[req[p].r] = entry[req[p].r]
          BY <1>1, <1>9
        <4> QED BY <1>1, <4>1 DEF Tracked
      <3> QED BY <1>1, <1>5, <1>9, <3>1, <3>2, <3>3, MakingKeeps
    <2>2. Ending(req[p])'
      BY <1>1, <1>5, EndingKeeps
    <2>3. ASSUME NEW x \in req[p].mine PROVE Answers(req[p], x)'
      <3>1. x \in Runs
        BY DEF TypeInv, TypeOK, Frame
      <3> QED BY <1>1, <1>4, <1>5, <1>6, <3>1, AnswersKeep
    <2>4. \A x \in req'[p].mine : Answers(req[p], x)'
      BY <1>1, <2>3
    <2> QED BY <2>1, <2>2, <2>4 DEF RequestOK
  <1>11. RequestOK(req[q])'
    <2>1. EntryOf(req[q])' = e
      BY <1>1 DEF EntryOf
    <2>2. Tracked(r)'
      BY <1>1 DEF Tracked
    <2>3. Making(req[q])'
      BY <1>1, <1>4, <2>1, <2>2 DEF Making
    <2>4. Ending(req[q])'
      BY <1>1 DEF Ending
    <2>5. ASSUME NEW x \in req'[q].mine PROVE Answers(req[q], x)'
      <3>1. req[q] = f /\ x \in req[q].mine
        BY <1>1
      <3>2. x \in Runs
        BY <3>1 DEF TypeInv, TypeOK, Frame
      <3>3. \A m : Ahead(f, m) => Ahead(h, m)
        BY <1>1, <1>2 DEF Ahead
      <3> QED BY <1>1, <1>4, <1>5, <1>6, <3>1, <3>2, <3>3, AnswersMove
    <2> QED BY <2>3, <2>4, <2>5 DEF RequestOK
  <1>12. Apart'
    BY <1>1, <1>9 DEF MainInv, Apart
  <1>13. NoPanic'
    <2>1. ASSUME NEW x \in panicked PROVE entry'[x] \in reused'
      <3>1. entry[x] \in reused /\ x \in Runs
        BY DEF MainInv, NoPanic, TypeInv, TypeOK
      <3> QED BY <1>1, <1>4, <3>1
    <2> QED BY <1>1, <2>1 DEF NoPanic
  <1> QED BY <1>7, <1>8, <1>10, <1>11, <1>12, <1>13 DEF MainInv

\* What a request in pm.Start can rely on.
LEMMA MakerFacts ==
    ASSUME TypeInv, MainInv, NEW q \in Requests, req[q].at \in {"spawn", "spawned"}
    PROVE  LET e == EntryOf(req[q])
               r == req[q].r
               d == proc[e].done
           IN /\ e \in Entries /\ r \in Runs /\ d \in Runs
              /\ entry[r] = e /\ entry[d] = e /\ monitor[r].at = "none"
              /\ ~(r > runs) /\ ~(d > runs)
              /\ e \notin reused =>
                    /\ proc[e] = [status |-> "starting", cmd |-> r, cancel |-> r,
                                  done |-> r]
                    /\ d = r /\ r \notin closed /\ (r \in lost \/ Tracked(r))
                    /\ req[q].at = "spawn" => child[r] = "command"
                    /\ req[q].at = "spawned" => child[r] \in {"live", "exited"}
              /\ \A x \in Runs : monitor[x].at = "wait" /\ entry[x] \notin reused
                                   => entry[x] # e
              /\ \A p \in Requests \ {q} : req[p].at \in {"spawn", "spawned"} =>
                    /\ req[p].r \in Runs /\ req[p].r # r
                    /\ entry[req[p].r] = EntryOf(req[p]) /\ EntryOf(req[p]) \in Entries
                    /\ EntryOf(req[p]) \notin reused => EntryOf(req[p]) # e
  <1> DEFINE e == EntryOf(req[q])
             r == req[q].r
             d == proc[e].done
  <1>1. e \in Entries /\ proc[e] \in Entry /\ r \in Runs /\ d # 0
    BY EntryOfIsOne DEF TypeInv, Grip
  <1>2. d \in Runs
    BY <1>1, AdminAssumption DEF Entry, Runs
  <1>3. Making(req[q])
    BY DEF MainInv, RequestOK
  <1>4. entry[r] = e /\ monitor[r].at = "none"
    BY <1>3 DEF Making
  <1>5. entry[d] = e
    <2>1. EntryOK(e)
      BY <1>1 DEF MainInv
    <2> QED BY <1>1, <2>1 DEF EntryOK, Belongs
  <1>6. ~(r > runs) /\ ~(d > runs)
    BY <1>1, <1>2, <1>4, <1>5, NoEntry DEF MainInv, RunOK, Unused
  <1>7. e \notin reused =>
            /\ proc[e] = [status |-> "starting", cmd |-> r, cancel |-> r, done |-> r]
            /\ d = r /\ r \notin closed /\ (r \in lost \/ Tracked(r))
            /\ req[q].at = "spawn" => child[r] = "command"
            /\ req[q].at = "spawned" => child[r] \in {"live", "exited"}
    BY <1>3 DEF Making
  <1>8. ASSUME NEW x \in Runs, monitor[x].at = "wait", entry[x] \notin reused
        PROVE  entry[x] # e
    <2>1. Attended(x)
      BY DEF MainInv, RunOK
    <2> QED BY <1>7, <1>8, <2>1 DEF Attended
  <1>9. ASSUME NEW p \in Requests \ {q}, req[p].at \in {"spawn", "spawned"}
        PROVE  /\ req[p].r \in Runs /\ req[p].r # r
               /\ entry[req[p].r] = EntryOf(req[p]) /\ EntryOf(req[p]) \in Entries
               /\ EntryOf(req[p]) \notin reused => EntryOf(req[p]) # e
    <2>1. req[p].r \in Runs /\ EntryOf(req[p]) \in Entries
      BY <1>9, EntryOfIsOne DEF TypeInv, Grip
    <2>2. Making(req[p])
      BY DEF MainInv, RequestOK
    <2>3. req[p].r # r
      BY <1>9 DEF MainInv, Apart
    <2> QED BY <1>7, <1>9, <2>1, <2>2, <2>3 DEF Making
  <1> QED BY <1>1, <1>2, <1>4, <1>5, <1>6, <1>7, <1>8, <1>9

LEMMA SpawnFailsMain ==
    ASSUME TypeInv, MainInv, NEW q \in Requests, SpawnFails(q)
    PROVE  MainInv'
  <1> DEFINE f == req[q]
             h == StartReturns(f, FALSE)
  <1>0. EntryOf(f) \in Entries /\ f.r \in Runs /\ proc[EntryOf(f)].done \in Runs
    BY SpawnFailsFacts, Zenon
  <1> PICK e \in Entries, r \in Runs, d \in Runs :
         e = EntryOf(f) /\ r = f.r /\ d = proc[e].done
    BY <1>0
  <1>1. /\ f \in Frame /\ Shape(f) /\ f.at = "spawn"
        /\ h.at \notin {"spawn", "spawned", "wait", "reap", "after"}
        /\ req'[q] = h /\ \A p \in Requests \ {q} : req'[p] = req[p]
        /\ proc'[e].status = "failed" /\ proc'[e].cmd = 0 /\ proc'[e].done = d
        /\ \A x \in Entries \ {e} : proc'[x] = proc[x]
        /\ closed' = closed \cup {d} /\ panicked' = panicked \cup ({d} \cap closed)
        /\ child'[r] = "exited" /\ \A x \in Runs \ {r} : child'[x] = child[x]
        /\ UNCHANGED <<processes, gen, runs, entry, monitor, reused, lost>>
    BY SpawnFailsFacts, Zenon
  <1>2. /\ entry[r] = e /\ entry[d] = e /\ monitor[r].at = "none"
        /\ ~(r > runs) /\ ~(d > runs)
        /\ e \notin reused => d = r /\ r \notin closed
        /\ \A x \in Runs : monitor[x].at = "wait" /\ entry[x] \notin reused
                             => entry[x] # e
        /\ \A p \in Requests \ {q} : req[p].at \in {"spawn", "spawned"} =>
              /\ req[p].r \in Runs /\ req[p].r # r
              /\ entry[req[p].r] = EntryOf(req[p]) /\ EntryOf(req[p]) \in Entries
              /\ EntryOf(req[p]) \notin reused => EntryOf(req[p]) # e
    BY <1>1, MakerFacts, Zenon
  <1> HIDE DEF h
  <1>3. Grows
    BY <1>1 DEF Grows, TypeInv, TypeOK
  <1>4. \A x \in Runs : x \notin closed /\ entry[x] \notin reused /\ BeingStopped(x)
                           => BeingStopped(x)'
    BY <1>1, BeingKeeps
  <1>5. ASSUME NEW x \in Entries PROVE EntryOK(x)'
    <2>1. CASE x = e
      BY <1>1, <1>2, <2>1 DEF EntryOK, Belongs
    <2>2. CASE x # e
      <3>1. EntryOK(x)
        BY DEF MainInv
      <3> QED BY <1>1, <1>3, <2>2, <3>1, EntryKeeps DEF EntryOK
    <2> QED BY <2>1, <2>2
  <1>6. ASSUME NEW x \in Runs PROVE RunOK(x)'
    <2>1. RunOK(x)
      BY DEF MainInv
    <2>2. Unused(x)'
      BY <1>1, <1>2, UnusedKeeps
    <2>3. Closes(x)'
      BY <1>1, <1>2, <1>3, ClosesKeeps
    <2>4. Attended(x)'
      <3>1. Tracked(x)' = Tracked(x)
        BY <1>1 DEF Tracked
      <3>2. monitor[x].at = "wait" /\ entry[x] \notin reused =>
               /\ x \notin closed /\ entry[x] # e /\ x # r /\ entry[x] \in Entries
        BY <1>2, <2>1 DEF RunOK, Closes, TypeInv, Watch
      <3> QED BY <1>1, <1>3, <1>4, <3>1, <3>2, AttendedKeeps
    <2>5. Reached(x)'
      BY <1>1, <1>3, ReachedKeeps
    <2> QED BY <2>2, <2>3, <2>4, <2>5 DEF RunOK
  <1>7. ASSUME NEW p \in Requests \ {q} PROVE RequestOK(req[p])'
    <2>1. Making(req[p])'
      <3>1. Tracked(req[p].r)' = Tracked(req[p].r)
        BY <1>1 DEF Tracked
      <3>2. req[p].at \in {"spawn", "spawned"} =>
               /\ child'[req[p].r] = child[req[p].r]
               /\ EntryOf(req[p]) \notin reused =>
                     /\ proc'[EntryOf(req[p])] = proc[EntryOf(req[p])]
                     /\ req[p].r # d
        BY <1>1, <1>2
      <3> QED BY <1>1, <1>3, <3>1, <3>2, MakingKeeps
    <2>2. Ending(req[p])'
      BY <1>1, <1>3, EndingKeeps
    <2>3. ASSUME NEW x \in req[p].mine PROVE Answers(req[p], x)'
      <3>1. x \in Runs
        BY DEF TypeInv, TypeOK, Frame
      <3> QED BY <1>1, <1>3, <1>4, <3>1, AnswersKeep
    <2>4. \A x \in req'[p].mine : Answers(req[p], x)'
      BY <1>1, <2>3
    <2> QED BY <2>1, <2>2, <2>4 DEF RequestOK
  <1>8. RequestOK(req[q])'
    <2>1. Making(req[q])' /\ Ending(req[q])'
      BY <1>1 DEF Making, Ending
    <2>2. \/ h.mine = {}
          \/ h.mine = f.mine /\ \A n : Ahead(f, n) => Ahead(h, n)
      BY <1>1, StartFailsAhead DEF h
    <2>3. ASSUME NEW x \in req'[q].mine PROVE Answers(req[q], x)'
      <3>1. x \in f.mine /\ x \in Runs
        BY <1>1, <2>2 DEF Frame
      <3> QED BY <1>1, <1>3, <1>4, <2>2, <3>1, AnswersMove
    <2> QED BY <2>1, <2>3 DEF RequestOK
  <1>9. Apart'
    BY <1>1, ApartKeeps
  <1>10. NoPanic'
    BY <1>1, <1>2 DEF MainInv, NoPanic
  <1> QED BY <1>5, <1>6, <1>7, <1>8, <1>9, <1>10 DEF MainInv

LEMMA SpawnMain ==
    ASSUME TypeInv, MainInv, NEW q \in Requests, Spawn(q)
    PROVE  MainInv'
  <1> DEFINE f == req[q]
             h == [f EXCEPT !.at = "spawned"]
  <1>0. EntryOf(f) \in Entries /\ f.r \in Runs
    BY SpawnFacts, Zenon
  <1> PICK e \in Entries, r \in Runs : e = EntryOf(f) /\ r = f.r
    BY <1>0
  <1>1. /\ f \in Frame /\ Shape(f) /\ f.at = "spawn"
        /\ h.at = "spawned" /\ h.n = f.n /\ h.i = f.i /\ h.g = f.g /\ h.r = r
        /\ h.mine = f.mine /\ h.todo = f.todo
        /\ req'[q] = h /\ \A p \in Requests \ {q} : req'[p] = req[p]
        /\ child'[r] = "live" /\ \A x \in Runs \ {r} : child'[x] = child[x]
        /\ UNCHANGED <<processes, proc, gen, runs, entry, closed, panicked, monitor,
                       reused, lost>>
    BY SpawnFacts, Zenon
  <1>2. /\ entry[r] = e /\ monitor[r].at = "none" /\ ~(r > runs)
        /\ e \notin reused =>
              /\ proc[e] = [status |-> "starting", cmd |-> r, cancel |-> r, done |-> r]
              /\ r \notin closed /\ (r \in lost \/ Tracked(r))
              /\ child[r] = "command"
        /\ \A p \in Requests \ {q} : req[p].at \in {"spawn", "spawned"} =>
              req[p].r \in Runs /\ req[p].r # r
    <2>1. f.at = "spawn" /\ f.at \in {"spawn", "spawned"}
      BY <1>1
    <2> QED BY <2>1, MakerFacts
  <1> HIDE DEF h
  <1>3. Grows
    BY <1>1 DEF Grows, TypeInv, TypeOK
  <1>4. \A x \in Runs : x \notin closed /\ entry[x] \notin reused /\ BeingStopped(x)
                           => BeingStopped(x)'
    BY <1>1, BeingKeeps
  <1>5. ASSUME NEW x \in Entries PROVE EntryOK(x)'
    <2>1. EntryOK(x)
      BY DEF MainInv
    <2> QED BY <1>1, <1>3, <2>1, EntryKeeps DEF EntryOK
  <1>6. ASSUME NEW x \in Runs PROVE RunOK(x)'
    <2>1. RunOK(x)
      BY DEF MainInv
    <2>2. Unused(x)'
      BY <1>1, <1>2, UnusedKeeps
    <2>3. Closes(x)'
      BY <1>1, <1>2, <1>3, ClosesKeeps
    <2>4. Attended(x)'
      <3>1. Tracked(x)' = Tracked(x)
        BY <1>1 DEF Tracked
      <3>2. monitor[x].at = "wait" /\ entry[x] \notin reused => x \notin closed /\ x # r
        BY <1>2, <2>1 DEF RunOK, Closes
      <3> QED BY <1>1, <1>3, <1>4, <3>1, <3>2, AttendedKeeps
    <2>5. Reached(x)'
      <3>1. CASE x = r
        BY <1>1, <3>1 DEF Reached
      <3>2. CASE x # r
        BY <1>1, <1>3, <3>2, ReachedKeeps
      <3> QED BY <3>1, <3>2
    <2> QED BY <2>2, <2>3, <2>4, <2>5 DEF RunOK
  <1>7. ASSUME NEW p \in Requests \ {q} PROVE RequestOK(req[p])'
    <2>1. Making(req[p])'
      <3>1. Tracked(req[p].r)' = Tracked(req[p].r)
        BY <1>1 DEF Tracked
      <3> QED BY <1>1, <1>2, <1>3, <3>1, MakingKeeps
    <2>2. Ending(req[p])'
      BY <1>1, <1>3, EndingKeeps
    <2>3. ASSUME NEW x \in req[p].mine PROVE Answers(req[p], x)'
      <3>1. x \in Runs
        BY DEF TypeInv, TypeOK, Frame
      <3> QED BY <1>1, <1>2, <1>3, <1>4, <3>1, AnswersKeep
    <2>4. \A x \in req'[p].mine : Answers(req[p], x)'
      BY <1>1, <2>3
    <2> QED BY <2>1, <2>2, <2>4 DEF RequestOK
  <1>8. RequestOK(req[q])'
    <2>1. EntryOf(req[q])' = e /\ Tracked(r)' = Tracked(r)
      BY <1>1 DEF EntryOf, Tracked
    <2>2. Making(req[q])'
      BY <1>1, <1>2, <2>1 DEF Making
    <2>3. Ending(req[q])'
      BY <1>1 DEF Ending
    <2>4. \A n : Ahead(f, n) => Ahead(h, n)
      BY <1>1 DEF Ahead
    <2>5. ASSUME NEW x \in req'[q].mine PROVE Answers(req[q], x)'
      <3>1. x \in f.mine /\ x \in Runs
        BY <1>1 DEF Frame
      <3> QED BY <1>1, <1>2, <1>3, <1>4, <2>4, <3>1, AnswersMove
    <2> QED BY <2>2, <2>3, <2>5 DEF RequestOK
  <1>9. Apart'
    BY <1>1, ApartKeeps
  <1>10. NoPanic'
    BY <1>1, <1>2 DEF MainInv, NoPanic
  <1> QED BY <1>5, <1>6, <1>7, <1>8, <1>9, <1>10 DEF MainInv

LEMMA StartEndMain ==
    ASSUME TypeInv, MainInv, NEW q \in Requests, StartEnd(q)
    PROVE  MainInv'
  <1> DEFINE f == req[q]
             b == [f EXCEPT !.mine = @ \cup {f.r}]
             h == StartReturns(b, TRUE)
  <1>0. EntryOf(f) \in Entries /\ f.r \in Runs /\ proc[EntryOf(f)].done \in Runs
    BY StartEndFacts, Zenon
  <1> PICK e \in Entries, r \in Runs, d \in Runs :
         e = EntryOf(f) /\ r = f.r /\ d = proc[e].done
    BY <1>0
  <1>1. /\ f \in Frame /\ Shape(f) /\ f.at = "spawned"
        /\ b \in Frame /\ b.op = f.op /\ b.i = f.i
        /\ b.n = f.n /\ b.mine = f.mine \cup {r}
        /\ h.at \notin {"spawn", "spawned", "wait", "reap", "after"}
        /\ req'[q] = h /\ \A p \in Requests \ {q} : req'[p] = req[p]
        /\ proc'[e].status = "running" /\ proc'[e].cmd = proc[e].cmd
        /\ proc'[e].cancel = proc[e].cancel /\ proc'[e].done = d
        /\ \A x \in Entries \ {e} : proc'[x] = proc[x]
        /\ monitor'[r].at = "wait" /\ monitor'[r].done = d
        /\ \A x \in Runs \ {r} : monitor'[x] = monitor[x]
        /\ UNCHANGED <<processes, gen, runs, entry, child, closed, panicked, reused,
                       lost>>
    BY StartEndFacts, Zenon
  <1>2. /\ entry[r] = e /\ entry[d] = e /\ monitor[r].at = "none" /\ ~(r > runs)
        /\ e \notin reused =>
              /\ proc[e] = [status |-> "starting", cmd |-> r, cancel |-> r, done |-> r]
              /\ d = r /\ r \notin closed /\ (r \in lost \/ Tracked(r))
              /\ child[r] \in {"live", "exited"}
        /\ \A x \in Runs : monitor[x].at = "wait" /\ entry[x] \notin reused
                             => entry[x] # e
        /\ \A p \in Requests \ {q} : req[p].at \in {"spawn", "spawned"} =>
              /\ req[p].r \in Runs /\ req[p].r # r /\ EntryOf(req[p]) \in Entries
              /\ EntryOf(req[p]) \notin reused => EntryOf(req[p]) # e
    <2>1. f.at = "spawned" /\ f.at \in {"spawn", "spawned"}
      BY <1>1
    <2> QED BY <2>1, MakerFacts
  <1> HIDE DEF h, b
  <1>3. Grows
    BY <1>1 DEF Grows, TypeInv, TypeOK
  <1>4. \A x \in Runs : x \notin closed /\ entry[x] \notin reused /\ BeingStopped(x)
                           => BeingStopped(x)'
    BY <1>1, BeingKeeps
  <1>5. ASSUME NEW x \in Entries PROVE EntryOK(x)'
    <2>1. EntryOK(x)
      BY DEF MainInv
    <2>2. CASE x = e
      <3>1. Belongs(proc[e].cmd, e)' /\ Belongs(proc[e].done, e)'
        BY <1>1, <2>1, <2>2 DEF EntryOK, Belongs
      <3>2. e \notin reused' => proc'[e].cmd \in Runs /\ monitor'[proc'[e].cmd].at = "wait"
        BY <1>1, <1>2
      <3> QED BY <2>2, <3>1, <3>2 DEF EntryOK
    <2>3. CASE x # e
      <3>1. proc'[x] = proc[x] /\ reused' = reused
        BY <1>1, <2>3
      <3>2. x \notin reused /\ proc[x].status \in {"running", "stopping"} =>
               monitor'[proc[x].cmd].at = "wait"
        BY <1>1, <2>1 DEF EntryOK
      <3> QED BY <1>3, <3>1, <3>2, EntryKeeps
    <2> QED BY <2>2, <2>3
  <1>6. ASSUME NEW x \in Runs PROVE RunOK(x)'
    <2>1. RunOK(x)
      BY DEF MainInv
    <2>2. Unused(x)'
      BY <1>1, <1>2, UnusedKeeps
    <2>3. Tracked(x)' = Tracked(x)
      BY <1>1 DEF Tracked
    <2>4. CASE x = r
      <3>1. Closes(x)'
        BY <1>1, <1>2, <2>4 DEF Closes, Belongs
      <3>2. e \notin reused => /\ proc'[e].status = "running" /\ proc'[e].cmd = r
                               /\ proc'[e].cancel = r /\ proc'[e].done = r
        BY <1>1, <1>2
      <3>3. Attended(x)'
        BY <1>1, <1>2, <2>3, <2>4, <3>2 DEF Attended
      <3>4. Reached(x)'
        BY <1>1, <2>4 DEF Reached
      <3> QED BY <2>2, <3>1, <3>3, <3>4 DEF RunOK
    <2>5. CASE x # r
      <3>1. Closes(x)'
        BY <1>1, <1>3, <2>5, ClosesKeeps
      <3>2. monitor[x].at = "wait" /\ entry[x] \notin reused =>
               /\ x \notin closed /\ entry[x] # e /\ entry[x] \in Entries
        BY <1>2, <2>1 DEF RunOK, Closes, TypeInv, Watch
      <3>3. Attended(x)'
        BY <1>1, <1>3, <1>4, <2>3, <2>5, <3>2, AttendedKeeps
      <3>4. Reached(x)'
        BY <1>1, <1>3, <2>5, ReachedKeeps
      <3> QED BY <2>2, <3>1, <3>3, <3>4 DEF RunOK
    <2> QED BY <2>4, <2>5
  <1>7. ASSUME NEW p \in Requests \ {q} PROVE RequestOK(req[p])'
    <2>1. Making(req[p])'
      <3>1. Tracked(req[p].r)' = Tracked(req[p].r)
        BY <1>1 DEF Tracked
      <3> QED BY <1>1, <1>2, <1>3, <3>1, MakingKeeps
    <2>2. Ending(req[p])'
      BY <1>1, <1>3, EndingKeeps
    <2>3. ASSUME NEW x \in req[p].mine PROVE Answers(req[p], x)'
      <3>1. x \in Runs
        BY DEF TypeInv, TypeOK, Frame
      <3> QED BY <1>1, <1>3, <1>4, <3>1, AnswersKeep
    <2>4. \A x \in req'[p].mine : Answers(req[p], x)'
      BY <1>1, <2>3
    <2> QED BY <2>1, <2>2, <2>4 DEF RequestOK
  <1>8. RequestOK(req[q])'
    <2>1. Making(req[q])' /\ Ending(req[q])'
      BY <1>1 DEF Making, Ending
    <2>2. CASE f.op = "pstart"
      <3>1. req'[q].mine = {}
        BY <1>1, <2>2 DEF h, StartReturns, Idle
      <3> QED BY <2>1, <3>1 DEF RequestOK
    <2>3. CASE f.op # "pstart"
      <3>1. f.op = "start" /\ f.i \in 1 .. Len(Declared) /\ f.n = Order[f.i]
        BY <1>1, <2>3 DEF Shape
      <3>2. h = [Returned(b) EXCEPT !.at = "health"]
        BY <1>1, <3>1 DEF h, StartReturns
      <3>3. /\ Returned(b) \in Frame /\ Returned(b).i = f.i
            /\ Returned(b).mine = f.mine \cup {r}
        BY <1>1, ReturnedShape
      <3>4. h.at = "health" /\ h.i = f.i /\ h.mine = f.mine \cup {r}
        BY <3>2, <3>3 DEF Frame
      <3>5. UpTo(f.i) = UpTo(f.i - 1) \cup {f.n}
        BY <3>1, Ranges
      <3>6. \A n : Ahead(f, n) => Ahead(h, n)
        BY <1>1, <3>4, <3>5 DEF Ahead
      <3>7. ASSUME NEW x \in req'[q].mine PROVE Answers(req[q], x)'
        <4>1. CASE x \in f.mine
          <5>1. x \in Runs
            BY <1>1, <4>1 DEF Frame
          <5> QED BY <1>1, <1>3, <1>4, <3>6, <4>1, <5>1, AnswersMove
        <4>2. CASE x = r
          <5>1. entry'[r][1] = f.n
            <6>1. entry'[r] = e
              BY <1>1, <1>2
            <6> QED BY <6>1 DEF EntryOf
          <5>2. Ahead(h, f.n)
            BY <3>4, <3>5 DEF Ahead
          <5>3. Ahead(req[q], entry[r][1])'
            BY <1>1, <5>1, <5>2 DEF Ahead
          <5> QED BY <1>1, <1>2, <4>2, <5>3 DEF Answers, Astray
        <4> QED BY <1>1, <3>4, <4>1, <4>2
      <3> QED BY <2>1, <3>7 DEF RequestOK
    <2> QED BY <2>2, <2>3
  <1>9. Apart'
    BY <1>1, ApartKeeps
  <1>10. NoPanic'
    BY <1>1, <1>2 DEF MainInv, NoPanic
  <1> QED BY <1>5, <1>6, <1>7, <1>8, <1>9, <1>10 DEF MainInv

-----------------------------------------------------------------------------
\* pm.Stop

LEMMA StopBeginMain ==
    ASSUME TypeInv, MainInv, NEW q \in Requests, NEW f \in Frame, Shape(f),
           StopBegin(q, f), req[q] = f \/ (req[q] = Idle /\ f.mine = {})
    PROVE  MainInv'
  <1>0. <<f.n, processes[f.n]>> \in Entries
    BY StopBeginFacts, Zenon
  <1> PICK e \in Entries : e = <<f.n, processes[f.n]>>
    BY <1>0
  <1> PICK c, d : c = proc[e].cmd /\ d = proc[e].done
    OBVIOUS
  <1>1. /\ f.at = "stop" /\ req'[q].at \in {"wait", "after"}
        /\ req'[q].g = processes[f.n] /\ req'[q].n = f.n /\ req'[q].i = f.i
        /\ req'[q].mine = f.mine /\ req'[q].todo = f.todo
        /\ req'[q].r = d /\ req'[q].cmd = c
        /\ req'[q].at = "after" => c \notin {x \in Runs : child[x] # "command"}
        /\ \A p \in Requests \ {q} : req'[p] = req[p]
        /\ proc[e].status = "running"
        /\ proc'[e].status = "stopping" /\ proc'[e].cmd = c
        /\ proc'[e].cancel = proc[e].cancel /\ proc'[e].done = d
        /\ \A x \in Entries \ {e} : proc'[x] = proc[x]
        /\ UNCHANGED <<processes, gen, runs, entry, child, closed, panicked, monitor,
                       reused, lost>>
    BY StopBeginFacts, ZenonT(60)
  <1>2. req[q].at \in {"idle", "stop"}
    BY <1>1 DEF Idle
  <1>3. Grows
    BY <1>1 DEF Grows, TypeInv, TypeOK
  <1>4. \A x \in Runs : x \notin closed /\ entry[x] \notin reused /\ BeingStopped(x)
                           => BeingStopped(x)'
    BY <1>1, <1>2, BeingKeeps
  <1>5. /\ Belongs(c, e) /\ Belongs(d, e)
        /\ e \notin reused => c \in Runs /\ monitor[c].at = "wait"
    BY <1>1 DEF MainInv, EntryOK
  <1>6. e \notin reused => c \in Runs /\ entry[c] = e /\ d = c /\ BeingStopped(c)'
    <2> SUFFICES ASSUME e \notin reused
                 PROVE  c \in Runs /\ entry[c] = e /\ d = c /\ BeingStopped(c)'
      OBVIOUS
    <2>1. c \in Runs /\ entry[c] = e /\ monitor[c].at = "wait"
      BY <1>5, RunsAreCounted DEF Belongs
    <2>2. Attended(c)
      BY <2>1 DEF MainInv, RunOK
    <2>3. d = c /\ child[c] \in {"live", "exited"}
      BY <2>1, <2>2 DEF Attended
    <2>4. req'[q].at = "wait"
      BY <1>1, <2>1, <2>3
    <2> QED BY <1>1, <2>1, <2>3, <2>4 DEF BeingStopped
  <1>7. ASSUME NEW x \in Runs, monitor[x].at = "wait", entry[x] = e, e \notin reused
        PROVE  x = c
    <2>1. Attended(x)
      BY DEF MainInv, RunOK
    <2> QED BY <1>7, <2>1 DEF Attended
  <1>8. ASSUME NEW x \in Entries PROVE EntryOK(x)'
    <2>1. CASE x = e
      <3>1. Belongs(proc[e].cmd, e)' /\ Belongs(proc[e].done, e)'
        BY <1>1, <1>5 DEF Belongs
      <3> QED BY <1>1, <1>5, <2>1, <3>1 DEF EntryOK
    <2>2. CASE x # e
      <3>1. EntryOK(x)
        BY DEF MainInv
      <3> QED BY <1>1, <1>3, <2>2, <3>1, EntryKeeps DEF EntryOK
    <2> QED BY <2>1, <2>2
  <1>9. ASSUME NEW x \in Runs PROVE RunOK(x)'
    <2>1. RunOK(x)
      BY DEF MainInv
    <2>2. Unused(x)'
      BY <1>1, UnusedKeeps
    <2>3. Closes(x)'
      BY <1>1, <1>3, ClosesKeeps
    <2>4. Tracked(x)' = Tracked(x)
      BY <1>1 DEF Tracked
    <2>5. Attended(x)'
      <3> SUFFICES ASSUME monitor[x].at = "wait", entry[x] \notin reused
                   PROVE  Attended(x)'
        BY <1>1 DEF Attended
      <3>1. x \notin closed /\ entry[x] \in Entries
        BY <2>1 DEF RunOK, Closes, TypeInv, Watch
      <3>2. CASE entry[x] = e
        <4>1. x = c /\ BeingStopped(x)'
          BY <1>6, <1>7, <3>2
        <4>2. Attended(x)
          BY <2>1 DEF RunOK
        <4>3. /\ proc[e].cmd = x /\ proc[e].cancel = x /\ proc[e].done = x
              /\ child[x] \in {"live", "exited"}
          BY <3>2, <4>2 DEF Attended
        <4>4. /\ proc'[e].cmd = x /\ proc'[e].cancel = x /\ proc'[e].done = x
              /\ proc'[e].status = "stopping" /\ child'[x] \in {"live", "exited"}
              /\ entry'[x] = e
          BY <1>1, <3>2, <4>3
        <4> QED BY <4>1, <4>4 DEF Attended
      <3>3. CASE entry[x] # e
        BY <1>1, <1>3, <1>4, <2>4, <3>1, <3>3, AttendedKeeps
      <3> QED BY <3>2, <3>3
    <2>6. Reached(x)'
      BY <1>1, <1>2, <1>3, ReachedKeeps
    <2> QED BY <2>2, <2>3, <2>5, <2>6 DEF RunOK
  <1>10. ASSUME NEW p \in Requests \ {q} PROVE RequestOK(req[p])'
    <2>1. Making(req[p])'
      <3> SUFFICES ASSUME req[p].at \in {"spawn", "spawned"} PROVE Making(req[p])'
        BY <1>1 DEF Making
      <3>1. Tracked(req[p].r)' = Tracked(req[p].r)
        BY <1>1 DEF Tracked
      <3>2. Making(req[p]) /\ EntryOf(req[p]) \in Entries
        BY EntryOfIsOne DEF MainInv, RequestOK
      <3>3. EntryOf(req[p]) \notin reused => EntryOf(req[p]) # e
        BY <1>1, <3>2 DEF Making
      <3> QED BY <1>1, <1>3, <3>1, <3>2, <3>3, MakingKeeps
    <2>2. Ending(req[p])'
      BY <1>1, <1>3, EndingKeeps
    <2>3. ASSUME NEW x \in req[p].mine PROVE Answers(req[p], x)'
      <3>1. x \in Runs
        BY DEF TypeInv, TypeOK, Frame
      <3> QED BY <1>1, <1>3, <1>4, <3>1, AnswersKeep
    <2>4. \A x \in req'[p].mine : Answers(req[p], x)'
      BY <1>1, <2>3
    <2> QED BY <2>1, <2>2, <2>4 DEF RequestOK
  <1>11. RequestOK(req[q])'
    <2>1. EntryOf(req[q])' = e
      BY <1>1 DEF EntryOf
    <2>2. Making(req[q])'
      BY <1>1 DEF Making
    <2>3. Ending(req[q])'
      <3>1. Belongs(req[q].cmd, EntryOf(req[q]))'
        BY <1>1, <1>5, <2>1 DEF Belongs
      <3>2. e \notin reused => req'[q].at # "after"
        <4>1. e \notin reused => c \in Runs /\ child[c] \in {"live", "exited"}
          <5> SUFFICES ASSUME e \notin reused
                       PROVE  c \in Runs /\ child[c] \in {"live", "exited"}
            OBVIOUS
          <5>1. c \in Runs /\ entry[c] = e /\ monitor[c].at = "wait"
            BY <1>5, <1>6
          <5>2. Attended(c)
            BY <5>1 DEF MainInv, RunOK
          <5> QED BY <5>1, <5>2 DEF Attended
        <4> QED BY <1>1, <4>1
      <3> QED BY <1>1, <1>6, <2>1, <3>1, <3>2 DEF Ending
    <2>4. \A n : Ahead(f, n) /\ n # f.n => Ahead(req'[q], n)
      <3>1. CASE f.i = 0
        BY <1>1, <3>1 DEF Ahead
      <3>2. CASE f.i # 0
        <4>1. f.i \in 1 .. Len(Declared) /\ f.n = Order[f.i]
          BY <1>1, <3>2 DEF Shape
        <4>2. UpTo(f.i) = UpTo(f.i - 1) \cup {f.n}
          BY <4>1, Ranges
        <4> QED BY <1>1, <3>2, <4>2 DEF Ahead
      <3> QED BY <3>1, <3>2
    <2>5. ASSUME NEW x \in req'[q].mine PROVE Answers(req[q], x)'
      <3>1. req[q] = f /\ x \in req[q].mine
        BY <1>1
      <3>2. x \in Runs /\ Answers(f, x)
        BY <3>1 DEF TypeInv, TypeOK, Frame, MainInv, RequestOK
      <3>3. ASSUME entry[x] \notin reused, x \notin lost, child[x] = "live",
                   entry[x][1] = f.n
            PROVE  BeingStopped(x)'
        <4>1. monitor[x].at = "wait"
          BY <3>2, <3>3 DEF Answers, Live, Astray
        <4>2. Attended(x) /\ Closes(x) /\ entry[x] \in Entries
          BY <3>2, <4>1 DEF MainInv, RunOK, TypeInv, Watch
        <4>3. Tracked(x) \/ BeingStopped(x)
          BY <3>3, <4>1, <4>2 DEF Attended
        <4>4. CASE Tracked(x)
          <5>1. entry[x] = e
            BY <3>3, <4>2, <4>4 DEF Tracked, Entries
          <5> QED BY <1>6, <1>7, <3>2, <3>3, <4>1, <5>1
        <4>5. CASE BeingStopped(x)
          BY <1>4, <3>2, <3>3, <4>1, <4>2, <4>5 DEF Closes
        <4> QED BY <4>3, <4>4, <4>5
      <3> QED BY <1>1, <1>3, <1>4, <2>4, <3>1, <3>2, <3>3, AnswersMove
    <2> QED BY <2>2, <2>3, <2>5 DEF RequestOK
  <1>12. Apart'
    BY <1>1, ApartKeeps
  <1>13. NoPanic'
    BY <1>1 DEF MainInv, NoPanic
  <1> QED BY <1>8, <1>9, <1>10, <1>11, <1>12, <1>13 DEF MainInv

LEMMA StopEndMain ==
    ASSUME TypeInv, MainInv, NEW q \in Requests, StopEnd(q)
    PROVE  MainInv'
  <1> DEFINE f == req[q]
             h == StopReturns(f)
  <1>0. EntryOf(f) \in Entries
    BY StopEndFacts, Zenon
  <1> PICK e \in Entries : e = EntryOf(f)
    BY <1>0
  <1>1. /\ f \in Frame /\ Shape(f) /\ f.at = "after"
        /\ h.at \notin {"spawn", "spawned", "wait", "reap", "after"}
        /\ req'[q] = h /\ \A p \in Requests \ {q} : req'[p] = req[p]
        /\ proc[e].done # f.r => proc'[e] = proc[e]
        /\ proc'[e].status = proc[e].status /\ proc'[e].cmd = proc[e].cmd
        /\ proc'[e].done = proc[e].done
        /\ \A x \in Entries \ {e} : proc'[x] = proc[x]
        /\ UNCHANGED <<processes, gen, runs, entry, child, closed, panicked, monitor,
                       reused, lost>>
    BY StopEndFacts, Zenon
  <1> HIDE DEF h
  <1>2. e \notin reused => f.r \in closed
    BY <1>1 DEF MainInv, RequestOK, Ending
  <1>3. Grows
    BY <1>1 DEF Grows, TypeInv, TypeOK
  <1>4. \A x \in Runs : x \notin closed /\ entry[x] \notin reused /\ BeingStopped(x)
                           => BeingStopped(x)'
    BY <1>1, BeingKeeps
  <1>5. ASSUME NEW x \in Entries PROVE EntryOK(x)'
    <2>1. EntryOK(x)
      BY DEF MainInv
    <2>2. /\ proc'[x].status = proc[x].status /\ proc'[x].cmd = proc[x].cmd
          /\ proc'[x].done = proc[x].done
      BY <1>1
    <2> QED BY <1>1, <2>1, <2>2 DEF EntryOK, Belongs
  <1>6. ASSUME NEW x \in Runs PROVE RunOK(x)'
    <2>1. RunOK(x)
      BY DEF MainInv
    <2>2. Unused(x)'
      BY <1>1, UnusedKeeps
    <2>3. Closes(x)'
      BY <1>1, <1>3, ClosesKeeps
    <2>4. Attended(x)'
      <3>1. Tracked(x)' = Tracked(x)
        BY <1>1 DEF Tracked
      <3>2. monitor[x].at = "wait" /\ entry[x] \notin reused =>
               /\ x \notin closed /\ entry[x] \in Entries
               /\ proc[entry[x]].done = x
        BY <2>1 DEF RunOK, Closes, Attended, TypeInv, Watch
      <3>3. monitor[x].at = "wait" /\ entry[x] \notin reused =>
               proc'[entry[x]] = proc[entry[x]]
        BY <1>1, <1>2, <3>2
      <3> QED BY <1>1, <1>3, <1>4, <3>1, <3>2, <3>3, AttendedKeeps
    <2>5. Reached(x)'
      BY <1>1, <1>3, ReachedKeeps
    <2> QED BY <2>2, <2>3, <2>4, <2>5 DEF RunOK
  <1>7. ASSUME NEW p \in Requests \ {q} PROVE RequestOK(req[p])'
    <2>1. Making(req[p])'
      <3> SUFFICES ASSUME req[p].at \in {"spawn", "spawned"} PROVE Making(req[p])'
        BY <1>1 DEF Making
      <3>1. Tracked(req[p].r)' = Tracked(req[p].r)
        BY <1>1 DEF Tracked
      <3>2. Making(req[p]) /\ EntryOf(req[p]) \in Entries
        BY EntryOfIsOne DEF MainInv, RequestOK
      <3>3. EntryOf(req[p]) \notin reused =>
               proc'[EntryOf(req[p])] = proc[EntryOf(req[p])]
        BY <1>1, <1>2, <3>2 DEF Making
      <3> QED BY <1>1, <1>3, <3>1, <3>3, MakingKeeps
    <2>2. Ending(req[p])'
      BY <1>1, <1>3, EndingKeeps
    <2>3. ASSUME NEW x \in req[p].mine PROVE Answers(req[p], x)'
      <3>1. x \in Runs
        BY DEF TypeInv, TypeOK, Frame
      <3> QED BY <1>1, <1>3, <1>4, <3>1, AnswersKeep
    <2>4. \A x \in req'[p].mine : Answers(req[p], x)'
      BY <1>1, <2>3
    <2> QED BY <2>1, <2>2, <2>4 DEF RequestOK
  <1>8. RequestOK(req[q])'
    <2>1. Making(req[q])' /\ Ending(req[q])'
      BY <1>1 DEF Making, Ending
    <2>2. \/ h.mine = {}
          \/ h.mine = f.mine /\ \A n : Ahead(f, n) => Ahead(h, n)
      BY <1>1, StopReturnsAhead DEF h
    <2>3. ASSUME NEW x \in req'[q].mine PROVE Answers(req[q], x)'
      <3>1. x \in f.mine /\ x \in Runs
        BY <1>1, <2>2 DEF Frame
      <3> QED BY <1>1, <1>3, <1>4, <2>2, <3>1, AnswersMove
    <2> QED BY <2>1, <2>3 DEF RequestOK
  <1>9. Apart'
    BY <1>1, ApartKeeps
  <1>10. NoPanic'
    BY <1>1 DEF MainInv, NoPanic
  <1> QED BY <1>5, <1>6, <1>7, <1>8, <1>9, <1>10 DEF MainInv

-----------------------------------------------------------------------------
\* Create, RemoveProcess and the next start of the program.

LEMMA RemoveMain ==
    ASSUME TypeInv, MainInv, NEW q \in Requests, RemoveProcess(q) \/ CreateEnd(q)
    PROVE  MainInv'
  <1>0. RemoveProcess(q) \/ CreateEnd(q)
    OBVIOUS
  <1>1. /\ \A p \in Requests \ {q} : req'[p] = req[p]
        /\ \/ req'[q] = Idle
           \/ req'[q].at \in {"remove", "forget"} /\ req'[q].mine = req[q].mine
        /\ req[q].at \in {"save", "remove"} /\ (req[q].at = "save" <=> req'[q] = Idle)
        /\ \A n \in Names : processes'[n] # processes[n] =>
              processes'[n] = 0 /\ ~Busy(n)
        /\ UNCHANGED <<proc, gen, runs, entry, child, closed, panicked, monitor,
                       reused, lost>>
    BY <1>0, RemoveFacts, Zenon
  <1>2. req'[q].at \notin {"spawn", "spawned", "wait", "reap", "after"}
    BY <1>1 DEF Idle
  <1>3. Grows
    BY <1>1 DEF Grows, TypeInv, TypeOK
  <1>4. \A x \in Runs : x \notin closed /\ entry[x] \notin reused /\ BeingStopped(x)
                           => BeingStopped(x)'
    BY <1>1, BeingKeeps
  <1>5. ASSUME NEW x \in Runs, entry[x] \in Entries, Tracked(x)
        PROVE  Tracked(x)' \/ proc[entry[x]].status \notin {"running", "starting"}
    <2>1. PICK n \in Names, g \in 1 .. MaxGen : entry[x] = <<n, g>>
      BY <1>5 DEF Entries
    <2>2. processes[n] = g /\ g # 0 /\ entry'[x] = <<n, g>>
      BY <1>1, <1>5, <2>1 DEF Tracked
    <2>3. CASE processes'[n] = processes[n]
      BY <2>2, <2>3 DEF Tracked
    <2>4. CASE processes'[n] # processes[n]
      BY <1>1, <2>1, <2>2, <2>4 DEF Busy
    <2> QED BY <2>3, <2>4
  <1>6. ASSUME NEW x \in Entries PROVE EntryOK(x)'
    BY <1>1 DEF MainInv, EntryOK, Belongs
  <1>7. ASSUME NEW x \in Runs PROVE RunOK(x)'
    <2>1. RunOK(x)
      BY DEF MainInv
    <2>2. Unused(x)' /\ Closes(x)'
      BY <1>1, <2>1 DEF RunOK, Unused, Closes, Belongs
    <2>3. Attended(x)'
      <3>1. monitor[x].at = "wait" /\ entry[x] \notin reused =>
               x \notin closed /\ entry[x] \in Entries
        BY <2>1 DEF RunOK, Closes, TypeInv, Watch
      <3> QED BY <1>1, <1>3, <1>4, <1>5, <3>1, AttendedKeeps
    <2>4. Reached(x)'
      BY <1>1, <1>3, ReachedKeeps
    <2> QED BY <2>2, <2>3, <2>4 DEF RunOK
  <1>8. ASSUME NEW p \in Requests \ {q} PROVE RequestOK(req[p])'
    <2>1. Making(req[p])'
      <3> SUFFICES ASSUME req[p].at \in {"spawn", "spawned"} PROVE Making(req[p])'
        BY <1>1 DEF Making
      <3>1. Making(req[p]) /\ req[p].r \in Runs /\ entry[req[p].r] \in Entries
        BY DEF MainInv, RequestOK, TypeInv, Grip
      <3> PICK x \in Runs : x = req[p].r
        BY <3>1
      <3>2. EntryOf(req[p]) \notin reused /\ Tracked(x) => Tracked(x)'
        BY <1>5, <3>1 DEF Making
      <3>3. Tracked(req[p].r)' = Tracked(x)'
        BY <1>1
      <3> QED BY <1>1, <1>3, <3>2, <3>3, MakingKeeps
    <2>2. Ending(req[p])'
      BY <1>1, <1>3, EndingKeeps
    <2>3. ASSUME NEW x \in req[p].mine PROVE Answers(req[p], x)'
      <3>1. x \in Runs
        BY DEF TypeInv, TypeOK, Frame
      <3> QED BY <1>1, <1>3, <1>4, <3>1, AnswersKeep
    <2>4. \A x \in req'[p].mine : Answers(req[p], x)'
      BY <1>1, <2>3
    <2> QED BY <2>1, <2>2, <2>4 DEF RequestOK
  <1>9. RequestOK(req[q])'
    <2>1. Making(req[q])' /\ Ending(req[q])'
      BY <1>2 DEF Making, Ending
    <2>2. ASSUME NEW x \in req'[q].mine PROVE Answers(req[q], x)'
      <3>1. req[q].at = "remove" /\ x \in req[q].mine
        BY <1>1 DEF Idle
      <3>2. x \in Runs
        BY <3>1 DEF TypeInv, TypeOK, Frame
      <3>3. \A n : ~Ahead(req[q], n)
        BY <3>1 DEF Ahead
      <3> QED BY <1>1, <1>3, <1>4, <3>1, <3>2, <3>3, AnswersMove
    <2> QED BY <2>1, <2>2 DEF RequestOK
  <1>10. Apart'
    BY <1>1, <1>2, ApartKeeps
  <1>11. NoPanic'
    BY <1>1 DEF MainInv, NoPanic
  <1> QED BY <1>6, <1>7, <1>8, <1>9, <1>10, <1>11 DEF MainInv

LEMMA CreateMain ==
    ASSUME TypeInv, MainInv, NEW q \in Requests, Create(q)
    PROVE  MainInv'
  <1>1. /\ req[q] = Idle
        /\ req'[q] = [Idle EXCEPT !.op = "create", !.at = "save"]
        /\ \A p \in Requests \ {q} : req'[p] = req[p]
        /\ \A e \in Entries : e[2] <= gen[e[1]] => proc'[e] = proc[e]
        /\ \A e \in Entries : proc'[e] \in {Fresh, proc[e]}
        /\ \A n \in Names \ Instances : processes'[n] = processes[n]
        /\ lost \subseteq lost'
        /\ \A r \in Runs : (\E n \in Instances : entry[r] = <<n, processes[n]>>)
                              => r \in lost'
        /\ UNCHANGED <<runs, entry, child, closed, panicked, monitor, reused>>
    BY CreateFacts, Zenon
  <1>2. req'[q].at = "save" /\ req'[q].mine = {} /\ req[q].at = "idle"
    BY <1>1 DEF Idle
  <1>3. Grows
    BY <1>1 DEF Grows, TypeInv, TypeOK
  <1>4. \A x \in Runs : x \notin closed /\ entry[x] \notin reused /\ BeingStopped(x)
                           => BeingStopped(x)'
    BY <1>1, <1>2, BeingKeeps
  <1>5. ASSUME NEW x \in Runs, entry[x] \in Entries
        PROVE  /\ proc'[entry[x]] = proc[entry[x]]
               /\ Tracked(x) => Tracked(x)' \/ x \in lost'
    <2>1. PICK n \in Names, g \in 1 .. MaxGen : entry[x] = <<n, g>>
      BY <1>5 DEF Entries
    <2>2. g <= gen[n]
      BY <1>5, <2>1 DEF TypeInv, Watch
    <2>3. proc'[entry[x]] = proc[entry[x]]
      BY <1>1, <1>5, <2>1, <2>2
    <2>4. ASSUME Tracked(x) PROVE Tracked(x)' \/ x \in lost'
      <3>1. processes[n] = g /\ entry'[x] = <<n, g>>
        BY <1>1, <2>1, <2>4 DEF Tracked
      <3>2. CASE n \in Instances
        BY <1>1, <2>1, <3>1, <3>2
      <3>3. CASE n \notin Instances
        BY <1>1, <3>1, <3>3 DEF Tracked
      <3> QED BY <3>2, <3>3
    <2> QED BY <2>3, <2>4
  <1>6. ASSUME NEW x \in Entries PROVE EntryOK(x)'
    <2>1. CASE proc'[x] = Fresh
      <3>1. /\ proc'[x].cmd = 0 /\ proc'[x].done = 0 /\ proc'[x].status = "stopped"
        BY <2>1 DEF Fresh
      <3> QED BY <3>1 DEF EntryOK, Belongs
    <2>2. CASE proc'[x] = proc[x]
      BY <1>1, <2>2 DEF MainInv, EntryOK, Belongs
    <2> QED BY <1>1, <2>1, <2>2
  <1>7. ASSUME NEW x \in Runs PROVE RunOK(x)'
    <2>1. RunOK(x)
      BY DEF MainInv
    <2>2. Unused(x)' /\ Closes(x)'
      BY <1>1, <2>1 DEF RunOK, Unused, Closes, Belongs
    <2>3. Attended(x)'
      <3>1. monitor[x].at = "wait" /\ entry[x] \notin reused =>
               x \notin closed /\ entry[x] \in Entries
        BY <2>1 DEF RunOK, Closes, TypeInv, Watch
      <3> QED BY <1>1, <1>3, <1>4, <1>5, <3>1, AttendedKeeps
    <2>4. Reached(x)'
      BY <1>1, <1>2, <1>3, ReachedKeeps
    <2> QED BY <2>2, <2>3, <2>4 DEF RunOK
  <1>8. ASSUME NEW p \in Requests \ {q} PROVE RequestOK(req[p])'
    <2>1. Making(req[p])'
      <3> SUFFICES ASSUME req[p].at \in {"spawn", "spawned"} PROVE Making(req[p])'
        BY <1>1 DEF Making
      <3>1. Making(req[p]) /\ req[p].r \in Runs /\ entry[req[p].r] \in Entries
        BY DEF MainInv, RequestOK, TypeInv, Grip
      <3> PICK x \in Runs : x = req[p].r
        BY <3>1
      <3>2. entry[x] = EntryOf(req[p])
        BY <3>1 DEF Making
      <3>3. /\ proc'[EntryOf(req[p])] = proc[EntryOf(req[p])]
            /\ Tracked(x) => Tracked(x)' \/ x \in lost'
        BY <1>5, <3>1, <3>2
      <3>4. Tracked(req[p].r)' = Tracked(x)'
        BY <1>1
      <3> QED BY <1>1, <1>3, <3>3, <3>4, MakingKeeps
    <2>2. Ending(req[p])'
      BY <1>1, <1>3, EndingKeeps
    <2>3. ASSUME NEW x \in req[p].mine PROVE Answers(req[p], x)'
      <3>1. x \in Runs
        BY DEF TypeInv, TypeOK, Frame
      <3> QED BY <1>1, <1>3, <1>4, <3>1, AnswersKeep
    <2>4. \A x \in req'[p].mine : Answers(req[p], x)'
      BY <1>1, <2>3
    <2> QED BY <2>1, <2>2, <2>4 DEF RequestOK
  <1>9. RequestOK(req[q])'
    BY <1>2 DEF RequestOK, Making, Ending
  <1>10. Apart'
    BY <1>1, <1>2, ApartKeeps
  <1>11. NoPanic'
    BY <1>1 DEF MainInv, NoPanic
  <1> QED BY <1>6, <1>7, <1>8, <1>9, <1>10, <1>11 DEF MainInv

LEMMA RestartMain ==
    ASSUME TypeInv, MainInv, NEW q \in Requests, Restart(q)
    PROVE  MainInv'
  <1>1. /\ proc' = [e \in Entries |-> Fresh] /\ monitor' = [r \in Runs |-> NoMonitor]
        /\ req' = [p \in Requests |-> Idle]
        /\ req[q].at = "sweep" /\ req[q].todo = {} /\ lost \subseteq lost'
        /\ \A r \in Runs : Live(r) /\ r \notin req[q].mine => r \in lost'
        /\ \A r \in Runs : Live(r) /\ BeingStopped(r) => r \in lost'
        /\ UNCHANGED <<runs, entry, child, closed, panicked, reused>>
    BY RestartFacts, Zenon
  <1>2. \A e \in Entries : EntryOK(e)'
    BY <1>1 DEF EntryOK, Belongs, Fresh
  <1>3. ASSUME NEW r \in Runs PROVE RunOK(r)'
    <2>1. RunOK(r)
      BY DEF MainInv
    <2>2. monitor'[r].at = "none"
      BY <1>1 DEF NoMonitor
    <2>3. Unused(r)' /\ Closes(r)' /\ Attended(r)'
      BY <1>1, <2>1, <2>2 DEF RunOK, Unused, Closes, Attended
    <2>4. Live(r) => r \in lost' \/ entry[r] \in reused
      <3> SUFFICES ASSUME Live(r), ~Astray(r), r \in req[q].mine PROVE r \in lost'
        BY <1>1 DEF Astray
      <3>1. Answers(req[q], r)
        BY DEF MainInv, RequestOK
      <3>2. \A n : ~Ahead(req[q], n)
        BY <1>1 DEF Ahead
      <3> QED BY <1>1, <3>1, <3>2 DEF Answers
    <2>5. Reached(r)'
      BY <1>1, <2>4 DEF Reached, Live, Astray
    <2> QED BY <2>3, <2>5 DEF RunOK
  <1>4. \A p \in Requests : RequestOK(req[p])'
    <2>1. \A p \in Requests : req'[p].at = "idle" /\ req'[p].mine = {}
      BY <1>1 DEF Idle
    <2> QED BY <2>1 DEF RequestOK, Making, Ending
  <1>5. Apart'
    BY <1>1 DEF Apart, Idle
  <1>6. NoPanic'
    BY <1>1 DEF MainInv, NoPanic
  <1> QED BY <1>2, <1>3, <1>4, <1>5, <1>6 DEF MainInv

-----------------------------------------------------------------------------
\* The children and the goroutines that wait for them.

LEMMA ExitMain ==
    ASSUME TypeInv, MainInv, NEW r \in Runs, ChildExits(r)
    PROVE  MainInv'
  <1>1. /\ Live(r) /\ child'[r] = "exited" /\ \A x \in Runs \ {r} : child'[x] = child[x]
        /\ UNCHANGED <<processes, proc, gen, runs, entry, closed, panicked, monitor,
                       req, reused, lost>>
    BY ExitFacts, Zenon
  <1>2. Grows
    BY <1>1 DEF Grows, TypeInv, TypeOK
  <1>3. \A x : BeingStopped(x)' = BeingStopped(x) /\ Tracked(x)' = Tracked(x)
    BY <1>1 DEF BeingStopped, Tracked
  <1>4. \A e \in Entries : EntryOK(e)'
    BY <1>1 DEF MainInv, EntryOK, Belongs
  <1>5. ASSUME NEW x \in Runs PROVE RunOK(x)'
    <2>1. RunOK(x)
      BY DEF MainInv
    <2>2. x > runs => x # r
      BY <1>1, <2>1 DEF RunOK, Unused, Live
    <2>3. Unused(x)'
      BY <1>1, <2>2, UnusedKeeps
    <2>4. Closes(x)'
      BY <1>1, <1>2, ClosesKeeps
    <2>5. Attended(x)'
      BY <1>1, <1>2, <1>3, AttendedKeeps
    <2>6. Reached(x)'
      BY <1>1, <1>2, ReachedKeeps
    <2> QED BY <2>3, <2>4, <2>5, <2>6 DEF RunOK
  <1>6. ASSUME NEW p \in Requests PROVE RequestOK(req[p])'
    <2>1. Making(req[p])'
      <3>1. req[p].at \in {"spawn", "spawned"} => req[p].r \in Runs
        BY DEF TypeInv, Grip
      <3>2. Tracked(req[p].r)' = Tracked(req[p].r)
        BY <1>1 DEF Tracked
      <3> QED BY <1>1, <1>2, <3>1, <3>2, MakingKeeps DEF Live
    <2>2. Ending(req[p])'
      BY <1>1, <1>2, EndingKeeps
    <2>3. ASSUME NEW x \in req[p].mine PROVE Answers(req[p], x)'
      <3>1. x \in Runs
        BY DEF TypeInv, TypeOK, Frame
      <3> QED BY <1>1, <1>2, <1>3, <3>1, AnswersKeep
    <2>4. \A x \in req'[p].mine : Answers(req[p], x)'
      BY <1>1, <2>3
    <2> QED BY <2>1, <2>2, <2>4 DEF RequestOK
  <1>7. Apart' /\ NoPanic'
    BY <1>1 DEF MainInv, Apart, NoPanic
  <1> QED BY <1>4, <1>5, <1>6, <1>7 DEF MainInv

LEMMA LockMain ==
    ASSUME TypeInv, MainInv, NEW r \in Runs, MonitorLock(r)
    PROVE  MainInv'
  <1>0. entry[r] \in Entries
    BY LockFacts, Zenon
  <1> PICK e \in Entries : e = entry[r]
    BY <1>0
  <1>1. /\ monitor[r].at = "wait" /\ child[r] = "exited"
        /\ proc'[e].status \in {"stopped", "failed"} /\ proc'[e].cmd = 0
        /\ proc'[e].done = proc[e].done
        /\ \A x \in Entries \ {e} : proc'[x] = proc[x]
        /\ monitor'[r].at = "unlocked" /\ monitor'[r].done = monitor[r].done
        /\ \A x \in Runs \ {r} : monitor'[x] = monitor[x]
        /\ UNCHANGED <<processes, gen, runs, entry, child, closed, panicked, req,
                       reused, lost>>
    BY LockFacts, Zenon
  <1>2. Grows
    BY <1>1 DEF Grows, TypeInv, TypeOK
  <1>3. \A x : BeingStopped(x)' = BeingStopped(x) /\ Tracked(x)' = Tracked(x)
    BY <1>1 DEF BeingStopped, Tracked
  <1>4. /\ Closes(r)
        /\ e \notin reused => /\ proc[e].cmd = r
                              /\ proc[e].status \in {"running", "stopping"}
    BY <1>1 DEF MainInv, RunOK, Attended
  <1>5. ASSUME NEW x \in Entries PROVE EntryOK(x)'
    <2>1. EntryOK(x)
      BY DEF MainInv
    <2>2. CASE x = e
      BY <1>1, <2>1, <2>2 DEF EntryOK, Belongs
    <2>3. CASE x # e
      <3>1. x \notin reused /\ proc[x].status \in {"running", "stopping"} =>
               /\ proc[x].cmd \in Runs /\ entry[proc[x].cmd] = x
               /\ monitor[proc[x].cmd].at = "wait"
        BY <2>1, RunsAreCounted DEF EntryOK, Belongs
      <3> QED BY <1>1, <1>2, <2>3, <3>1, EntryKeeps
    <2> QED BY <2>2, <2>3
  <1>6. ASSUME NEW x \in Runs PROVE RunOK(x)'
    <2>1. RunOK(x)
      BY DEF MainInv
    <2>2. x > runs => x # r
      BY <1>1, <2>1 DEF RunOK, Unused
    <2>3. Unused(x)'
      BY <1>1, <2>2, UnusedKeeps
    <2>4. Reached(x)'
      BY <1>1, <1>2, ReachedKeeps DEF Live
    <2>5. CASE x = r
      <3>1. Closes(x)'
        BY <1>1, <1>4, <2>5 DEF Closes, Belongs
      <3>2. Attended(x)'
        BY <1>1, <2>5 DEF Attended
      <3> QED BY <2>3, <2>4, <3>1, <3>2 DEF RunOK
    <2>6. CASE x # r
      <3>1. Closes(x)'
        BY <1>1, <1>2, <2>6, ClosesKeeps
      <3>2. monitor[x].at = "wait" /\ entry[x] \notin reused =>
               entry[x] # e /\ entry[x] \in Entries
        BY <1>4, <2>1, <2>6 DEF RunOK, Attended, TypeInv, Watch
      <3>3. Attended(x)'
        BY <1>1, <1>2, <1>3, <2>6, <3>2, AttendedKeeps
      <3> QED BY <2>3, <2>4, <3>1, <3>3 DEF RunOK
    <2> QED BY <2>5, <2>6
  <1>7. ASSUME NEW p \in Requests PROVE RequestOK(req[p])'
    <2>1. Making(req[p])'
      <3> SUFFICES ASSUME req[p].at \in {"spawn", "spawned"} PROVE Making(req[p])'
        BY <1>1 DEF Making
      <3>1. Making(req[p]) /\ EntryOf(req[p]) \in Entries /\ req[p].r \in Runs
        BY EntryOfIsOne DEF MainInv, RequestOK, TypeInv, Grip
      <3>2. /\ req[p].r # r
            /\ EntryOf(req[p]) \notin reused => EntryOf(req[p]) # e
        BY <1>1, <1>4, <3>1 DEF Making
      <3>3. Tracked(req[p].r)' = Tracked(req[p].r)
        BY <1>1 DEF Tracked
      <3> QED BY <1>1, <1>2, <3>1, <3>2, <3>3, MakingKeeps
    <2>2. Ending(req[p])'
      BY <1>1, <1>2, EndingKeeps
    <2>3. ASSUME NEW x \in req[p].mine PROVE Answers(req[p], x)'
      <3>1. x \in Runs
        BY DEF TypeInv, TypeOK, Frame
      <3> QED BY <1>1, <1>2, <1>3, <3>1, AnswersKeep
    <2>4. \A x \in req'[p].mine : Answers(req[p], x)'
      BY <1>1, <2>3
    <2> QED BY <2>1, <2>2, <2>4 DEF RequestOK
  <1>8. Apart' /\ NoPanic'
    BY <1>1 DEF MainInv, Apart, NoPanic
  <1> QED BY <1>5, <1>6, <1>7, <1>8 DEF MainInv

LEMMA CloseMain ==
    ASSUME TypeInv, MainInv, NEW r \in Runs, MonitorClose(r)
    PROVE  MainInv'
  <1>0. monitor[r].done \in Runs
    BY CloseFacts, Zenon
  <1> PICK d \in Runs : d = monitor[r].done
    BY <1>0
  <1>1. /\ monitor[r].at = "unlocked" /\ closed' = closed \cup {d}
        /\ panicked' = panicked \cup ({d} \cap closed)
        /\ monitor'[r].at = "ended" /\ \A x \in Runs \ {r} : monitor'[x] = monitor[x]
        /\ UNCHANGED <<processes, proc, gen, runs, entry, child, req, reused, lost>>
    BY CloseFacts, Zenon
  <1>2. Grows
    BY <1>1 DEF Grows, TypeInv, TypeOK
  <1>3. \A x : BeingStopped(x)' = BeingStopped(x) /\ Tracked(x)' = Tracked(x)
    BY <1>1 DEF BeingStopped, Tracked
  <1>4. /\ entry[r] \in Entries /\ entry[d] = entry[r]
        /\ entry[r] \notin reused => d = r /\ r \notin closed
    <2>1. Closes(r) /\ entry[r] \in Entries
      BY <1>1 DEF MainInv, RunOK, TypeInv, Watch
    <2> QED BY <1>1, <2>1, RunsAreCounted DEF Closes, Belongs
  <1>5. ~(r > runs) /\ ~(d > runs)
    BY <1>4, NoEntry DEF MainInv, RunOK, Unused
  <1>6. ASSUME NEW x \in Entries PROVE EntryOK(x)'
    <2>1. EntryOK(x)
      BY DEF MainInv
    <2>2. x \notin reused /\ proc[x].status \in {"running", "stopping"} =>
             monitor'[proc[x].cmd].at = "wait"
      BY <1>1, <2>1 DEF EntryOK
    <2> QED BY <1>1, <1>2, <2>2, EntryKeeps
  <1>7. ASSUME NEW x \in Runs PROVE RunOK(x)'
    <2>1. RunOK(x)
      BY DEF MainInv
    <2>2. Unused(x)'
      BY <1>1, <1>5, UnusedKeeps
    <2>3. Reached(x)'
      BY <1>1, <1>2, ReachedKeeps
    <2>4. CASE x = r
      BY <1>1, <2>2, <2>3, <2>4 DEF RunOK, Closes, Attended
    <2>5. CASE x # r
      <3>1. Closes(x)'
        BY <1>1, <1>2, <1>4, <2>5, ClosesKeeps
      <3>2. Attended(x)'
        BY <1>1, <1>2, <1>3, <2>5, AttendedKeeps
      <3> QED BY <2>2, <2>3, <3>1, <3>2 DEF RunOK
    <2> QED BY <2>4, <2>5
  <1>8. ASSUME NEW p \in Requests PROVE RequestOK(req[p])'
    <2>1. Making(req[p])'
      <3> SUFFICES ASSUME req[p].at \in {"spawn", "spawned"} PROVE Making(req[p])'
        BY <1>1 DEF Making
      <3>1. Making(req[p]) /\ req[p].r \in Runs
        BY DEF MainInv, RequestOK, TypeInv, Grip
      <3>2. /\ req[p].r # r
            /\ EntryOf(req[p]) \notin reused => req[p].r # d
        BY <1>1, <1>4, <3>1 DEF Making
      <3>3. Tracked(req[p].r)' = Tracked(req[p].r)
        BY <1>1 DEF Tracked
      <3> QED BY <1>1, <1>2, <3>1, <3>2, <3>3, MakingKeeps
    <2>2. Ending(req[p])'
      BY <1>1, <1>2, EndingKeeps
    <2>3. ASSUME NEW x \in req[p].mine PROVE Answers(req[p], x)'
      <3>1. x \in Runs
        BY DEF TypeInv, TypeOK, Frame
      <3> QED BY <1>1, <1>2, <1>3, <3>1, AnswersKeep
    <2>4. \A x \in req'[p].mine : Answers(req[p], x)'
      BY <1>1, <2>3
    <2> QED BY <2>1, <2>2, <2>4 DEF RequestOK
  <1>9. Apart'
    BY <1>1 DEF MainInv, Apart
  <1>10. NoPanic'
    BY <1>1, <1>4 DEF MainInv, NoPanic
  <1> QED BY <1>6, <1>7, <1>8, <1>9, <1>10 DEF MainInv

-----------------------------------------------------------------------------
\* The invariant, and what follows from it.

LEMMA MainStart == Init => MainInv
  <1> SUFFICES ASSUME Init PROVE MainInv
    OBVIOUS
  <1>1. \A e \in Entries : EntryOK(e)
    BY DEF Init, EntryOK, Belongs, Fresh
  <1>2. ASSUME NEW r \in Runs PROVE RunOK(r)
    <2>1. /\ entry[r] = <<None, 0>> /\ child[r] = "none" /\ monitor[r].at = "none"
          /\ closed = {} /\ ~(r <= runs)
      BY DEF Init, NoMonitor, Runs
    <2> QED BY <2>1 DEF RunOK, Unused, Closes, Attended, Reached, Live
  <1>3. \A q \in Requests : RequestOK(req[q])
    <2>1. \A q \in Requests : req[q].at = "idle" /\ req[q].mine = {}
      BY DEF Init, Idle
    <2> QED BY <2>1 DEF RequestOK, Making, Ending
  <1>4. Apart /\ NoPanic
    BY DEF Init, Apart, NoPanic, Idle
  <1> QED BY <1>1, <1>2, <1>3, <1>4 DEF MainInv

LEMMA MainStep == TypeInv /\ MainInv /\ [Next]_vars => MainInv'
  <1> SUFFICES ASSUME TypeInv, MainInv, [Next]_vars PROVE MainInv'
    OBVIOUS
  <1>1. CASE UNCHANGED vars
    <2>1. UNCHANGED <<processes, proc, runs, entry, child, closed, panicked, monitor,
                      req, reused, lost>>
      BY <1>1 DEF vars, table, os, history
    <2>2. (\A e \in Entries : EntryOK(e))' /\ Apart' /\ NoPanic'
      BY <2>1 DEF MainInv, EntryOK, Belongs, Apart, NoPanic
    <2>3. ASSUME NEW r \in Runs PROVE RunOK(r)'
      BY <2>1 DEF MainInv, RunOK, Unused, Closes, Belongs, Attended, Reached, Tracked,
                  BeingStopped, Live, Astray
    <2>4. ASSUME NEW q \in Requests PROVE RequestOK(req[q])'
      <3>1. RequestOK(req[q])
        BY DEF MainInv
      <3>2. Making(req[q])' /\ Ending(req[q])'
        BY <2>1, <3>1 DEF RequestOK, Making, Ending, EntryOf, Belongs, Tracked
      <3>3. \A r : Answers(req[q], r)' = Answers(req[q], r)
        BY <2>1 DEF Answers, Astray, Live, BeingStopped, Ahead
      <3> QED BY <2>1, <3>1, <3>2, <3>3 DEF RequestOK
    <2> QED BY <2>2, <2>3, <2>4 DEF MainInv
  <1>2. CASE \E r \in Runs : ChildExits(r) \/ MonitorLock(r) \/ MonitorClose(r)
    BY <1>2, ExitMain, LockMain, CloseMain
  <1>3. ASSUME NEW q \in Requests, Begin(q) PROVE MainInv'
    <2>1. ASSUME NEW n \in Names, ProcessStart(q, n) PROVE MainInv'
      BY <2>1, DirectShape, StartBeginMain DEF ProcessStart
    <2>2. ASSUME NEW n \in Names, ProcessStop(q, n) PROVE MainInv'
      BY <2>2, DirectShape, StopBeginMain DEF ProcessStop
    <2> QED BY <1>3, <2>1, <2>2, MovesMain, CreateMain DEF Begin
  <1>4. ASSUME NEW q \in Requests, Step(q) PROVE MainInv'
    <2>1. req[q] \in Frame /\ Shape(req[q])
      BY DEF TypeInv, TypeOK
    <2> QED BY <1>4, <2>1, MovesMain, StartBeginMain, SpawnFailsMain, SpawnMain,
               StartEndMain, StopBeginMain, StopEndMain, RemoveMain, RestartMain
            DEF Step
  <1> QED BY <1>1, <1>2, <1>3, <1>4 DEF Next

LEMMA Always == Spec => [](TypeInv /\ MainInv)
  BY TypeStart, TypeStep, MainStart, MainStep, PTL DEF Spec

\* No done channel is closed twice, so the program never panics, however Start,
\* Stop, Delete, Create and a shutdown overlap, unless the channel belongs to a
\* process that was started while it was stopping.
THEOREM NoDoubleClose == Spec => []NoPanic
  <1>1. MainInv => NoPanic
    BY DEF MainInv
  <1> QED BY <1>1, Always, PTL

\* Every child that lives can be stopped by its name, or is being stopped, however
\* requests overlap, but for the children of a process that was started while it
\* was stopping, of an entry that Create replaced, and of requests that the end
\* of the program cut off.
THEOREM ChildrenAreTracked == Spec => []LiveIsTracked
  <1>1. TypeInv /\ MainInv => LiveIsTracked
    <2> SUFFICES ASSUME TypeInv, MainInv, NEW r \in Runs, Live(r), ~Astray(r)
                 PROVE  LET n == entry[r][1]
                            p == proc[entry[r]]
                        IN /\ p.cmd = r /\ p.cancel = r
                           /\ p.status \in {"starting", "running", "stopping"}
                           /\ processes[n] # entry[r][2] \/ p.status = "stopping"
                                 => BeingStopped(r)
      BY DEF LiveIsTracked
    <2>1. Attended(r) /\ Reached(r)
      BY DEF MainInv, RunOK
    <2>2. CASE monitor[r].at = "wait"
      BY <2>1, <2>2 DEF Attended, Astray, Tracked
    <2>3. CASE \E q \in Requests : req[q].at = "spawned" /\ req[q].r = r
      <3>1. PICK q \in Requests : req[q].at = "spawned" /\ req[q].r = r
        BY <2>3
      <3>2. Making(req[q])
        BY DEF MainInv, RequestOK
      <3>3. entry[r] = EntryOf(req[q])
        BY <3>1, <3>2 DEF Making
      <3>4. /\ proc[entry[r]] = [status |-> "starting", cmd |-> r, cancel |-> r,
                                 done |-> r]
            /\ Tracked(r)
        BY <3>1, <3>2, <3>3 DEF Making, Astray
      <3> QED BY <3>4 DEF Tracked
    <2> QED BY <2>1, <2>2, <2>3 DEF Reached
  <1> QED BY <1>1, Always, PTL

\* A Start of the project that fails leaves no child that it made, and Stop and
\* Delete none that ran when they began, unless another request is about to stop
\* it: "rolls back partial state", whatever is started and stopped directly
\* meanwhile.
THEOREM StartRollsBack == Spec => []StartIsAllOrNothing
  <1>1. TypeInv /\ MainInv => StartIsAllOrNothing
    <2> SUFFICES ASSUME TypeInv, MainInv, NEW q \in Requests, NEW r \in req[q].mine,
                        req[q].at = "unlock", req[q].i <= Len(Order),
                        Live(r), ~Astray(r)
                 PROVE  BeingStopped(r)
      BY DEF StartIsAllOrNothing
    <2>1. Answers(req[q], r)
      BY DEF MainInv, RequestOK
    <2>2. req[q].i \in Nat /\ Len(Order) = Len(Declared) /\ Len(Declared) \in Nat
      BY OrderFacts, Positions DEF TypeInv, TypeOK, Frame
    <2>3. ~Ahead(req[q], entry[r][1])
      BY <2>2 DEF Ahead
    <2> QED BY <2>1, <2>3 DEF Answers
  <1> QED BY <1>1, Always, PTL

\* When a request stops a sim of the project, no backend that the request answers
\* for is alive, unless another request is about to stop it.
THEOREM BackendsStopFirst == Spec => []SimOutlivesBackends
  <1>1. TypeInv /\ MainInv => SimOutlivesBackends
    <2> SUFFICES ASSUME TypeInv, MainInv, NEW q \in Requests, NEW r \in req[q].mine,
                        req[q].at \in {"wait", "reap"}, req[q].i # 0,
                        Kind[req[q].n] = "sim", Live(r), ~Astray(r),
                        Kind[entry[r][1]] = "backend"
                 PROVE  BeingStopped(r)
      BY DEF SimOutlivesBackends
    <2> DEFINE f == req[q]
    <2>1. Answers(f, r) /\ Shape(f)
      BY DEF MainInv, RequestOK, TypeInv
    <2>2. f.i \in 1 .. Len(Declared) /\ f.n = Order[f.i] /\ Len(Declared) \in Nat
      BY <2>1, Positions DEF Shape
    <2>3. ASSUME Ahead(f, entry[r][1]) PROVE FALSE
      <3>1. PICK k \in 1 .. f.i - 1 : entry[r][1] = Order[k]
        BY <2>3 DEF Ahead, UpTo
      <3>2. k \in 1 .. Len(Declared) /\ k <= f.i
        BY <2>2, <3>1
      <3>3. Kind[Order[k]] = "sim"
        BY <2>2, <3>2, OrderFacts
      <3> QED BY <3>1, <3>3
    <2> QED BY <2>1, <2>3 DEF Answers
  <1> QED BY <1>1, Always, PTL
=============================================================================
