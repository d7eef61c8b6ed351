----------------------------- MODULE PermitProofs -----------------------------
(***************************************************************************)
(* Theorems about the semaphore of ConnectionPool: its waiting queue, its  *)
(* permits, and the leases they bound.  The first part rests on one        *)
(* observation: whatever a client does, it moves to another place, and     *)
(* after that a permit may wake the head of the queue.  The last shows     *)
(* that the pool implements ExclusiveLeases: each of its steps grants one  *)
(* client a lease, ends one client's lease, or leaves every lease alone.   *)
(***************************************************************************)
EXTENDS ConnectionPoolProofs

\* The clients that p puts in one of the places in P: At(P) is Placed(pc, P).
Placed(p, P) == {cl \in Clients : p[cl] \in P}

\* From p to q client cl moves to x, and no other client moves.
Moves(p, q, cl, x) ==
  q[cl] = x /\ \A other \in Clients \ {cl} : q[other] = p[other]

\* 1 when x is in P, 0 otherwise.
Is(x, P) == IF x \in P THEN 1 ELSE 0

Suspended == {"waiting", "granted"}

-----------------------------------------------------------------------------
(* Places *)

LEMMA PlacedCount ==
  ASSUME NEW p, NEW P
  PROVE  IsFiniteSet(Placed(p, P)) /\ Cardinality(Placed(p, P)) \in Nat
BY ClientsAssumption, FS_Subset, FS_CardinalityType DEF Placed

LEMMA MovedSet ==
  ASSUME NEW p, NEW q, NEW cl \in Clients, NEW x, NEW P, Moves(p, q, cl, x)
  PROVE  /\ x \in P => Placed(q, P) = Placed(p, P) \cup {cl}
         /\ x \notin P => Placed(q, P) = Placed(p, P) \ {cl}
BY DEF Placed, Moves

LEMMA MovedCount ==
  ASSUME NEW p, NEW q, NEW cl \in Clients, NEW x, NEW P, Moves(p, q, cl, x)
  PROVE  Cardinality(Placed(q, P)) = Cardinality(Placed(p, P)) + Is(x, P) - Is(p[cl], P)
<1>. DEFINE S == Placed(p, P)
            T == Placed(q, P)
            i == Is(x, P)
            j == Is(p[cl], P)
<1>1. IsFiniteSet(S)
  BY PlacedCount
<1>2. (i = 1 /\ T = S \cup {cl}) \/ (i = 0 /\ T = S \ {cl})
  <2>1. CASE x \in P
    <3>1. i = 1
      BY <2>1 DEF Is
    <3>2. T = S \cup {cl}
      BY <2>1, MovedSet
    <3>. QED
      BY <3>1, <3>2
  <2>2. CASE x \notin P
    <3>1. i = 0
      BY <2>2 DEF Is
    <3>2. T = S \ {cl}
      BY <2>2, MovedSet
    <3>. QED
      BY <3>1, <3>2
  <2>. QED
    BY <2>1, <2>2
<1>3. IF cl \in S THEN j = 1 ELSE j = 0
  <2>1. cl \in S <=> p[cl] \in P
    BY DEF Placed
  <2>2. IF p[cl] \in P THEN j = 1 ELSE j = 0
    BY DEF Is
  <2>. HIDE DEF S, j
  <2>. QED
    BY <2>1, <2>2
<1>. HIDE DEF S, T, i, j
<1>4. Cardinality(T) = Cardinality(S) + i - j
  <2>1. Cardinality(S) \in Nat
    BY <1>1, FS_CardinalityType
  <2>2. CASE i = 1 /\ T = S \cup {cl}
    <3>1. Cardinality(T) = IF cl \in S THEN Cardinality(S) ELSE Cardinality(S) + 1
      BY <1>1, <2>2, FS_AddElement
    <3>. QED
      BY <1>3, <2>1, <2>2, <3>1
  <2>3. CASE i = 0 /\ T = S \ {cl}
    <3>1. Cardinality(T) = IF cl \in S THEN Cardinality(S) - 1 ELSE Cardinality(S)
      BY <1>1, <2>3, FS_RemoveElement
    <3>. QED
      BY <1>3, <2>1, <2>3, <3>1
  <2>. QED
    BY <1>2, <2>2, <2>3
<1>. QED
  BY <1>4 DEF S, T, i, j

\* Waking the head of the queue moves a permit, and nothing else.
LEMMA Woken ==
  ASSUME NEW v \in Nat, NEW w \in Seq(Clients), NEW p \in [Clients -> Places],
         ToSet(w) = Placed(p, {"waiting"}), IsInjective(w), WakeNext(v, w, p)
  PROVE  /\ ToSet(waiters') = At({"waiting"})' /\ IsInjective(waiters')
         /\ Cardinality(At(Suspended))' = Cardinality(Placed(p, Suspended))
         /\ sem' + Cardinality(At(Holding))' = v + Cardinality(Placed(p, Holding))
         /\ Cardinality(Placed(p, Holding)) \in Nat
         /\ NoLostWakeup'
<1>1. \A P : At(P)' = Placed(pc', P) /\ Cardinality(Placed(p, P)) \in Nat
  BY ClientsAssumption, FS_Subset, FS_CardinalityType DEF At, Placed
<1>2. CASE v > 0 /\ w # <<>>
  <2>. DEFINE h == Head(w)
  <2>1. h \in ToSet(w) /\ h \in Clients /\ p[h] = "waiting"
    BY <1>2, ElemsTail DEF Placed
  <2>2. /\ sem' = v - 1 /\ waiters' = Tail(w)
        /\ Moves(p, pc', h, "granted") /\ pc'[h] = "granted"
    BY <1>2, <2>1 DEF WakeNext, Moves
  <2>3. ToSet(waiters') = ToSet(w) \ {h} /\ IsInjective(waiters')
    BY <1>2, <2>2, ElemsTail, ElemsExactTail
  <2>4. "waiting" \notin Holding /\ "granted" \in Holding
    BY DEF Holding, Creating
  <2>. HIDE DEF h
  <2>5. Placed(pc', {"waiting"}) = Placed(p, {"waiting"}) \ {h}
    <3>1. "granted" \notin {"waiting"}
      OBVIOUS
    <3>. QED
      BY <2>1, <2>2, <3>1, MovedSet
  <2>6. Cardinality(Placed(pc', Suspended)) = Cardinality(Placed(p, Suspended))
    <3>1. Is("granted", Suspended) = 1 /\ Is(p[h], Suspended) = 1
      BY <2>1 DEF Is, Suspended
    <3>. QED
      BY <1>1, <2>1, <2>2, <3>1, MovedCount
  <2>7. Cardinality(Placed(pc', Holding)) = Cardinality(Placed(p, Holding)) + 1
    <3>1. Is("granted", Holding) = 1 /\ Is(p[h], Holding) = 0
      BY <2>1, <2>4 DEF Is
    <3>. QED
      BY <1>1, <2>1, <2>2, <3>1, MovedCount
  <2>8. h \in Placed(pc', {"granted"})
    BY <2>1, <2>2 DEF Placed
  <2>9. sem' + Cardinality(Placed(pc', Holding)) = v + Cardinality(Placed(p, Holding))
    BY <1>1, <2>2, <2>7
  <2>. QED
    BY <1>1, <2>3, <2>5, <2>6, <2>8, <2>9 DEF NoLostWakeup
<1>3. CASE ~(v > 0 /\ w # <<>>)
  <2>1. pc' = p /\ sem' = v /\ waiters' = w
    BY <1>3 DEF WakeNext
  <2>. QED
    BY <1>1, <1>3, <2>1 DEF NoLostWakeup
<1>. QED
  BY <1>2, <1>3

-----------------------------------------------------------------------------
(* Steps *)

QueueInv == WaiterAccounting /\ PermitAccounting /\ NoLostWakeup

\* A client leaves its place for x, then the semaphore has v permits to hand out.
LEMMA MoveAndWake ==
  ASSUME TypeOK, QueueInv, NEW cl \in Clients, NEW x \in Places \ Suspended, NEW v \in Nat,
         pc[cl] # "waiting", WakeNext(v, waiters, [pc EXCEPT ![cl] = x]),
         v + Is(x, Holding) = sem + Is(pc[cl], Holding),
         waiterCount' = waiterCount - Is(pc[cl], {"granted"}),
         UNCHANGED history
  PROVE  QueueInv'
<1>. DEFINE p == [pc EXCEPT ![cl] = x]
<1>1. p \in [Clients -> Places] /\ waiters \in Seq(Clients) /\ pc \in [Clients -> Places]
  BY DEF TypeOK
<1>2. \A P : At(P) = Placed(pc, P)
  BY DEF At, Placed
<1>. Moves(pc, p, cl, x)
  BY <1>1 DEF Moves
<1>3. Placed(p, {"waiting"}) = Placed(pc, {"waiting"})
  BY <1>1, MovedSet DEF Suspended, Placed
<1>4. /\ Cardinality(Placed(p, Suspended))
           = Cardinality(Placed(pc, Suspended)) - Is(pc[cl], {"granted"})
      /\ Cardinality(Placed(pc, Suspended)) \in Nat
  <2>1. Is(x, Suspended) = 0 /\ Is(pc[cl], Suspended) = Is(pc[cl], {"granted"})
    BY DEF Suspended, Is
  <2>2. Is(pc[cl], {"granted"}) \in Nat
    BY DEF Is
  <2>. QED
    BY <2>1, <2>2, PlacedCount, MovedCount
<1>5. /\ Cardinality(Placed(p, Holding))
           = Cardinality(Placed(pc, Holding)) + Is(x, Holding) - Is(pc[cl], Holding)
      /\ Cardinality(Placed(pc, Holding)) \in Nat
  BY PlacedCount, MovedCount
<1>6. WakeNext(v, waiters, p)
  OBVIOUS
<1>. HIDE DEF p
<1>7. /\ ToSet(waiters') = At({"waiting"})' /\ IsInjective(waiters')
      /\ Cardinality(At(Suspended))' = Cardinality(Placed(p, Suspended))
      /\ sem' + Cardinality(At(Holding))' = v + Cardinality(Placed(p, Holding))
      /\ Cardinality(Placed(p, Holding)) \in Nat
      /\ NoLostWakeup'
  BY <1>1, <1>2, <1>3, <1>6, Woken DEF QueueInv, WaiterAccounting
<1>8. WaiterAccounting'
  <2>1. waiterCount' = Cardinality(At(Suspended))' /\ waiterCount' <= MaxWaiters
    BY <1>2, <1>4, <1>7, ConfigAssumption
    DEF QueueInv, WaiterAccounting, Suspended, Is, TypeOK
  <2>. QED
    BY <1>7, <2>1 DEF WaiterAccounting, Suspended
<1>9. PermitAccounting'
  <2>1. /\ sem \in Nat /\ lost \in Nat /\ surplus \in Nat /\ MaxConn \in Nat
        /\ sem + Cardinality(Placed(pc, Holding)) + lost = MaxConn + surplus
        /\ lost' = lost /\ surplus' = surplus
    BY <1>2, ConfigAssumption DEF QueueInv, PermitAccounting, TypeOK, history, MaxConn
  <2>2. Is(x, Holding) \in Nat /\ Is(pc[cl], Holding) \in Nat
    BY DEF Is
  <2>3. sem' + Cardinality(At(Holding))' + lost' = MaxConn + surplus'
    <3>1. v + Cardinality(Placed(p, Holding)) = sem + Cardinality(Placed(pc, Holding))
      BY <1>5, <2>1, <2>2
    <3>2. sem' + Cardinality(At(Holding))' = sem + Cardinality(Placed(pc, Holding))
      BY <1>7, <3>1
    <3>. QED
      BY <2>1, <3>2
  <2>. QED
    BY <2>3 DEF PermitAccounting
<1>. QED
  BY <1>7, <1>8, <1>9 DEF QueueInv

\* A client changes its place while nothing happens to the queue.
LEMMA MoveOnly ==
  ASSUME TypeOK, QueueInv, NEW cl \in Clients, NEW x \in Places \ Suspended,
         pc[cl] \notin Suspended, pc' = [pc EXCEPT ![cl] = x],
         UNCHANGED <<queue, waiterCount, surplus>>,
         lost' + Is(x, Holding) = lost + Is(pc[cl], Holding), lost' \in Nat
  PROVE  QueueInv'
<1>1. Moves(pc, pc', cl, x)
  BY DEF TypeOK, Moves
<1>2. \A P : At(P) = Placed(pc, P) /\ At(P)' = Placed(pc', P)
  BY DEF At, Placed
<1>3. sem' = sem /\ waiters' = waiters /\ waiterCount' = waiterCount /\ surplus' = surplus
  BY DEF queue
<1>4. \A P \in SUBSET Suspended : Placed(pc', P) = Placed(pc, P)
  <2>. SUFFICES ASSUME NEW P \in SUBSET Suspended PROVE Placed(pc', P) = Placed(pc, P)
    OBVIOUS
  <2>1. x \notin P /\ pc[cl] \notin P
    OBVIOUS
  <2>. QED
    BY <1>1, <2>1 DEF Placed, Moves
<1>5. /\ {"waiting"} \in SUBSET Suspended /\ {"granted"} \in SUBSET Suspended
      /\ {"waiting", "granted"} \in SUBSET Suspended
  BY DEF Suspended
<1>6. /\ At({"waiting"})' = At({"waiting"}) /\ At({"granted"})' = At({"granted"})
      /\ At({"waiting", "granted"})' = At({"waiting", "granted"})
  BY <1>2, <1>4, <1>5
<1>7. WaiterAccounting' /\ NoLostWakeup'
  BY <1>3, <1>6 DEF QueueInv, WaiterAccounting, NoLostWakeup
<1>8. PermitAccounting'
  <2>1. /\ sem \in Nat /\ lost \in Nat /\ surplus \in Nat /\ MaxConn \in Nat
        /\ sem + Cardinality(Placed(pc, Holding)) + lost = MaxConn + surplus
    BY <1>2, ConfigAssumption DEF QueueInv, PermitAccounting, TypeOK, MaxConn
  <2>2. Is(x, Holding) \in Nat /\ Is(pc[cl], Holding) \in Nat
    BY DEF Is
  <2>3. /\ Cardinality(Placed(pc', Holding))
             = Cardinality(Placed(pc, Holding)) + Is(x, Holding) - Is(pc[cl], Holding)
        /\ Cardinality(Placed(pc, Holding)) \in Nat
    BY <1>1, MovedCount, PlacedCount
  <2>4. sem + Cardinality(Placed(pc', Holding)) + lost' = MaxConn + surplus
    BY <2>1, <2>2, <2>3
  <2>. QED
    BY <1>2, <1>3, <2>4 DEF PermitAccounting
<1>. QED
  BY <1>7, <1>8 DEF QueueInv

LEMMA QueueAlone ==
  ASSUME QueueInv, UNCHANGED <<queue, waiterCount, pc, history>>
  PROVE  QueueInv'
BY DEF QueueInv, WaiterAccounting, PermitAccounting, NoLostWakeup, At, queue, history

LEMMA ScanPlaces ==
  ASSUME NEW cl, NEW next, Scan(cl, next)
  PROVE  next \in Holding \ Suspended
BY DEF Scan, Holding, Creating, Suspended

LEMMA PlaceFacts ==
  /\ "out" \in Places \ Suspended /\ "out" \notin Holding
  /\ Holding \subseteq Places /\ "granted" \in Holding /\ "waiting" \notin Holding
  /\ HoldsConn \cup Creating \subseteq Holding \ Suspended
  /\ \A x : /\ x \in Holding => Is(x, Holding) = 1
            /\ x \notin Holding => Is(x, Holding) = 0
            /\ x = "granted" => Is(x, {"granted"}) = 1
            /\ x # "granted" => Is(x, {"granted"}) = 0
BY DEF Places, Holding, Creating, Suspended, HoldsConn, Is

\* A client that had no permit joins the end of the queue.
LEMMA Joined ==
  ASSUME TypeOK, QueueInv, NEW cl \in Clients, pc[cl] = "out", Locked,
         waiterCount < MaxWaiters,
         waiters' = Append(waiters, cl), waiterCount' = waiterCount + 1,
         pc' = [pc EXCEPT ![cl] = "waiting"], UNCHANGED <<sem, history>>
  PROVE  QueueInv'
<1>1. Moves(pc, pc', cl, "waiting")
  BY DEF TypeOK, Moves
<1>2. \A P : At(P) = Placed(pc, P) /\ At(P)' = Placed(pc', P)
  BY DEF At, Placed
<1>3. cl \notin ToSet(waiters)
  BY DEF QueueInv, WaiterAccounting, At
<1>4. /\ ToSet(waiters') = ToSet(waiters) \cup {cl} /\ IsInjective(waiters')
  BY <1>3, ElemsAppend DEF TypeOK, QueueInv, WaiterAccounting
<1>5. Placed(pc', {"waiting"}) = Placed(pc, {"waiting"}) \cup {cl}
  BY <1>1 DEF Placed, Moves
<1>6. Is("waiting", Suspended) = 1 /\ Is(pc[cl], Suspended) = 0
  BY DEF Is, Suspended
<1>7. /\ Cardinality(Placed(pc', Suspended)) = Cardinality(Placed(pc, Suspended)) + 1
      /\ Cardinality(Placed(pc, Suspended)) \in Nat
  BY <1>1, <1>6, MovedCount, PlacedCount
<1>8. WaiterAccounting'
  <2>1. waiterCount' = Cardinality(Placed(pc', Suspended)) /\ waiterCount' <= MaxWaiters
    BY <1>2, <1>7, ConfigAssumption DEF QueueInv, WaiterAccounting, Suspended
  <2>. QED
    BY <1>2, <1>4, <1>5, <2>1 DEF QueueInv, WaiterAccounting, Suspended
<1>9. PermitAccounting'
  <2>1. Is("waiting", Holding) = 0 /\ Is(pc[cl], Holding) = 0
    BY PlaceFacts
  <2>2. Cardinality(Placed(pc', Holding)) = Cardinality(Placed(pc, Holding))
    BY <1>1, <2>1, MovedCount, PlacedCount
  <2>. QED
    BY <1>2, <2>2 DEF QueueInv, PermitAccounting, history
<1>10. NoLostWakeup'
  <2>1. ASSUME sem > 0 PROVE At({"granted"}) # {}
    BY <2>1 DEF Locked, QueueInv, NoLostWakeup, At
  <2>2. At({"granted"}) \subseteq At({"granted"})'
    BY <1>1 DEF At, Moves
  <2>. QED
    BY <2>1, <2>2 DEF NoLostWakeup
<1>. QED
  BY <1>8, <1>9, <1>10 DEF QueueInv

\* A client that waits leaves the queue.
LEMMA Withdrawn ==
  ASSUME TypeOK, QueueInv, NEW cl \in Clients, pc[cl] = "waiting",
         NEW i \in DOMAIN waiters, waiters[i] = cl,
         waiters' = RemoveAt(waiters, i), waiterCount' = waiterCount - 1,
         pc' = [pc EXCEPT ![cl] = "out"], UNCHANGED <<sem, history>>
  PROVE  QueueInv'
<1>1. Moves(pc, pc', cl, "out")
  BY DEF TypeOK, Moves
<1>2. \A P : At(P) = Placed(pc, P) /\ At(P)' = Placed(pc', P)
  BY DEF At, Placed
<1>3. ToSet(waiters') = ToSet(waiters) \ {cl} /\ IsInjective(waiters')
  BY ElemsRemoveAt DEF TypeOK, QueueInv, WaiterAccounting
<1>4. Placed(pc', {"waiting"}) = Placed(pc, {"waiting"}) \ {cl}
  <2>1. "out" \notin {"waiting"}
    OBVIOUS
  <2>. QED
    BY <1>1, <2>1, MovedSet
<1>5. Is("out", Suspended) = 0 /\ Is(pc[cl], Suspended) = 1
  BY DEF Is, Suspended
<1>6. /\ Cardinality(Placed(pc', Suspended)) = Cardinality(Placed(pc, Suspended)) - 1
      /\ Cardinality(Placed(pc, Suspended)) \in Nat
  BY <1>1, <1>5, MovedCount, PlacedCount
<1>7. WaiterAccounting'
  <2>1. waiterCount' = Cardinality(Placed(pc', Suspended)) /\ waiterCount' <= MaxWaiters
    BY <1>2, <1>6, ConfigAssumption DEF QueueInv, WaiterAccounting, Suspended
  <2>. QED
    BY <1>2, <1>3, <1>4, <2>1 DEF QueueInv, WaiterAccounting, Suspended
<1>8. PermitAccounting'
  <2>1. Is("out", Holding) = 0 /\ Is(pc[cl], Holding) = 0
    BY PlaceFacts
  <2>2. Cardinality(Placed(pc', Holding)) = Cardinality(Placed(pc, Holding))
    BY <1>1, <2>1, MovedCount, PlacedCount
  <2>. QED
    BY <1>2, <2>2 DEF QueueInv, PermitAccounting, history
<1>9. NoLostWakeup'
  <2>1. waiters # <<>>
    BY EmptySeq
  <2>2. At({"granted"}) \subseteq At({"granted"})'
    BY <1>1 DEF At, Moves
  <2>. QED
    BY <2>1, <2>2 DEF QueueInv, NoLostWakeup
<1>. QED
  BY <1>7, <1>8, <1>9 DEF QueueInv

-----------------------------------------------------------------------------
(* The actions *)

LEMMA ClientQueue ==
  ASSUME TypeInv, QueueInv, NEW cl \in Clients, ClientStep(cl)
  PROVE  QueueInv'
<1>. USE DEF queue, history
<1>1. TypeOK /\ sem \in Nat /\ sem + 1 \in Nat /\ lost \in Nat /\ lost + 1 \in Nat
      /\ waiterCount \in Int
  BY DEF TypeInv, TypeOK
<1>2. CASE Request(cl)
  <2>1. CASE Locked
    BY <1>1, <1>2, <2>1, Joined DEF Request
  <2>2. CASE ~Locked
    <3>1. PICK next \in Holding : Scan(cl, next) /\ pc' = [pc EXCEPT ![cl] = next]
      BY <1>2, <2>2 DEF Request
    <3>2. next \in Places \ Suspended /\ Is(next, Holding) = 1
      BY <3>1, ScanPlaces, PlaceFacts
    <3>3. pc[cl] = "out" /\ Is(pc[cl], Holding) = 0 /\ Is(pc[cl], {"granted"}) = 0
      BY <1>2, PlaceFacts DEF Request
    <3>4. sem # 0 /\ waiters = <<>>
      BY <2>2 DEF Locked
    <3>5. sem' = sem - 1 /\ waiters' = waiters /\ UNCHANGED <<waiterCount, history>>
      BY <1>2, <2>2 DEF Request
    <3>6. sem - 1 \in Nat /\ WakeNext(sem - 1, waiters, [pc EXCEPT ![cl] = next])
      BY <1>1, <3>1, <3>4, <3>5 DEF WakeNext
    <3>7. (sem - 1) + Is(next, Holding) = sem + Is(pc[cl], Holding)
      BY <1>1, <3>2, <3>3
    <3>8. waiterCount' = waiterCount - Is(pc[cl], {"granted"})
      BY <1>1, <3>3, <3>5
    <3>. QED
      BY <1>1, <3>2, <3>3, <3>5, <3>6, <3>7, <3>8, MoveAndWake
  <2>. QED
    BY <2>1, <2>2
<1>3. CASE Resume(cl)
  <2>1. PICK next \in Holding : Scan(cl, next)
                              /\ WakeNext(sem, waiters, [pc EXCEPT ![cl] = next])
    BY <1>3 DEF Resume
  <2>2. next \in Places \ Suspended /\ Is(next, Holding) = 1
    BY <2>1, ScanPlaces, PlaceFacts
  <2>3. pc[cl] = "granted" /\ Is(pc[cl], Holding) = 1 /\ Is(pc[cl], {"granted"}) = 1
    BY <1>3, PlaceFacts DEF Resume
  <2>4. waiterCount' = waiterCount - Is(pc[cl], {"granted"}) /\ UNCHANGED history
    BY <1>3, <2>3 DEF Resume
  <2>5. sem + Is(next, Holding) = sem + Is(pc[cl], Holding)
    BY <2>2, <2>3
  <2>. QED
    BY <1>1, <2>1, <2>2, <2>3, <2>4, <2>5, MoveAndWake
<1>4. ASSUME pc[cl] \in Holding, waiterCount' = waiterCount - Is(pc[cl], {"granted"}),
             ReleasePermit([pc EXCEPT ![cl] = "out"]), UNCHANGED history
      PROVE  QueueInv'
  <2>1. WakeNext(sem + 1, waiters, [pc EXCEPT ![cl] = "out"])
    BY <1>4 DEF ReleasePermit
  <2>2. /\ pc[cl] # "waiting" /\ "out" \in Places \ Suspended
        /\ Is("out", Holding) = 0 /\ Is(pc[cl], Holding) = 1
    BY <1>4, PlaceFacts
  <2>3. (sem + 1) + Is("out", Holding) = sem + Is(pc[cl], Holding)
    BY <1>1, <2>2
  <2>. QED
    BY <1>1, <1>4, <2>1, <2>2, <2>3, MoveAndWake
<1>5. CASE GiveUp(cl)
  <2>1. CASE pc[cl] = "waiting"
    BY <1>1, <1>5, <2>1, Withdrawn DEF GiveUp
  <2>2. CASE pc[cl] = "granted"
    <3>1. pc[cl] \in Holding /\ Is(pc[cl], {"granted"}) = 1
      BY <2>2, PlaceFacts
    <3>. QED
      BY <1>4, <1>5, <2>2, <3>1 DEF GiveUp
  <2>. QED
    BY <1>5, <2>1, <2>2 DEF GiveUp
<1>6. ASSUME NEW x \in Holding \ Suspended, pc[cl] \in Holding \ Suspended,
             pc' = [pc EXCEPT ![cl] = x], UNCHANGED <<queue, waiterCount, history>>
      PROVE  QueueInv'
  <2>1. x \in Places \ Suspended /\ Is(x, Holding) = 1 /\ Is(pc[cl], Holding) = 1
    BY <1>6, PlaceFacts
  <2>2. lost' + Is(x, Holding) = lost + Is(pc[cl], Holding) /\ lost' \in Nat
    BY <1>1, <1>6, <2>1
  <2>. QED
    BY <1>1, <1>6, <2>1, <2>2, MoveOnly
<1>7. ASSUME pc[cl] \in Holding \ Suspended, Lose(cl)
      PROVE  QueueInv'
  <2>1. /\ "out" \in Places \ Suspended
        /\ Is("out", Holding) = 0 /\ Is(pc[cl], Holding) = 1
    BY <1>7, PlaceFacts
  <2>2. lost' + Is("out", Holding) = lost + Is(pc[cl], Holding) /\ lost' \in Nat
    BY <1>1, <1>7, <2>1 DEF Lose
  <2>3. pc' = [pc EXCEPT ![cl] = "out"] /\ UNCHANGED <<queue, waiterCount, surplus>>
    BY <1>7 DEF Lose
  <2>. QED
    BY <1>1, <1>7, <2>1, <2>2, <2>3, MoveOnly
<1>8. /\ HoldsConn \cup Creating \subseteq Holding \ Suspended
      /\ {"validating", "discarding", "leased", "releasing"} \subseteq HoldsConn
      /\ \A x \in HoldsConn : Is(x, {"granted"}) = 0
  BY PlaceFacts DEF HoldsConn
<1>9. CASE Validated(cl) \/ PingFailed(cl) \/ Created(cl)
  BY <1>6, <1>8, <1>9 DEF Validated, PingFailed, Created
<1>10. CASE Discarded(cl)
  <2>1. PICK next \in Holding : Scan(cl, next) /\ pc' = [pc EXCEPT ![cl] = next]
    BY <1>10 DEF Discarded
  <2>2. next \in Holding \ Suspended
    BY <2>1, ScanPlaces
  <2>. QED
    BY <1>6, <1>8, <1>10, <2>1, <2>2 DEF Discarded
<1>11. CASE CreateFailed(cl) \/ CancelAcquiring(cl) \/ CancelReleasing(cl)
  BY <1>7, <1>8, <1>11 DEF CreateFailed, CancelAcquiring, CancelReleasing
<1>12. CASE Release(cl)
  <2>1. CASE Discardable(conn[cl])
    BY <1>6, <1>8, <1>12, <2>1 DEF Release
  <2>2. CASE ~Discardable(conn[cl])
    <3>1. pc[cl] \in Holding /\ waiterCount' = waiterCount - Is(pc[cl], {"granted"})
      BY <1>1, <1>8, <1>12 DEF Release
    <3>. QED
      BY <1>4, <1>12, <2>2, <3>1 DEF Release
  <2>. QED
    BY <2>1, <2>2
<1>13. CASE Released(cl)
  <2>1. pc[cl] \in Holding /\ waiterCount' = waiterCount - Is(pc[cl], {"granted"})
    BY <1>1, <1>8, <1>13 DEF Released
  <2>. QED
    BY <1>4, <1>13, <2>1 DEF Released
<1>. QED
  BY <1>2, <1>3, <1>5, <1>9, <1>10, <1>11, <1>12, <1>13 DEF ClientStep

\* A surplus permit of housekeeping is one more to hand out.
LEMMA HousekeepingQueue ==
  ASSUME TypeInv, QueueInv, Housekeeping
  PROVE  QueueInv'
<1>1. CASE HkWake \/ HkScaledUp \/ HkPrewarmed \/ HkReplenished
  BY <1>1, QueueAlone DEF HkWake, HkScaledUp, HkPrewarmed, HkReplenished
<1>2. CASE HkDestroyed
  <2>1. /\ sem \in Nat /\ sem + 1 \in Nat /\ lost \in Nat /\ surplus \in Nat
        /\ waiters \in Seq(Clients) /\ pc \in [Clients -> Places] /\ MaxConn \in Nat
    BY ConfigAssumption DEF TypeInv, TypeOK, MaxConn
  <2>2. \A P : At(P) = Placed(pc, P)
    BY DEF At, Placed
  <2>3. WakeNext(sem + 1, waiters, pc)
    BY <1>2 DEF HkDestroyed, ReleasePermit
  <2>4. /\ ToSet(waiters') = At({"waiting"})' /\ IsInjective(waiters')
        /\ Cardinality(At(Suspended))' = Cardinality(Placed(pc, Suspended))
        /\ sem' + Cardinality(At(Holding))' = (sem + 1) + Cardinality(Placed(pc, Holding))
        /\ Cardinality(Placed(pc, Holding)) \in Nat
        /\ NoLostWakeup'
    BY <2>1, <2>2, <2>3, Woken DEF QueueInv, WaiterAccounting
  <2>5. waiterCount' = waiterCount /\ lost' = lost /\ surplus' = surplus + 1
    BY <1>2 DEF HkDestroyed
  <2>6. WaiterAccounting'
    BY <2>2, <2>4, <2>5 DEF QueueInv, WaiterAccounting, Suspended
  <2>7. sem + Cardinality(Placed(pc, Holding)) + lost = MaxConn + surplus
    BY <2>2 DEF QueueInv, PermitAccounting
  <2>8. (sem + 1) + Cardinality(Placed(pc, Holding)) + lost = MaxConn + (surplus + 1)
    BY <2>1, <2>4, <2>7
  <2>9. PermitAccounting'
    BY <2>4, <2>5, <2>8 DEF PermitAccounting
  <2>. QED
    BY <2>4, <2>6, <2>9 DEF QueueInv
<1>. QED
  BY <1>1, <1>2 DEF Housekeeping

LEMMA LifecycleQueue ==
  ASSUME QueueInv, Lifecycle
  PROVE  QueueInv'
BY QueueAlone
DEF Lifecycle, InitializeBegin, InitializeEnd, PausePool, ResumePool, SetPaused, DrainBegin,
    DrainElapsed, CloseBegin, StopServing, CloseRegistry, CloseSocket, CloseEnd

LEMMA InitQueue == Init => QueueInv
<1>. SUFFICES ASSUME Init PROVE QueueInv
  OBVIOUS
<1>1. \A P : "out" \notin P => At(P) = {} /\ Cardinality(At(P)) = 0
  BY FS_EmptySet DEF Init, At
<1>2. /\ At({"waiting"}) = {} /\ At(Holding) = {}
      /\ Cardinality(At({"waiting", "granted"})) = 0 /\ Cardinality(At(Holding)) = 0
  BY <1>1, PlaceFacts
<1>3. MaxConn \in Nat /\ MaxWaiters \in Nat
  BY ConfigAssumption DEF MaxConn
<1>4. WaiterAccounting
  <2>1. waiters = <<>> /\ waiterCount = 0
    BY DEF Init
  <2>2. ToSet(waiters) = {} /\ IsInjective(waiters)
    BY <2>1, ElemsEmpty
  <2>3. waiterCount <= MaxWaiters
    BY <1>3, <2>1
  <2>. QED
    BY <1>2, <2>1, <2>2, <2>3 DEF WaiterAccounting
<1>5. PermitAccounting
  BY <1>2, <1>3 DEF Init, PermitAccounting
<1>. QED
  BY <1>4, <1>5 DEF Init, QueueInv, NoLostWakeup

LEMMA QueueSound == Spec => []QueueInv
<1>1. TypeInv /\ QueueInv /\ [Next]_vars => QueueInv'
  <2>1. ASSUME QueueInv, UNCHANGED vars PROVE QueueInv'
    BY <2>1, QueueAlone DEF vars
  <2>2. ASSUME QueueInv, NEW c \in Conns, Expire(c) PROVE QueueInv'
    BY <2>2, QueueAlone DEF Expire
  <2>. QED
    BY <2>1, <2>2, ClientQueue, HousekeepingQueue, LifecycleQueue DEF Next, Finished
<1>. QED
  BY <1>1, InitQueue, Typed, PTL DEF Spec

-----------------------------------------------------------------------------
(* Theorems *)

\* No permit of the semaphore is ever created or lost, but for the ones that failed
\* acquisitions take with them and evictions release: in particular no interleaving of
\* timeout, cancellation, grant and release leaks or doubles one.
THEOREM PermitsAccounted == Spec => []PermitAccounting
BY QueueSound, PTL DEF QueueInv

\* _waiter_count always is the number of clients suspended in the semaphore and never
\* exceeds max_waiters.
THEOREM WaitersAccounted == Spec => []WaiterAccounting
BY QueueSound, PTL DEF QueueInv

\* A permit is never free while clients wait and none of them has been woken.
THEOREM NoWakeupLost == Spec => []NoLostWakeup
BY QueueSound, PTL DEF QueueInv

-----------------------------------------------------------------------------
(* The leases of ExclusiveLeases *)

InUse == {"validating", "leased"}

\* The refinement mapping of Leases.
Lease ==
  [cl \in Clients |-> IF pc[cl] \in {"validating", "leased"} THEN conn[cl] ELSE NoConn]

-----------------------------------------------------------------------------
(* Surplus permits stay within their bound. *)

Destroying == {"scaleDown", "evict"}

SurplusBounded ==
  /\ surplus <= MaxSurplus
  /\ hk.pc \in Destroying => surplus < MaxSurplus

LEMMA EvictBounded ==
  ASSUME NEW q, NEW a, NEW kept, NEW evicted, Evict(q, a, kept, evicted),
         hk'.pc \in Destroying
  PROVE  surplus' < MaxSurplus
<1>1. CASE Replenish(Reverse(kept \o q), a)
  <2>1. hk'.pc \in {"replenish", "sleep"}
    BY <1>1 DEF Replenish, HkAt, HkSleep, HkOff
  <2>. QED
    BY <2>1 DEF Destroying
<1>2. CASE ~Replenish(Reverse(kept \o q), a)
  BY <1>2 DEF Evict
<1>. QED
  BY <1>1, <1>2

LEMMA PrewarmBounded ==
  ASSUME NEW q, NEW a, NEW size, PrewarmFrom(q, a, size), hk'.pc \in Destroying
  PROVE  surplus' < MaxSurplus
<1>1. CASE Evict(q, a, <<>>, 0)
  BY <1>1, EvictBounded
<1>2. CASE ~Evict(q, a, <<>>, 0)
  <2>1. hk'.pc = "prewarm"
    BY <1>2 DEF PrewarmFrom, HkAt, HkOff
  <2>. QED
    BY <2>1 DEF Destroying
<1>. QED
  BY <1>1, <1>2

LEMMA SurplusInvariant == Spec => []SurplusBounded
<1>1. Init => SurplusBounded
  BY ConfigAssumption DEF Init, SurplusBounded, HkOff, Destroying
<1>2. ASSUME TypeInv, SurplusBounded, [Next]_vars PROVE SurplusBounded'
  <2>1. surplus \in Nat /\ MaxSurplus \in Nat
    BY <1>2, ConfigAssumption DEF TypeInv, TypeOK
  <2>2. CASE UNCHANGED <<hk, surplus>>
    BY <1>2, <2>2 DEF SurplusBounded
  <2>3. ASSUME surplus' = surplus, hk' \in {HkOff, HkSleep} PROVE SurplusBounded'
    BY <1>2, <2>3 DEF SurplusBounded, HkOff, HkSleep, Destroying
  <2>4. ASSUME surplus' = surplus, hk'.pc \in Destroying => surplus' < MaxSurplus
        PROVE  SurplusBounded'
    BY <1>2, <2>4 DEF SurplusBounded
  <2>5. CASE HkWake
    <3>1. CASE PrewarmFrom(idle, all, Cardinality(all))
      BY <2>4, <2>5, <3>1, PrewarmBounded DEF HkWake, history
    <3>2. CASE hk' = [HkOff EXCEPT !.pc = "scaleUp", !.size = Cardinality(all)]
      <4>1. hk'.pc = "scaleUp"
        BY <3>2 DEF HkOff
      <4>. QED
        BY <2>4, <2>5, <4>1 DEF HkWake, history, Destroying
    <3>3. CASE surplus < MaxSurplus
      BY <2>4, <2>5, <3>3 DEF HkWake, history
    <3>. QED
      BY <2>5, <3>1, <3>2, <3>3 DEF HkWake, HkAt
  <2>6. CASE HkScaledUp
    BY <2>4, <2>6, PrewarmBounded DEF HkScaledUp, HkMade, HkNotMade, history
  <2>7. CASE HkPrewarmed
    <3>1. CASE hk' = [hk EXCEPT !.todo = @ - 1]
      <4>1. hk'.pc = "prewarm"
        BY <1>2, <2>7, <3>1 DEF HkPrewarmed, TypeInv, TypeOK, HkStates
      <4>. QED
        BY <2>4, <2>7, <4>1 DEF HkPrewarmed, history, Destroying
    <3>2. ASSUME NEW q, NEW a, Evict(q, a, <<>>, 0) PROVE SurplusBounded'
      BY <2>4, <2>7, <3>2, EvictBounded DEF HkPrewarmed, history
    <3>. QED
      BY <2>7, <3>1, <3>2 DEF HkPrewarmed, HkMade, HkNotMade, HkAt
  <2>8. CASE HkReplenished
    <3>1. CASE hk' = [hk EXCEPT !.todo = @ - 1]
      <4>1. hk'.pc = "replenish"
        BY <1>2, <2>8, <3>1 DEF HkReplenished, TypeInv, TypeOK, HkStates
      <4>. QED
        BY <2>4, <2>8, <4>1 DEF HkReplenished, history, Destroying
    <3>. QED
      BY <2>3, <2>8, <3>1 DEF HkReplenished, HkMade, HkNotMade, HkAt, history
  <2>9. CASE HkDestroyed
    <3>1. surplus' = surplus + 1 /\ surplus < MaxSurplus
      BY <1>2, <2>9 DEF HkDestroyed, SurplusBounded, Destroying
    <3>2. hk'.pc \in Destroying => surplus' < MaxSurplus
      BY <2>9, PrewarmBounded, EvictBounded DEF HkDestroyed
    <3>3. surplus' <= MaxSurplus
      BY <2>1, <3>1
    <3>. QED
      BY <3>2, <3>3 DEF SurplusBounded
  <2>10. CASE Lifecycle
    BY <2>2, <2>3, <2>10
    DEF Lifecycle, InitializeBegin, InitializeEnd, PausePool, ResumePool, SetPaused,
        DrainBegin, DrainElapsed, CloseBegin, StopServing, CloseRegistry, CloseSocket,
        CloseEnd, history
  <2>11. ASSUME NEW cl \in Clients, ClientStep(cl) PROVE SurplusBounded'
    BY <2>2, <2>11
    DEF ClientStep, Request, Resume, GiveUp, Validated, PingFailed, Discarded, Created,
        CreateFailed, CancelAcquiring, Release, Released, CancelReleasing, Lose, history
  <2>12. ASSUME NEW c \in Conns, Expire(c) PROVE SurplusBounded'
    BY <2>2, <2>12 DEF Expire, history
  <2>. QED
    BY <1>2, <2>2, <2>5, <2>6, <2>7, <2>8, <2>9, <2>10, <2>11, <2>12
    DEF Next, Finished, Housekeeping, vars, history
<1>. QED
  BY <1>1, <1>2, Typed, PTL DEF Spec

-----------------------------------------------------------------------------
(* Leases: a step changes at most the lease of the client that makes it. *)

\* The client stays where it is, or is woken.
Stays(p, q, cl) == q[cl] = p[cl] \/ (p[cl] = "waiting" /\ q[cl] = "granted")

\* Only cl's place and connection change, but for a client that is woken.
Alone(cl) ==
  \A other \in Clients \ {cl} : conn'[other] = conn[other] /\ Stays(pc, pc', other)

\* The lease x may become y: it starts, ends or remains.
May(x, y) == x = NoConn \/ y = NoConn \/ y = x

LEMMA WakeStays ==
  ASSUME NEW v, NEW w \in Seq(Clients), NEW p \in [Clients -> Places],
         ToSet(w) \subseteq Placed(p, {"waiting"}), IsInjective(w), WakeNext(v, w, p),
         NEW cl \in Clients
  PROVE  Stays(p, pc', cl)
<1>1. CASE v > 0 /\ w # <<>>
  <2>1. pc' = [p EXCEPT ![Head(w)] = "granted"]
    BY <1>1 DEF WakeNext
  <2>2. Head(w) \in ToSet(w)
    BY <1>1, ElemsTail
  <2>3. p[Head(w)] = "waiting"
    BY <2>2 DEF Placed
  <2>. QED
    BY <2>1, <2>3 DEF Stays
<1>2. CASE ~(v > 0 /\ w # <<>>)
  BY <1>2 DEF WakeNext, Stays
<1>. QED
  BY <1>1, <1>2

\* A client that is not in the queue moves to x, and a permit may wake another.
LEMMA MoveWakeAlone ==
  ASSUME TypeOK, QueueInv, NEW cl \in Clients, NEW x \in Places \ Suspended, NEW v,
         pc[cl] # "waiting", WakeNext(v, waiters, [pc EXCEPT ![cl] = x])
  PROVE  /\ pc'[cl] = x
         /\ \A other \in Clients \ {cl} : Stays(pc, pc', other)
<1>. DEFINE p == [pc EXCEPT ![cl] = x]
<1>1. p \in [Clients -> Places] /\ waiters \in Seq(Clients)
  BY DEF TypeOK
<1>2. p[cl] = x /\ \A other \in Clients \ {cl} : p[other] = pc[other]
  BY DEF TypeOK
<1>3. WakeNext(v, waiters, p)
  OBVIOUS
<1>. HIDE DEF p
<1>4. ToSet(waiters) \subseteq Placed(p, {"waiting"}) /\ IsInjective(waiters)
  BY <1>2 DEF QueueInv, WaiterAccounting, At, Placed
<1>5. \A other \in Clients : Stays(p, pc', other)
  BY <1>1, <1>3, <1>4, WakeStays
<1>6. x # "waiting"
  BY DEF Suspended
<1>. QED
  BY <1>2, <1>5, <1>6 DEF Stays

LEMMA StaysLease ==
  ASSUME NEW cl \in Clients, Stays(pc, pc', cl), conn'[cl] = conn[cl]
  PROVE  Lease'[cl] = Lease[cl]
BY DEF Stays, Lease, InUse

LEMMA ScanConn ==
  ASSUME NEW cl, NEW next, Scan(cl, next)
  PROVE  \E c : conn' = [conn EXCEPT ![cl] = c]
BY DEF Scan

LEMMA ClientAlone ==
  ASSUME TypeInv, QueueInv, NEW cl \in Clients, ClientStep(cl)
  PROVE  Alone(cl)
<1>1. TypeOK /\ pc \in [Clients -> Places] /\ conn \in [Clients -> Conns \cup {NoConn}]
  BY DEF TypeInv, TypeOK
<1>2. ASSUME NEW x, pc' = [pc EXCEPT ![cl] = x]
      PROVE  \A other \in Clients \ {cl} : Stays(pc, pc', other)
  BY <1>1, <1>2 DEF Stays
<1>3. ASSUME conn' = conn \/ \E c : conn' = [conn EXCEPT ![cl] = c]
      PROVE  \A other \in Clients \ {cl} : conn'[other] = conn[other]
  BY <1>1, <1>3
<1>4. ASSUME NEW v, pc[cl] # "waiting", WakeNext(v, waiters, [pc EXCEPT ![cl] = "out"])
      PROVE  \A other \in Clients \ {cl} : Stays(pc, pc', other)
  BY <1>1, <1>4, MoveWakeAlone, PlaceFacts
<1>5. CASE Request(cl) \/ Discarded(cl)
  <2>1. \E x : pc' = [pc EXCEPT ![cl] = x]
    BY <1>5 DEF Request, Discarded
  <2>2. conn' = conn \/ \E c : conn' = [conn EXCEPT ![cl] = c]
    BY <1>5, ScanConn DEF Request, Discarded
  <2>. QED
    BY <1>2, <1>3, <2>1, <2>2 DEF Alone
<1>6. CASE Resume(cl)
  <2>1. PICK next \in Holding : Scan(cl, next)
                              /\ WakeNext(sem, waiters, [pc EXCEPT ![cl] = next])
    BY <1>6 DEF Resume
  <2>2. next \in Places \ Suspended
    BY <2>1, ScanPlaces, PlaceFacts
  <2>3. pc[cl] # "waiting"
    BY <1>6 DEF Resume
  <2>4. \A other \in Clients \ {cl} : Stays(pc, pc', other)
    BY <1>1, <2>1, <2>2, <2>3, MoveWakeAlone
  <2>. QED
    BY <1>3, <2>1, <2>4, ScanConn DEF Alone
<1>7. CASE GiveUp(cl)
  <2>1. \A other \in Clients \ {cl} : Stays(pc, pc', other)
    BY <1>2, <1>4, <1>7 DEF GiveUp, ReleasePermit
  <2>. QED
    BY <1>3, <1>7, <2>1 DEF GiveUp, Alone
<1>8. CASE Validated(cl) \/ PingFailed(cl)
  BY <1>2, <1>3, <1>8 DEF Validated, PingFailed, Alone
<1>9. CASE Created(cl)
  BY <1>2, <1>3, <1>9 DEF Created, Alone
<1>10. CASE CreateFailed(cl) \/ CancelAcquiring(cl) \/ CancelReleasing(cl)
  <2>1. Lose(cl)
    BY <1>10 DEF CreateFailed, CancelAcquiring, CancelReleasing
  <2>. QED
    BY <1>2, <1>3, <2>1 DEF Lose, Alone
<1>11. CASE Release(cl) \/ Released(cl)
  <2>1. \A other \in Clients \ {cl} : Stays(pc, pc', other)
    BY <1>2, <1>4, <1>11 DEF Release, Released, ReleasePermit
  <2>. QED
    BY <1>3, <1>11, <2>1 DEF Release, Released, Alone
<1>. QED
  BY <1>5, <1>6, <1>7, <1>8, <1>9, <1>10, <1>11 DEF ClientStep

\* A client that has a lease can only keep it or end it.
LEMMA ClientMay ==
  ASSUME TypeInv, QueueInv, NEW cl \in Clients, ClientStep(cl)
  PROVE  May(Lease[cl], Lease'[cl])
<1>1. TypeOK /\ pc \in [Clients -> Places]
  BY DEF TypeInv, TypeOK
<1>2. CASE pc[cl] \notin InUse
  BY <1>2 DEF Lease, May, InUse
<1>3. ASSUME pc'[cl] \notin InUse PROVE May(Lease[cl], Lease'[cl])
  BY <1>3 DEF Lease, May, InUse
<1>4. ASSUME NEW x, x \notin InUse, pc' = [pc EXCEPT ![cl] = x]
      PROVE  May(Lease[cl], Lease'[cl])
  BY <1>1, <1>3, <1>4
<1>5. "out" \notin InUse /\ "discarding" \notin InUse /\ "releasing" \notin InUse
  BY DEF InUse
<1>6. CASE pc[cl] \in InUse
  <2>1. CASE Validated(cl)
    <3>1. conn' = conn /\ pc'[cl] \in InUse
      BY <1>1, <2>1 DEF Validated, InUse
    <3>. QED
      BY <1>6, <3>1 DEF Lease, May, InUse
  <2>2. CASE PingFailed(cl)
    BY <1>4, <1>5, <2>2 DEF PingFailed
  <2>3. CASE CreateFailed(cl) \/ CancelAcquiring(cl) \/ CancelReleasing(cl)
    BY <1>4, <1>5, <2>3 DEF CreateFailed, CancelAcquiring, CancelReleasing, Lose
  <2>4. CASE Release(cl)
    <3>1. CASE Discardable(conn[cl])
      BY <1>4, <1>5, <2>4, <3>1 DEF Release
    <3>2. CASE ~Discardable(conn[cl])
      <4>1. WakeNext(sem + 1, waiters, [pc EXCEPT ![cl] = "out"]) /\ pc[cl] # "waiting"
        BY <2>4, <3>2 DEF Release, ReleasePermit
      <4>2. pc'[cl] = "out"
        BY <1>1, <4>1, MoveWakeAlone, PlaceFacts
      <4>. QED
        BY <1>3, <1>5, <4>2
    <3>. QED
      BY <3>1, <3>2
  <2>. QED
    BY <1>6, <2>1, <2>2, <2>3, <2>4
    DEF ClientStep, InUse, Request, Resume, GiveUp, Discarded, Created, Creating, Released
<1>. QED
  BY <1>2, <1>6

-----------------------------------------------------------------------------
(* The refinement *)

\* The instance has operators of its own for the finite sets it uses.
LEMMA SameCardinality == \A S : Leases!Cardinality(S) = Cardinality(S)
BY Zenon DEF Cardinality, Leases!Cardinality

\* When one client's lease may change, and the invariants hold afterwards, the step is
\* one of ExclusiveLeases: what is granted was nobody's, and within the limit.
LEMMA LeaseStep ==
  ASSUME TypeInv', OneOwner', PermitAccounting', SurplusBounded',
         NEW cl \in Clients, May(Lease[cl], Lease'[cl]),
         \A other \in Clients \ {cl} : Lease'[other] = Lease[other]
  PROVE  Lease' = Lease \/ Leases!Next
<1>. DEFINE x == Lease'[cl]
            S == {other \in Clients : Lease[other] # NoConn}
<1>1. Lease' = [Lease EXCEPT ![cl] = x]
  BY DEF Lease, InUse
<1>2. CASE x = Lease[cl]
  BY <1>1, <1>2 DEF Lease, InUse
<1>3. CASE Lease[cl] # NoConn /\ x = NoConn
  <2>1. Leases!Return(cl)
    BY <1>1, <1>3 DEF Leases!Return, Lease, InUse
  <2>. QED
    BY <2>1 DEF Leases!Next
<1>4. CASE Lease[cl] = NoConn /\ x # NoConn
  <2>1. pc'[cl] \in InUse /\ x = conn'[cl] /\ x \in Conns
    BY <1>4 DEF Lease, InUse, TypeInv, HasConn, HoldsConn
  <2>2. \A other \in Clients : Lease[other] # x
    <3>1. ASSUME NEW other \in Clients, Lease[other] = x PROVE FALSE
      <4>1. other # cl /\ Lease'[other] = x
        BY <1>4, <3>1
      <4>2. conn'[other] = x
        BY <1>4, <4>1 DEF Lease, InUse
      <4>. QED
        BY <1>4, <2>1, <4>1, <4>2 DEF OneOwner
    <3>. QED
      BY <3>1
  <2>3. S \cup {cl} \subseteq At(Holding)'
    <3>1. ASSUME NEW other \in S \cup {cl} PROVE pc'[other] \in InUse
      BY <1>4, <2>1, <3>1 DEF Lease, InUse
    <3>. QED
      BY <3>1 DEF At, Holding, InUse
  <2>4. Cardinality(S) < MaxConn + MaxSurplus
    <3>1. IsFiniteSet(At(Holding)') /\ IsFiniteSet(S) /\ cl \notin S
      BY <1>4, ClientsAssumption, FS_Subset DEF At
    <3>2. Cardinality(S \cup {cl}) = Cardinality(S) + 1 /\ Cardinality(S) \in Nat
      BY <3>1, FS_AddElement, FS_CardinalityType
    <3>3. Cardinality(S \cup {cl}) <= Cardinality(At(Holding)')
      BY <2>3, <3>1, FS_Subset
    <3>4. Cardinality(At(Holding)') \in Nat
      BY <3>1, FS_CardinalityType
    <3>5. /\ sem' \in Nat /\ lost' \in Nat /\ surplus' \in Nat /\ surplus' <= MaxSurplus
          /\ MaxConn \in Nat /\ MaxSurplus \in Nat
          /\ sem' + Cardinality(At(Holding)') + lost' = MaxConn + surplus'
      BY ConfigAssumption DEF TypeInv, TypeOK, SurplusBounded, PermitAccounting, MaxConn
    <3>. QED
      BY <3>2, <3>3, <3>4, <3>5
  <2>5. PICK c \in Conns : c = x
    BY <2>1
  <2>6. Leases!Grant(cl, c)
    <3>1. S = Leases!Leased
      BY DEF Leases!Leased, Lease, InUse
    <3>2. /\ Lease' = [Lease EXCEPT ![cl] = c] /\ Lease[cl] = NoConn
          /\ \A other \in Clients : Lease[other] # c
          /\ Leases!Cardinality(Leases!Leased) < MaxConn + MaxSurplus
      BY <1>1, <1>4, <2>2, <2>4, <2>5, <3>1, SameCardinality
    <3>. HIDE DEF S, x
    <3>. QED
      BY <3>2 DEF Leases!Grant, Lease
  <2>. QED
    BY <2>6 DEF Leases!Next
<1>. QED
  BY <1>2, <1>3, <1>4 DEF May

LEMMA HousekeepingLeases ==
  ASSUME TypeInv, QueueInv, Housekeeping
  PROVE  Lease' = Lease
<1>1. CASE UNCHANGED <<pc, conn>>
  BY <1>1 DEF Lease, InUse
<1>2. CASE HkDestroyed
  <2>1. /\ pc \in [Clients -> Places] /\ waiters \in Seq(Clients) /\ IsInjective(waiters)
        /\ ToSet(waiters) \subseteq Placed(pc, {"waiting"})
    BY DEF TypeInv, TypeOK, QueueInv, WaiterAccounting, At, Placed
  <2>2. WakeNext(sem + 1, waiters, pc) /\ conn' = conn
    BY <1>2 DEF HkDestroyed, ReleasePermit
  <2>3. \A cl \in Clients : Stays(pc, pc', cl)
    BY <2>1, <2>2, WakeStays
  <2>4. \A cl \in Clients : Lease'[cl] = Lease[cl]
    BY <2>2, <2>3, StaysLease
  <2>. QED
    BY <2>4 DEF Lease, InUse
<1>. QED
  BY <1>1, <1>2 DEF Housekeeping, HkWake, HkScaledUp, HkPrewarmed, HkReplenished

\* The pool hands out leases as ExclusiveLeases says: a connection is never in the hands
\* of two clients that ping or use it, and no more than max_connections, and one for each
\* surplus permit, are out at a time.
THEOREM PoolLeases == Spec => LeaseManager
<1>1. Init => Leases!Init
  BY DEF Init, Leases!Init
<1>2. ASSUME TypeInv, QueueInv, [Next]_vars,
             TypeInv', OneOwner', PermitAccounting', SurplusBounded'
      PROVE  Lease' = Lease \/ Leases!Next
  <2>1. CASE UNCHANGED <<pc, conn>>
    BY <2>1 DEF Lease, InUse
  <2>2. ASSUME NEW cl \in Clients, ClientStep(cl) PROVE Lease' = Lease \/ Leases!Next
    <3>1. \A other \in Clients \ {cl} : Lease'[other] = Lease[other]
      BY <1>2, <2>2, ClientAlone, StaysLease DEF Alone
    <3>. QED
      BY <1>2, <2>2, <3>1, ClientMay, LeaseStep
  <2>3. CASE Lifecycle
    BY <2>1, <2>3
    DEF Lifecycle, InitializeBegin, InitializeEnd, PausePool, ResumePool, SetPaused,
        DrainBegin, DrainElapsed, CloseBegin, StopServing, CloseRegistry, CloseSocket,
        CloseEnd
  <2>. QED
    BY <1>2, <2>1, <2>2, <2>3, HousekeepingLeases DEF Next, Expire, Finished, vars
<1>3. TypeInv /\ QueueInv /\ [Next]_vars
        /\ TypeInv' /\ OneOwner' /\ QueueInv' /\ SurplusBounded'
        => [Leases!Next]_Lease
  BY <1>2 DEF QueueInv
<1>. QED
  BY <1>1, <1>3, Typed, OwnersDistinct, QueueSound, SurplusInvariant, PTL
  DEF Spec, LeaseManager, Leases!Spec, Lease, InUse

====
