------------------------ MODULE ConnectionPoolProofs ------------------------
(***************************************************************************)
(* Theorems about ConnectionPool, for every value of its constants.        *)
(***************************************************************************)
EXTENDS ConnectionPool, SequenceLemmas

-----------------------------------------------------------------------------
(* Types *)

\* A client past the idle queue has a connection.
HoldsConn == {"validating", "discarding", "leased", "releasing"}
HasConn == \A cl \in Clients : pc[cl] \in HoldsConn => conn[cl] \in Conns

TypeInv == TypeOK /\ HasConn

\* The variables a scan of the idle queue and a housekeeping pass change.
QueueTypes ==
  /\ idle \in Seq(Conns) /\ all \subseteq Conns /\ checkedOut \subseteq Conns
  /\ overflow \subseteq Conns /\ expired \subseteq Conns /\ usage \in [Conns -> Nat]

LEMMA WakeTypes ==
  ASSUME NEW v \in Nat, NEW w \in Seq(Clients), NEW p \in [Clients -> Places],
         WakeNext(v, w, p)
  PROVE  /\ sem' \in Nat /\ waiters' \in Seq(Clients) /\ pc' \in [Clients -> Places]
         /\ \A cl \in Clients : pc'[cl] \in HoldsConn => pc'[cl] = p[cl]
<1>1. CASE v > 0 /\ w # <<>>
  <2>1. Head(w) \in Clients /\ Tail(w) \in Seq(Clients)
    BY <1>1, HeadTailProperties
  <2>2. "granted" \in Places /\ "granted" \notin HoldsConn
    BY DEF Places, Holding, HoldsConn
  <2>3. /\ waiters' = Tail(w) /\ pc' = [p EXCEPT ![Head(w)] = "granted"]
        /\ sem' = v - 1 /\ sem' \in Nat
    BY <1>1 DEF WakeNext
  <2>4. pc' \in [Clients -> Places]
    BY <2>1, <2>2, <2>3
  <2>5. \A cl \in Clients : pc'[cl] = IF cl = Head(w) THEN "granted" ELSE p[cl]
    BY <2>1, <2>3
  <2>. QED
    BY <2>1, <2>2, <2>3, <2>4, <2>5
<1>2. CASE ~(v > 0 /\ w # <<>>)
  BY <1>2 DEF WakeNext
<1>. QED
  BY <1>1, <1>2

\* A client that gives its permit back is out, and the others keep their place.
LEMMA LeaveTypes ==
  ASSUME TypeOK, NEW cl \in Clients, ReleasePermit([pc EXCEPT ![cl] = "out"])
  PROVE  /\ sem' \in Nat /\ waiters' \in Seq(Clients) /\ pc' \in [Clients -> Places]
         /\ \A other \in Clients :
              pc'[other] \in HoldsConn => other # cl /\ pc'[other] = pc[other]
<1>. DEFINE p == [pc EXCEPT ![cl] = "out"]
<1>1. p \in [Clients -> Places] /\ sem + 1 \in Nat /\ waiters \in Seq(Clients)
  BY DEF TypeOK, Places
<1>2. WakeNext(sem + 1, waiters, p)
  BY DEF ReleasePermit
<1>3. p[cl] = "out" /\ \A other \in Clients \ {cl} : p[other] = pc[other]
  BY DEF TypeOK
<1>4. "out" \notin HoldsConn
  BY DEF HoldsConn
<1>. HIDE DEF p
<1>. QED
  BY <1>1, <1>2, <1>3, <1>4, WakeTypes

LEMMA UnregisterTypes ==
  ASSUME TypeInv, NEW c, Unregister(c)
  PROVE  /\ all' \subseteq Conns /\ checkedOut' \subseteq Conns
         /\ overflow' \subseteq Conns /\ expired' \subseteq Conns
         /\ usage' \in [Conns -> Nat]
BY DEF TypeInv, TypeOK, Unregister, ResetAttrs

LEMMA ScanTypes ==
  ASSUME TypeInv, NEW cl \in Clients, NEW next, Scan(cl, next)
  PROVE  /\ QueueTypes' /\ conn' \in [Clients -> Conns \cup {NoConn}]
         /\ next \in HoldsConn => conn'[cl] \in Conns
         /\ \A other \in Clients \ {cl} : conn'[other] = conn[other]
<1>1. CASE idle = <<>>
  BY <1>1 DEF Scan, TypeInv, TypeOK, QueueTypes, registry, attrs, HoldsConn
<1>2. CASE idle # <<>>
  <2>1. Head(idle) \in Conns /\ Tail(idle) \in Seq(Conns)
    BY <1>2, HeadTailProperties DEF TypeInv, TypeOK
  <2>2. /\ idle' \in Seq(Conns)
        /\ conn' = [conn EXCEPT ![cl] = Head(idle)]
    BY <1>2, <2>1 DEF Scan
  <2>3. CASE Unregister(Head(idle))
    BY <2>1, <2>2, <2>3, UnregisterTypes DEF TypeInv, TypeOK, QueueTypes
  <2>4. CASE UNCHANGED <<registry, attrs>>
    BY <2>1, <2>2, <2>4 DEF TypeInv, TypeOK, QueueTypes, registry, attrs
  <2>5. CASE Lend(Head(idle)) /\ UNCHANGED <<all, overflow, expired>>
    BY <2>1, <2>2, <2>5 DEF TypeInv, TypeOK, QueueTypes, Lend
  <2>. QED
    BY <1>2, <2>3, <2>4, <2>5 DEF Scan
<1>. QED
  BY <1>1, <1>2

LEMMA SleepTypes == HkOff \in HkStates /\ HkSleep \in HkStates
<1>1. <<>> \in Seq(Conns)
  BY EmptySeq
<1>2. HkOff \in HkStates
  BY <1>1 DEF HkOff, HkStates
<1>. QED
  BY <1>2 DEF HkSleep, HkStates

LEMMA ReplenishTypes ==
  ASSUME TypeInv, NEW q \in Seq(Conns), NEW a \in SUBSET Conns, Replenish(q, a)
  PROVE  QueueTypes' /\ hk' \in HkStates
<1>1. MinIdle \in Nat /\ Len(q) \in Nat
  BY ConfigAssumption, LenProperties
<1>2. CASE Len(q) < MinIdle /\ Cardinality(a) < MaxConn
  <2>1. MinIdle - Len(q) \in Nat
    BY <1>1, <1>2
  <2>2. hk' = [HkOff EXCEPT !.pc = "replenish", !.todo = MinIdle - Len(q)]
    BY <1>2 DEF Replenish, HkAt
  <2>3. hk' \in HkStates
    BY <2>1, <2>2, SleepTypes DEF HkStates
  <2>. QED
    BY <2>3 DEF Replenish, HkAt, TypeInv, TypeOK, QueueTypes, attrs
<1>3. CASE ~(Len(q) < MinIdle /\ Cardinality(a) < MaxConn)
  BY <1>3, SleepTypes DEF Replenish, HkAt, TypeInv, TypeOK, QueueTypes, attrs
<1>. QED
  BY <1>2, <1>3

LEMMA EvictTypes ==
  ASSUME TypeInv, NEW q \in Seq(Conns), NEW a \in SUBSET Conns,
         NEW kept \in Seq(Conns), NEW evicted \in Nat, Evict(q, a, kept, evicted)
  PROVE  QueueTypes' /\ hk' \in HkStates
<1>1. CASE Replenish(Reverse(kept \o q), a)
  <2>1. kept \o q \in Seq(Conns)
    BY ConcatProperties
  <2>. QED
    BY <1>1, <2>1, ReverseFacts, ReplenishTypes
<1>2. ASSUME NEW i \in DOMAIN q,
             HkAt(SubSeq(q, i + 1, Len(q)), a \ {q[i]},
                  [HkOff EXCEPT !.pc = "evict", !.conn = q[i], !.evicted = evicted,
                                !.kept = kept \o TakenBefore(q, i)]),
             checkedOut' = checkedOut \ {q[i]}, ResetAttrs(q[i])
      PROVE  QueueTypes' /\ hk' \in HkStates
  <2>1. q[i] \in Conns /\ i \in 1..Len(q) /\ Len(q) \in Nat
    BY <1>2
  <2>2. SubSeq(q, i + 1, Len(q)) \in Seq(Conns) /\ TakenBefore(q, i) \in Seq(Conns)
    BY <2>1 DEF TakenBefore
  <2>3. kept \o TakenBefore(q, i) \in Seq(Conns)
    BY <2>2, ConcatProperties
  <2>4. hk' \in HkStates
    BY <1>2, <2>1, <2>3, SleepTypes DEF HkAt, HkStates, HkOff
  <2>. QED
    BY <1>2, <2>1, <2>2, <2>4 DEF HkAt, ResetAttrs, TypeInv, TypeOK, QueueTypes
<1>. QED
  BY <1>1, <1>2 DEF Evict

LEMMA PrewarmTypes ==
  ASSUME TypeInv, NEW q \in Seq(Conns), NEW a \in SUBSET Conns, NEW size,
         PrewarmFrom(q, a, size)
  PROVE  QueueTypes' /\ hk' \in HkStates
<1>1. CASE Evict(q, a, <<>>, 0)
  BY <1>1, EvictTypes, EmptySeq
<1>2. ASSUME NEW n \in 1..PrewarmBatch,
             HkAt(q, a, [HkOff EXCEPT !.pc = "prewarm", !.todo = n]),
             UNCHANGED <<checkedOut, attrs>>
      PROVE  QueueTypes' /\ hk' \in HkStates
  <2>1. n \in Nat
    BY DEF PrewarmBatch
  <2>. QED
    BY <1>2, <2>1, SleepTypes
    DEF HkAt, HkStates, HkOff, TypeInv, TypeOK, QueueTypes, attrs
<1>. QED
  BY <1>1, <1>2 DEF PrewarmFrom

LEMMA InitTypes == Init => TypeInv
<1>1. MaxConn \in Nat
  BY ConfigAssumption DEF MaxConn
<1>2. <<>> \in Seq(Conns) /\ <<>> \in Seq(Clients)
  BY EmptySeq
<1>3. "out" \in Places /\ "out" \notin HoldsConn
  BY DEF Places, HoldsConn
<1>4. ASSUME Init PROVE TypeOK
  <2>1. pc \in [Clients -> Places] /\ conn \in [Clients -> Conns \cup {NoConn}]
    BY <1>3, <1>4 DEF Init
  <2>2. usage \in [Conns -> Nat] /\ hk \in HkStates
    BY <1>4, SleepTypes DEF Init
  <2>3. /\ init \in {"new", "running", "ready"} /\ paused \in BOOLEAN /\ closed \in BOOLEAN
        /\ ctl \in {"none", "draining", "stopping", "closing", "done"}
        /\ closing \subseteq Conns
    BY <1>4 DEF Init
  <2>4. sem \in Nat /\ waiterCount \in Int /\ lost \in Nat /\ surplus \in Nat
    BY <1>1, <1>4 DEF Init
  <2>5. waiters \in Seq(Clients) /\ idle \in Seq(Conns)
    BY <1>2, <1>4 DEF Init
  <2>6. /\ all \subseteq Conns /\ checkedOut \subseteq Conns /\ open \subseteq Conns
        /\ stray \subseteq Conns /\ overflow \subseteq Conns /\ expired \subseteq Conns
    BY <1>4 DEF Init
  <2>. QED
    BY <2>1, <2>2, <2>3, <2>4, <2>5, <2>6 DEF TypeOK
<1>5. Init => HasConn
  BY <1>3 DEF Init, HasConn
<1>. QED
  BY <1>4, <1>5 DEF TypeInv

LEMMA ClientTypes ==
  ASSUME TypeInv, NEW cl \in Clients, ClientStep(cl)
  PROVE  TypeInv'
<1>. USE DEF TypeInv, TypeOK, HasConn, life, queue, attrs, registry, history
<1>1. CASE Request(cl)
  <2>1. CASE /\ ~Locked
             /\ sem' = sem - 1
             /\ \E next \in Holding : Scan(cl, next) /\ pc' = [pc EXCEPT ![cl] = next]
             /\ UNCHANGED <<waiters, waiterCount>>
    <3>1. PICK next \in Holding : Scan(cl, next) /\ pc' = [pc EXCEPT ![cl] = next]
      BY <2>1
    <3>2. sem' \in Nat
      BY <2>1 DEF Locked
    <3>. QED
      BY <1>1, <2>1, <3>1, <3>2, ScanTypes DEF Request, QueueTypes, Places
  <2>2. CASE /\ Locked
             /\ waiters' = Append(waiters, cl) /\ waiterCount' = waiterCount + 1
             /\ pc' = [pc EXCEPT ![cl] = "waiting"]
             /\ UNCHANGED <<sem, idle, registry, attrs, conn>>
    BY <1>1, <2>2, AppendProperties DEF Request, Places, HoldsConn
  <2>. QED
    BY <1>1, <2>1, <2>2 DEF Request
<1>2. CASE Resume(cl)
  <2>1. PICK next \in Holding :
          Scan(cl, next) /\ WakeNext(sem, waiters, [pc EXCEPT ![cl] = next])
    BY <1>2 DEF Resume
  <2>2. [pc EXCEPT ![cl] = next] \in [Clients -> Places]
    BY DEF Places
  <2>3. /\ sem' \in Nat /\ waiters' \in Seq(Clients) /\ pc' \in [Clients -> Places]
        /\ \A other \in Clients :
             pc'[other] \in HoldsConn => pc'[other] = [pc EXCEPT ![cl] = next][other]
    BY <2>1, <2>2, WakeTypes
  <2>4. /\ QueueTypes' /\ conn' \in [Clients -> Conns \cup {NoConn}]
        /\ next \in HoldsConn => conn'[cl] \in Conns
        /\ \A other \in Clients \ {cl} : conn'[other] = conn[other]
    BY <2>1, ScanTypes
  <2>5. \A other \in Clients : pc'[other] \in HoldsConn => conn'[other] \in Conns
    BY <2>3, <2>4
  <2>. QED
    BY <1>2, <2>3, <2>4, <2>5 DEF Resume, QueueTypes
<1>3. CASE GiveUp(cl)
  <2>1. CASE pc[cl] = "waiting"
    <3>1. waiters' \in Seq(Clients) /\ pc' = [pc EXCEPT ![cl] = "out"] /\ sem' = sem
      BY <1>3, <2>1, RemoveAtType DEF GiveUp
    <3>2. "out" \in Places /\ "out" \notin HoldsConn
      BY DEF Places, HoldsConn
    <3>. QED
      BY <1>3, <3>1, <3>2 DEF GiveUp
  <2>2. CASE pc[cl] = "granted"
    <3>1. ReleasePermit([pc EXCEPT ![cl] = "out"])
      BY <1>3, <2>2 DEF GiveUp
    <3>2. /\ sem' \in Nat /\ waiters' \in Seq(Clients) /\ pc' \in [Clients -> Places]
          /\ \A other \in Clients :
               pc'[other] \in HoldsConn => other # cl /\ pc'[other] = pc[other]
      BY <3>1, LeaveTypes
    <3>. QED
      BY <1>3, <3>2 DEF GiveUp
  <2>. QED
    BY <1>3, <2>1, <2>2 DEF GiveUp
<1>4. CASE Validated(cl)
  BY <1>4 DEF Validated, Lend, Places, Holding, HoldsConn
<1>5. CASE PingFailed(cl)
  BY <1>5, UnregisterTypes DEF PingFailed, Places, Holding, HoldsConn
<1>6. CASE Discarded(cl)
  <2>1. PICK next \in Holding : Scan(cl, next) /\ pc' = [pc EXCEPT ![cl] = next]
    BY <1>6 DEF Discarded
  <2>. QED
    BY <1>6, <2>1, ScanTypes DEF Discarded, QueueTypes, Places
<1>7. CASE Created(cl)
  <2>1. PICK c \in Fresh :
          /\ conn' = [conn EXCEPT ![cl] = c]
          /\ open' = open \cup {c} /\ all' = all \cup {c}
          /\ overflow' = IF pc[cl] = "creatingOverflow" THEN overflow \cup {c} ELSE overflow
          /\ Lend(c)
    BY <1>7 DEF Created
  <2>2. c \in Conns
    BY DEF Fresh
  <2>. QED
    BY <1>7, <2>1, <2>2 DEF Created, Lend, Places, Holding, HoldsConn
<1>8. CASE Lose(cl) /\ (UNCHANGED stray \/ (pc[cl] \in HoldsConn /\ stray' = stray \cup {conn[cl]}))
  BY <1>8 DEF Lose, Places, HoldsConn
<1>9. CASE Release(cl)
  <2>1. conn[cl] \in Conns
    BY <1>9 DEF Release, HoldsConn
  <2>2. CASE Discardable(conn[cl])
    BY <1>9, <2>1, <2>2, UnregisterTypes DEF Release, Places, Holding, HoldsConn
  <2>3. CASE ~Discardable(conn[cl])
    <3>1. <<conn[cl]>> \o idle \in Seq(Conns)
      BY <2>1
    <3>2. ReleasePermit([pc EXCEPT ![cl] = "out"])
      BY <1>9, <2>3 DEF Release
    <3>3. /\ sem' \in Nat /\ waiters' \in Seq(Clients) /\ pc' \in [Clients -> Places]
          /\ \A other \in Clients :
               pc'[other] \in HoldsConn => other # cl /\ pc'[other] = pc[other]
      BY <3>2, LeaveTypes
    <3>. QED
      BY <1>9, <2>1, <2>3, <3>1, <3>3 DEF Release
  <2>. QED
    BY <2>2, <2>3
<1>10. CASE Released(cl)
  <2>1. ReleasePermit([pc EXCEPT ![cl] = "out"])
    BY <1>10 DEF Released
  <2>2. /\ sem' \in Nat /\ waiters' \in Seq(Clients) /\ pc' \in [Clients -> Places]
        /\ \A other \in Clients :
             pc'[other] \in HoldsConn => other # cl /\ pc'[other] = pc[other]
    BY <2>1, LeaveTypes
  <2>. QED
    BY <1>10, <2>2 DEF Released
<1>. QED
  BY <1>1, <1>2, <1>3, <1>4, <1>5, <1>6, <1>7, <1>8, <1>9, <1>10
  DEF ClientStep, CreateFailed, CancelAcquiring, CancelReleasing, HoldsConn

LEMMA LifecycleTypes ==
  ASSUME TypeInv, Lifecycle
  PROVE  TypeInv'
<1>. USE DEF TypeInv, TypeOK, HasConn, life, queue, attrs, registry, history
<1>1. CASE InitializeBegin
  BY <1>1 DEF InitializeBegin
<1>2. CASE InitializeEnd
  <2>1. PICK made \in SUBSET Fresh :
          all' = all \cup made /\ open' = open \cup made /\ idle' = SetToSeq(made) \o idle
    BY <1>2 DEF InitializeEnd
  <2>2. made \subseteq Conns
    BY DEF Fresh
  <2>3. IsFiniteSet(made)
    BY <2>2, ConnsAssumption, FS_Subset
  <2>4. SetToSeq(made) \in Seq(Conns)
    BY <2>2, <2>3, SetToSeqFacts, SeqMonotonic
  <2>5. idle' \in Seq(Conns)
    BY <2>1, <2>4, ConcatProperties
  <2>6. hk' \in HkStates
    BY <1>2, SleepTypes DEF InitializeEnd
  <2>. QED
    BY <1>2, <2>1, <2>2, <2>5, <2>6 DEF InitializeEnd
<1>3. CASE PausePool \/ ResumePool
  BY <1>3 DEF PausePool, ResumePool, SetPaused
<1>4. CASE DrainBegin
  BY <1>4 DEF DrainBegin
<1>5. CASE StopServing
  <2>1. hk.conn \in Conns \cup {NoConn}
    BY DEF HkStates
  <2>. QED
    BY <1>5, <2>1, SleepTypes DEF StopServing
<1>6. CASE CloseRegistry \/ CloseSocket \/ CloseEnd
  BY <1>6 DEF CloseRegistry, CloseSocket, CloseEnd
<1>. QED
  BY <1>1, <1>2, <1>3, <1>4, <1>5, <1>6 DEF Lifecycle, DrainElapsed, CloseBegin

LEMMA HousekeepingTypes ==
  ASSUME TypeInv, Housekeeping
  PROVE  TypeInv'
<1>. USE DEF TypeInv, TypeOK, HasConn, life, queue, attrs, registry, history
<1>1. IsFiniteSet(all) /\ Cardinality(all) \in Nat
  BY ConnsAssumption, FS_Subset, FS_CardinalityType
<1>2. /\ hk.conn \in Conns \cup {NoConn} /\ hk.kept \in Seq(Conns)
      /\ hk.evicted \in Nat /\ hk.todo \in Nat
  BY DEF HkStates
<1>3. \A c \in Fresh : c \in Conns /\ <<c>> \o idle \in Seq(Conns) /\ all \cup {c} \in SUBSET Conns
  BY DEF Fresh
<1>4. CASE HkWake
  <2>1. CASE PrewarmFrom(idle, all, Cardinality(all))
    BY <1>4, <2>1, PrewarmTypes DEF HkWake, QueueTypes
  <2>2. CASE /\ HkAt(idle, all, [HkOff EXCEPT !.pc = "scaleUp", !.size = Cardinality(all)])
             /\ UNCHANGED <<checkedOut, attrs>>
    <3>1. hk' \in HkStates
      BY <1>1, <2>2, SleepTypes DEF HkAt, HkStates
    <3>. QED
      BY <1>4, <2>2, <3>1 DEF HkWake, HkAt
  <2>3. CASE /\ MayShrink
             /\ HkAt(Tail(idle), all \ {Head(idle)},
                     [HkOff EXCEPT !.pc = "scaleDown", !.conn = Head(idle),
                                   !.size = Cardinality(all)])
             /\ checkedOut' = checkedOut \ {Head(idle)} /\ ResetAttrs(Head(idle))
    <3>1. Head(idle) \in Conns /\ Tail(idle) \in Seq(Conns)
      BY <2>3, ConfigAssumption, HeadTailProperties, EmptySeq DEF MayShrink
    <3>2. hk' \in HkStates
      BY <1>1, <2>3, <3>1, SleepTypes DEF HkAt, HkStates
    <3>. QED
      BY <1>4, <2>3, <3>1, <3>2 DEF HkWake, HkAt, ResetAttrs
  <2>. QED
    BY <1>4, <2>1, <2>2, <2>3 DEF HkWake
<1>5. CASE HkScaledUp
  <2>1. QueueTypes' /\ hk' \in HkStates /\ open' \subseteq Conns
    BY <1>3, <1>5, PrewarmTypes DEF HkScaledUp, HkMade, HkNotMade
  <2>. QED
    BY <1>5, <2>1 DEF HkScaledUp, QueueTypes
<1>6. CASE HkPrewarmed
  <2>1. ASSUME NEW q \in Seq(Conns), NEW a \in SUBSET Conns,
               \/ Evict(q, a, <<>>, 0)
               \/ hk.todo > 1 /\ HkAt(q, a, [hk EXCEPT !.todo = @ - 1])
                  /\ UNCHANGED <<checkedOut, attrs>>
        PROVE  QueueTypes' /\ hk' \in HkStates
    <3>1. CASE Evict(q, a, <<>>, 0)
      BY <3>1, EvictTypes, EmptySeq
    <3>2. CASE hk.todo > 1 /\ HkAt(q, a, [hk EXCEPT !.todo = @ - 1])
               /\ UNCHANGED <<checkedOut, attrs>>
      <4>1. hk.todo - 1 \in Nat
        BY <1>2, <3>2
      <4>. QED
        BY <3>2, <4>1 DEF HkAt, HkStates, QueueTypes
    <3>. QED
      BY <2>1, <3>1, <3>2
  <2>2. QueueTypes' /\ hk' \in HkStates /\ open' \subseteq Conns
    BY <1>3, <1>6, <2>1 DEF HkPrewarmed, HkMade, HkNotMade
  <2>. QED
    BY <1>6, <2>2 DEF HkPrewarmed, QueueTypes
<1>7. CASE HkReplenished
  <2>1. ASSUME NEW q \in Seq(Conns), NEW a \in SUBSET Conns,
               \/ HkAt(q, a, HkSleep)
               \/ hk.todo > 1 /\ HkAt(q, a, [hk EXCEPT !.todo = @ - 1])
        PROVE  idle' \in Seq(Conns) /\ all' \in SUBSET Conns /\ hk' \in HkStates
    <3>1. hk.todo > 1 => hk.todo - 1 \in Nat
      BY <1>2
    <3>. QED
      BY <2>1, <3>1, SleepTypes DEF HkAt, HkStates
  <2>2. idle' \in Seq(Conns) /\ all' \in SUBSET Conns /\ hk' \in HkStates /\ open' \subseteq Conns
    BY <1>3, <1>7, <2>1 DEF HkReplenished, HkMade, HkNotMade
  <2>. QED
    BY <1>7, <2>2 DEF HkReplenished
<1>8. CASE HkDestroyed
  <2>1. QueueTypes' /\ hk' \in HkStates
    BY <1>2, <1>8, PrewarmTypes, EvictTypes DEF HkDestroyed
  <2>2. sem' \in Nat /\ waiters' \in Seq(Clients) /\ pc' \in [Clients -> Places]
        /\ \A cl \in Clients : pc'[cl] \in HoldsConn => pc'[cl] = pc[cl]
    BY <1>8, WakeTypes DEF HkDestroyed, ReleasePermit
  <2>. QED
    BY <1>8, <2>1, <2>2 DEF HkDestroyed, QueueTypes
<1>. QED
  BY <1>4, <1>5, <1>6, <1>7, <1>8 DEF Housekeeping

LEMMA StepTypes == TypeInv /\ [Next]_vars => TypeInv'
<1>1. ASSUME TypeInv, NEW c \in Conns, Expire(c) PROVE TypeInv'
  BY <1>1 DEF Expire, TypeInv, TypeOK, HasConn, life, queue, registry, history
<1>2. ASSUME TypeInv, UNCHANGED vars PROVE TypeInv'
  BY <1>2 DEF vars, TypeInv, TypeOK, HasConn, life, queue, attrs, registry, history
<1>. QED
  BY <1>1, <1>2, ClientTypes, HousekeepingTypes, LifecycleTypes DEF Next, Finished

LEMMA Typed == Spec => []TypeInv
BY InitTypes, StepTypes, PTL DEF Spec

\* Every reachable state is well typed.
THEOREM TypeCorrect == Spec => []TypeOK
<1>1. TypeInv => TypeOK
  BY DEF TypeInv
<1>. QED
  BY <1>1, Typed, PTL

-----------------------------------------------------------------------------
(* One owner per connection *)

ClientsApart ==
  \A cl, other \in Clients : cl # other /\ conn[cl] # NoConn => conn[other] # conn[cl]

HkApart == Apart(idle, hk.kept, hk.conn)

\* A client lets go of what it holds.
LEMMA DropOwners ==
  ASSUME TypeInv, OneOwner, NEW cl \in Clients,
         conn' = [conn EXCEPT ![cl] = NoConn], UNCHANGED <<idle, hk>>
  PROVE  OneOwner'
BY DEF TypeInv, TypeOK, OneOwner, Apart

LEMMA ScanOwners ==
  ASSUME TypeInv, OneOwner, NEW cl \in Clients, NEW next, Scan(cl, next), UNCHANGED hk
  PROVE  OneOwner'
<1>1. CASE idle = <<>>
  BY <1>1, DropOwners DEF Scan
<1>2. CASE idle # <<>>
  <2>1. /\ idle' = Tail(idle) /\ conn' = [conn EXCEPT ![cl] = Head(idle)]
        /\ idle \in Seq(Conns)
    BY <1>2 DEF Scan, TypeInv, TypeOK
  <2>2. /\ Head(idle) \in ToSet(idle) /\ ToSet(Tail(idle)) \subseteq ToSet(idle)
        /\ Head(idle) \notin ToSet(Tail(idle)) /\ IsInjective(Tail(idle))
    BY <1>2, <2>1, ElemsTail DEF OneOwner, Apart
  <2>3. \A other \in Clients : conn'[other] = IF other = cl THEN Head(idle) ELSE conn[other]
    BY <2>1 DEF TypeInv, TypeOK
  <2>4. HkApart'
    BY <2>1, <2>2, <2>3 DEF OneOwner, Apart, HkApart
  <2>5. ClientsApart'
    BY <2>2, <2>3 DEF OneOwner, Apart, ClientsApart
  <2>. QED
    BY <2>4, <2>5 DEF HkApart, ClientsApart, OneOwner
<1>. QED
  BY <1>1, <1>2

LEMMA ClientOwners ==
  ASSUME TypeInv, OneOwner, NEW cl \in Clients, ClientStep(cl)
  PROVE  OneOwner'
<1>1. CASE UNCHANGED <<conn, idle, hk>>
  BY <1>1 DEF OneOwner, Apart
<1>2. ASSUME NEW next, Scan(cl, next), UNCHANGED hk PROVE OneOwner'
  BY <1>2, ScanOwners
<1>3. CASE conn' = [conn EXCEPT ![cl] = NoConn] /\ UNCHANGED <<idle, hk>>
  BY <1>3, DropOwners
<1>4. CASE Created(cl)
  <2>1. PICK c \in Fresh : conn' = [conn EXCEPT ![cl] = c]
    BY <1>4 DEF Created
  <2>2. /\ c \in Conns /\ c \notin ToSet(idle) \cup ToSet(hk.kept) \cup {hk.conn}
        /\ \A other \in Clients : conn[other] # c
    BY <2>1 DEF Fresh
  <2>3. \A other \in Clients : conn'[other] = IF other = cl THEN c ELSE conn[other]
    BY <2>1 DEF TypeInv, TypeOK
  <2>4. UNCHANGED <<idle, hk>>
    BY <1>4 DEF Created
  <2>. QED
    BY <2>2, <2>3, <2>4 DEF OneOwner, Apart
<1>5. CASE /\ pc[cl] = "leased" /\ idle' = <<conn[cl]>> \o idle
           /\ conn' = [conn EXCEPT ![cl] = NoConn] /\ UNCHANGED hk
  <2>1. conn[cl] \in Conns /\ conn[cl] # NoConn /\ idle \in Seq(Conns)
    BY <1>5, ConnsAssumption DEF TypeInv, TypeOK, HasConn, HoldsConn
  <2>2. conn[cl] \notin ToSet(idle) \cup ToSet(hk.kept) \cup {hk.conn}
    BY <2>1 DEF OneOwner, Apart
  <2>3. ToSet(idle') = {conn[cl]} \cup ToSet(idle) /\ IsInjective(idle')
    BY <1>5, <2>1, <2>2, ElemsCons DEF OneOwner, Apart
  <2>4. \A other \in Clients : conn'[other] = IF other = cl THEN NoConn ELSE conn[other]
    BY <1>5 DEF TypeInv, TypeOK
  <2>5. HkApart'
    BY <1>5, <2>1, <2>2, <2>3, <2>4 DEF OneOwner, Apart, HkApart
  <2>6. ClientsApart'
    BY <2>4 DEF OneOwner, ClientsApart
  <2>. QED
    BY <2>5, <2>6 DEF HkApart, ClientsApart, OneOwner
<1>6. CASE Request(cl)
  BY <1>1, <1>2, <1>6 DEF Request
<1>7. CASE Resume(cl) \/ Discarded(cl)
  BY <1>2, <1>7 DEF Resume, Discarded
<1>8. CASE GiveUp(cl) \/ Validated(cl) \/ PingFailed(cl)
  BY <1>1, <1>8 DEF GiveUp, Validated, PingFailed
<1>9. CASE Lose(cl) \/ Released(cl)
  BY <1>3, <1>9 DEF Lose, Released
<1>10. CASE Release(cl)
  BY <1>1, <1>5, <1>10 DEF Release
<1>. QED
  BY <1>4, <1>6, <1>7, <1>8, <1>9, <1>10
  DEF ClientStep, CreateFailed, CancelAcquiring, CancelReleasing

LEMMA EvictOwners ==
  ASSUME TypeInv, NEW q \in Seq(Conns), NEW a, NEW kept \in Seq(Conns), NEW evicted,
         Apart(q, kept, NoConn), UNCHANGED conn, Evict(q, a, kept, evicted)
  PROVE  HkApart'
<1>1. CASE Replenish(Reverse(kept \o q), a)
  <2>1. kept \o q \in Seq(Conns) /\ ToSet(kept \o q) = ToSet(kept) \cup ToSet(q)
    BY ConcatProperties, ElemsConcat
  <2>2. IsInjective(kept \o q)
    BY ElemsConcat DEF Apart
  <2>3. /\ ToSet(Reverse(kept \o q)) \subseteq ToSet(kept) \cup ToSet(q)
        /\ IsInjective(Reverse(kept \o q))
    BY <2>1, <2>2, ElemsReverse
  <2>4. idle' = Reverse(kept \o q) /\ hk'.kept = <<>> /\ hk'.conn = NoConn
    BY <1>1 DEF Replenish, HkAt, HkOff, HkSleep
  <2>. QED
    BY <2>3, <2>4, ElemsEmpty DEF Apart, HkApart
<1>2. ASSUME NEW i \in DOMAIN q,
             HkAt(SubSeq(q, i + 1, Len(q)), a \ {q[i]},
                  [HkOff EXCEPT !.pc = "evict", !.conn = q[i], !.evicted = evicted,
                                !.kept = kept \o TakenBefore(q, i)])
      PROVE  HkApart'
  <2>. DEFINE l == TakenBefore(q, i)
              r == SubSeq(q, i + 1, Len(q))
  <2>1. /\ q[i] \in Conns /\ l \in Seq(Conns) /\ r \in Seq(Conns)
        /\ IsInjective(l) /\ IsInjective(r)
        /\ ToSet(l) \cap ToSet(r) = {} /\ q[i] \notin ToSet(l) \cup ToSet(r)
        /\ ToSet(l) \cup ToSet(r) \cup {q[i]} \subseteq ToSet(q)
    BY <1>2, ElemsCut DEF Apart, TakenBefore
  <2>2. idle' = r /\ hk'.kept = kept \o l /\ hk'.conn = q[i]
    BY <1>2 DEF HkAt, HkOff
  <2>. HIDE DEF l, r
  <2>3. ToSet(kept \o l) = ToSet(kept) \cup ToSet(l) /\ IsInjective(kept \o l)
    BY <2>1, ElemsConcat DEF Apart
  <2>. QED
    BY <2>1, <2>2, <2>3 DEF Apart, HkApart
<1>. QED
  BY <1>1, <1>2 DEF Evict

LEMMA PrewarmOwners ==
  ASSUME TypeInv, NEW q \in Seq(Conns), NEW a, NEW size,
         Apart(q, <<>>, NoConn), UNCHANGED conn, PrewarmFrom(q, a, size)
  PROVE  HkApart'
<1>1. CASE Evict(q, a, <<>>, 0)
  BY <1>1, EvictOwners, EmptySeq
<1>2. ASSUME NEW n, HkAt(q, a, [HkOff EXCEPT !.pc = "prewarm", !.todo = n]) PROVE HkApart'
  <2>1. idle' = q /\ hk'.kept = <<>> /\ hk'.conn = NoConn
    BY <1>2 DEF HkAt, HkOff
  <2>. QED
    BY <2>1 DEF HkApart, Apart
<1>. QED
  BY <1>1, <1>2 DEF PrewarmFrom

\* The idle queue without and with one more connection, as a pass works on it.
LEMMA IdleApart ==
  ASSUME TypeInv, OneOwner
  PROVE  /\ idle \in Seq(Conns) /\ hk.kept \in Seq(Conns)
         /\ ToSet(idle) \subseteq Conns /\ ToSet(hk.kept) \subseteq Conns /\ NoConn \notin Conns
         /\ Apart(idle, <<>>, NoConn) /\ Apart(idle, hk.kept, NoConn)
<1>1. idle \in Seq(Conns) /\ hk.kept \in Seq(Conns)
  BY DEF TypeInv, TypeOK, HkStates
<1>2. ToSet(idle) \subseteq Conns /\ ToSet(hk.kept) \subseteq Conns /\ NoConn \notin Conns
  BY <1>1, ElemsType, ConnsAssumption
<1>. QED
  BY <1>1, <1>2, ElemsEmpty DEF OneOwner, Apart

LEMMA FreshApart ==
  ASSUME TypeInv, OneOwner, NEW c \in Fresh
  PROVE  /\ c \in Conns /\ <<c>> \o idle \in Seq(Conns)
         /\ ToSet(<<c>> \o idle) = {c} \cup ToSet(idle)
         /\ Apart(<<c>> \o idle, <<>>, NoConn)
         /\ Apart(<<c>> \o idle, hk.kept, hk.conn)
<1>1. idle \in Seq(Conns) /\ ToSet(idle) \subseteq Conns /\ NoConn \notin Conns
  BY IdleApart
<1>2. /\ c \in Conns /\ c \notin ToSet(idle) \cup ToSet(hk.kept) \cup {hk.conn}
      /\ \A cl \in Clients : conn[cl] # c
  BY DEF Fresh
<1>3. /\ <<c>> \o idle \in Seq(Conns) /\ ToSet(<<c>> \o idle) = {c} \cup ToSet(idle)
      /\ IsInjective(<<c>> \o idle)
  BY <1>1, <1>2, ElemsCons DEF OneOwner, Apart
<1>4. Apart(<<c>> \o idle, hk.kept, hk.conn)
  BY <1>2, <1>3 DEF OneOwner, Apart
<1>5. Apart(<<c>> \o idle, <<>>, NoConn)
  BY <1>1, <1>2, <1>3, ElemsEmpty DEF OneOwner, Apart
<1>. QED
  BY <1>2, <1>3, <1>4, <1>5

LEMMA HousekeepingOwners ==
  ASSUME TypeInv, OneOwner, Housekeeping
  PROVE  OneOwner'
<1>1. conn' = conn /\ idle \in Seq(Conns) /\ hk.kept \in Seq(Conns)
  BY DEF Housekeeping, HkWake, HkScaledUp, HkPrewarmed, HkReplenished, HkDestroyed,
         TypeInv, TypeOK, HkStates
<1>2. ToSet(idle) \subseteq Conns /\ NoConn \notin Conns
  BY IdleApart
<1>3. Apart(idle, <<>>, NoConn) /\ Apart(idle, hk.kept, NoConn)
  BY IdleApart
<1>4. ASSUME NEW c \in Fresh
      PROVE  /\ <<c>> \o idle \in Seq(Conns)
             /\ Apart(<<c>> \o idle, <<>>, NoConn)
             /\ Apart(<<c>> \o idle, hk.kept, hk.conn)
  BY FreshApart
<1>5. CASE HkWake
  <2>1. ASSUME PrewarmFrom(idle, all, Cardinality(all)) PROVE HkApart'
    BY <1>1, <1>3, <2>1, PrewarmOwners
  <2>2. ASSUME HkAt(idle, all, [HkOff EXCEPT !.pc = "scaleUp", !.size = Cardinality(all)])
        PROVE  HkApart'
    <3>1. idle' = idle /\ hk'.kept = <<>> /\ hk'.conn = NoConn
      BY <2>2 DEF HkAt, HkOff
    <3>. QED
      BY <1>1, <1>3, <3>1 DEF HkApart, Apart
  <2>3. ASSUME MayShrink,
               HkAt(Tail(idle), all \ {Head(idle)},
                    [HkOff EXCEPT !.pc = "scaleDown", !.conn = Head(idle),
                                  !.size = Cardinality(all)])
        PROVE  HkApart'
    <3>1. idle # <<>>
      BY <2>3, ConfigAssumption, EmptySeq DEF MayShrink
    <3>2. /\ Head(idle) \in ToSet(idle) /\ ToSet(Tail(idle)) \subseteq ToSet(idle)
          /\ Head(idle) \notin ToSet(Tail(idle)) /\ IsInjective(Tail(idle))
      BY <1>1, <3>1, ElemsTail DEF OneOwner, Apart
    <3>3. idle' = Tail(idle) /\ hk'.kept = <<>> /\ hk'.conn = Head(idle)
      BY <2>3 DEF HkAt, HkOff
    <3>. QED
      BY <1>1, <3>2, <3>3, ElemsEmpty DEF OneOwner, HkApart, Apart
  <2>4. HkApart'
    BY <1>5, <2>1, <2>2, <2>3 DEF HkWake
  <2>. QED
    BY <1>1, <2>4 DEF OneOwner, HkApart
<1>6. CASE HkScaledUp
  <2>1. HkApart'
    BY <1>1, <1>3, <1>4, <1>6, PrewarmOwners DEF HkScaledUp, HkMade, HkNotMade
  <2>. QED
    BY <1>1, <2>1 DEF OneOwner, HkApart
<1>7. CASE HkPrewarmed
  <2>1. ASSUME NEW q \in Seq(Conns), NEW a, Apart(q, <<>>, NoConn), Evict(q, a, <<>>, 0)
        PROVE  HkApart'
    BY <1>1, <2>1, EvictOwners, EmptySeq
  <2>2. ASSUME NEW q, NEW a, Apart(q, hk.kept, hk.conn),
               HkAt(q, a, [hk EXCEPT !.todo = @ - 1])
        PROVE  HkApart'
    <3>1. idle' = q /\ hk'.kept = hk.kept /\ hk'.conn = hk.conn
      BY <2>2 DEF HkAt, TypeInv, TypeOK, HkStates
    <3>. QED
      BY <1>1, <2>2, <3>1 DEF HkApart, Apart
  <2>3. HkApart'
    BY <1>1, <1>3, <1>4, <1>7, <2>1, <2>2 DEF HkPrewarmed, HkMade, HkNotMade
  <2>. QED
    BY <1>1, <2>3 DEF OneOwner, HkApart
<1>8. CASE HkReplenished
  <2>1. ASSUME NEW q, NEW a, Apart(q, <<>>, NoConn), HkAt(q, a, HkSleep)
        PROVE  HkApart'
    <3>1. idle' = q /\ hk'.kept = <<>> /\ hk'.conn = NoConn
      BY <2>1 DEF HkAt, HkSleep, HkOff
    <3>. QED
      BY <1>1, <2>1, <3>1 DEF HkApart, Apart
  <2>2. ASSUME NEW q, NEW a, Apart(q, hk.kept, hk.conn),
               HkAt(q, a, [hk EXCEPT !.todo = @ - 1])
        PROVE  HkApart'
    <3>1. idle' = q /\ hk'.kept = hk.kept /\ hk'.conn = hk.conn
      BY <2>2 DEF HkAt, TypeInv, TypeOK, HkStates
    <3>. QED
      BY <1>1, <2>2, <3>1 DEF HkApart, Apart
  <2>3. HkApart'
    BY <1>3, <1>4, <1>8, <2>1, <2>2 DEF HkReplenished, HkMade, HkNotMade
  <2>. QED
    BY <1>1, <2>3 DEF OneOwner, HkApart
<1>9. CASE HkDestroyed
  <2>1. HkApart'
    BY <1>1, <1>3, <1>9, PrewarmOwners, EvictOwners DEF HkDestroyed
  <2>. QED
    BY <1>1, <2>1 DEF OneOwner, HkApart
<1>. QED
  BY <1>5, <1>6, <1>7, <1>8, <1>9 DEF Housekeeping

LEMMA LifecycleOwners ==
  ASSUME TypeInv, OneOwner, Lifecycle
  PROVE  OneOwner'
<1>1. CASE UNCHANGED <<conn, idle, hk>>
  BY <1>1 DEF OneOwner, Apart
<1>2. idle \in Seq(Conns) /\ ToSet(idle) \subseteq Conns /\ NoConn \notin Conns
  BY ElemsType, ConnsAssumption DEF TypeInv, TypeOK
<1>3. HkOff.kept = <<>> /\ HkOff.conn = NoConn /\ HkSleep.kept = <<>> /\ HkSleep.conn = NoConn
  BY DEF HkOff, HkSleep
<1>4. CASE StopServing
  <2>1. UNCHANGED <<conn, idle>> /\ hk'.kept = <<>> /\ hk'.conn = NoConn
    BY <1>3, <1>4 DEF StopServing
  <2>. QED
    BY <1>2, <2>1, ElemsEmpty DEF OneOwner, Apart
<1>5. CASE InitializeEnd
  <2>1. PICK made \in SUBSET Fresh : idle' = SetToSeq(made) \o idle
    BY <1>5 DEF InitializeEnd
  <2>2. /\ made \subseteq Conns /\ made \cap ToSet(idle) = {}
        /\ \A cl \in Clients : conn[cl] \notin made
    BY DEF Fresh
  <2>3. IsFiniteSet(made)
    BY <2>2, ConnsAssumption, FS_Subset
  <2>4. SetToSeq(made) \in Seq(made) /\ IsInjective(SetToSeq(made))
    BY <2>3, SetToSeqFacts
  <2>5. SetToSeq(made) \in Seq(Conns) /\ ToSet(SetToSeq(made)) \subseteq made
    BY <2>2, <2>4, SeqMonotonic, ElemsType
  <2>6. ToSet(idle') \subseteq made \cup ToSet(idle) /\ IsInjective(idle')
    BY <1>2, <2>1, <2>2, <2>4, <2>5, ElemsConcat DEF OneOwner, Apart
  <2>7. conn' = conn /\ hk'.kept = <<>> /\ hk'.conn = NoConn
    BY <1>3, <1>5 DEF InitializeEnd
  <2>. QED
    BY <1>2, <2>2, <2>6, <2>7, ElemsEmpty DEF OneOwner, Apart
<1>. QED
  BY <1>1, <1>4, <1>5
  DEF Lifecycle, InitializeBegin, PausePool, ResumePool, SetPaused, DrainBegin,
      DrainElapsed, CloseBegin, CloseRegistry, CloseSocket, CloseEnd

\* At most one owner for every connection, at all times: no two coroutines ever use
\* the same socket, whatever is cancelled, evicted, drained or closed meanwhile.
THEOREM OwnersDistinct == Spec => []OneOwner
<1>1. Init => OneOwner
  <2>1. HkOff.kept = <<>> /\ HkOff.conn = NoConn
    BY DEF HkOff
  <2>. QED
    BY <2>1, ElemsEmpty DEF Init, OneOwner, Apart
<1>2. TypeInv /\ OneOwner /\ [Next]_vars => OneOwner'
  <2>1. ASSUME OneOwner, UNCHANGED vars PROVE OneOwner'
    BY <2>1 DEF vars, OneOwner, Apart
  <2>2. ASSUME OneOwner, NEW c \in Conns, Expire(c) PROVE OneOwner'
    BY <2>2 DEF Expire, OneOwner, Apart
  <2>. QED
    BY <2>1, <2>2, ClientOwners, HousekeepingOwners, LifecycleOwners DEF Next, Finished
<1>. QED
  BY <1>1, <1>2, Typed, PTL DEF Spec

====
