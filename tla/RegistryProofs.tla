---------------------------- MODULE RegistryProofs ----------------------------
(***************************************************************************)
(* Theorems about the registry of ConnectionPool: _all_connections,        *)
(* _checked_out and _idle_queue, the attributes and the sockets of the     *)
(* connections in them, and what is left of each when the pool is closed.  *)
(***************************************************************************)
EXTENDS PermitProofs

-----------------------------------------------------------------------------
(* The inductive invariant *)

\* The connections of the clients at one of the places in P: the ones they are using,
\* pinging or using, and closing.
In(P) == {conn[cl] : cl \in At(P)}
Lent == In({"leased"})
Handled == In(InUse)
Dropped == In({"discarding", "releasing"})

\* close() has taken the connections out of the registry.
Cleared == ctl \in {"closing", "done"}

\* Once the pool is closed housekeeping is over and stays over, and the registry is only
\* cleared when initialize() is not about to fill it.
Phases ==
  /\ closed <=> ctl \in {"stopping", "closing", "done"}
  /\ ctl # "closing" => closing = {}
  /\ closed \/ init # "ready" => hk = HkOff
  /\ Cleared => init # "running"

\* A housekeeping pass keeps connections aside only while it evicts, and holds one only
\* while it closes it.
PassState ==
  /\ hk.pc # "evict" => hk.kept = <<>>
  /\ hk.pc \notin Destroying => hk.conn = NoConn

\* A client that has not taken a connection, or has let go of it, refers to none.
Hands == \A cl \in Clients : pc[cl] \notin HoldsConn => conn[cl] = NoConn

\* A connection on its way out is not registered, a registered one is open, and every
\* open one is registered, on its way out, or cut off by a cancellation.
Sockets ==
  /\ all \cap (Dropped \cup {hk.conn} \cup closing) = {}
  /\ all \subseteq open
  /\ open \subseteq all \cup closing \cup stray \cup {hk.conn} \cup Dropped

\* What housekeeping may hand back to the idle queue q.
Poolable(q, a) ==
  /\ q \subseteq a \ overflow
  /\ \A c \in q : usage[c] < MaxUsage

\* The attributes of a connection that is not registered are those of a new one.
Clean(a) == overflow \subseteq a /\ \A c \in Conns \ a : usage[c] = 0

Registered ==
  ~Cleared =>
    /\ checkedOut = Lent /\ Handled \subseteq all
    /\ Poolable(ToSet(idle) \cup ToSet(hk.kept), all) /\ Clean(all)

\* After close() cleared the registry only connections made too late are in it, and
\* their clients give them back to be closed.
Emptied == Cleared => all \subseteq Lent

RegistryInv == Phases /\ PassState /\ Hands /\ Sockets /\ Registered /\ Emptied

-----------------------------------------------------------------------------
(* Housekeeping *)

\* The connection c, if there is one, leaves the registry: _destroy_connection.
Destroys(a, c) ==
  /\ all' = a \ {c} /\ checkedOut' = checkedOut \ {c}
  /\ overflow' = overflow \ {c}
  /\ \A d \in Conns : usage'[d] = IF d = c THEN 0 ELSE usage[d]

\* The rest of a pass, from the idle connections q and the registered ones a: it takes
\* one connection out of q at most, to destroy it, and keeps the others.
Continues(q, a, kept) ==
  /\ Destroys(a, hk'.conn) /\ hk'.conn \in q \cup {NoConn}
  /\ ToSet(idle') \cup ToSet(hk'.kept) \cup {hk'.conn} \cup {NoConn}
       = q \cup kept \cup {NoConn}
  /\ PassState'

LEMMA DestroysNone ==
  ASSUME TypeInv, NEW a \in SUBSET Conns, all' = a, UNCHANGED <<checkedOut, attrs>>
  PROVE  Destroys(a, NoConn)
BY ConnsAssumption DEF Destroys, attrs, TypeInv, TypeOK

LEMMA ContinuesWith ==
  ASSUME TypeInv, NEW q, NEW a \in SUBSET Conns,
         idle' = q, all' = a, UNCHANGED <<checkedOut, attrs>>,
         hk'.kept = <<>>, hk'.conn = NoConn
  PROVE  Continues(ToSet(q), a, {})
<1>1. Destroys(a, NoConn)
  BY DestroysNone
<1>. QED
  BY <1>1, ElemsEmpty DEF Continues, PassState

LEMMA ReplenishContinues ==
  ASSUME TypeInv, NEW q \in Seq(Conns), NEW a \in SUBSET Conns, Replenish(q, a)
  PROVE  Continues(ToSet(q), a, {})
<1>1. /\ idle' = q /\ all' = a /\ UNCHANGED <<checkedOut, attrs>>
      /\ hk'.kept = <<>> /\ hk'.conn = NoConn
  BY DEF Replenish, HkAt, HkOff, HkSleep
<1>. QED
  BY <1>1, ContinuesWith

LEMMA EvictContinues ==
  ASSUME TypeInv, NEW q \in Seq(Conns), NEW a \in SUBSET Conns, NEW kept \in Seq(Conns),
         NEW evicted, Apart(q, kept, NoConn), Evict(q, a, kept, evicted)
  PROVE  Continues(ToSet(q), a, ToSet(kept))
<1>1. CASE Replenish(Reverse(kept \o q), a)
  <2>. DEFINE s == kept \o q
  <2>1. s \in Seq(Conns) /\ ToSet(s) = ToSet(kept) \cup ToSet(q)
    BY ConcatProperties, ElemsConcat
  <2>. HIDE DEF s
  <2>2. Reverse(s) \in Seq(Conns) /\ ToSet(Reverse(s)) = ToSet(s)
    BY <2>1, ElemsReverse, ReverseFacts
  <2>3. Continues(ToSet(kept) \cup ToSet(q), a, {})
    BY <1>1, <2>1, <2>2, ReplenishContinues DEF s
  <2>4. hk'.conn = NoConn
    BY <1>1 DEF Replenish, HkAt, HkOff, HkSleep
  <2>. QED
    BY <2>3, <2>4 DEF Continues
<1>2. ASSUME NEW i \in DOMAIN q,
             HkAt(SubSeq(q, i + 1, Len(q)), a \ {q[i]},
                  [HkOff EXCEPT !.pc = "evict", !.conn = q[i], !.evicted = evicted,
                                !.kept = kept \o TakenBefore(q, i)]),
             checkedOut' = checkedOut \ {q[i]}, ResetAttrs(q[i])
      PROVE  Continues(ToSet(q), a, ToSet(kept))
  <2>. DEFINE l == TakenBefore(q, i)
              r == SubSeq(q, i + 1, Len(q))
  <2>1. /\ q[i] \in Conns /\ l \in Seq(Conns) /\ r \in Seq(Conns)
        /\ ToSet(l) \cup ToSet(r) \cup {q[i]} = ToSet(q)
    BY <1>2, ElemsCut DEF Apart, TakenBefore
  <2>2. /\ idle' = r /\ hk'.kept = kept \o l /\ hk'.conn = q[i] /\ hk'.pc = "evict"
        /\ all' = a \ {q[i]}
    BY <1>2 DEF HkAt, HkOff
  <2>. HIDE DEF l, r
  <2>3. ToSet(kept \o l) = ToSet(kept) \cup ToSet(l)
    BY <2>1, ElemsConcat
  <2>4. Destroys(a, q[i])
    BY <1>2, <2>1, <2>2 DEF Destroys, ResetAttrs, TypeInv, TypeOK
  <2>5. PassState'
    BY <2>2 DEF PassState, Destroying
  <2>. QED
    BY <2>1, <2>2, <2>3, <2>4, <2>5 DEF Continues
<1>. QED
  BY <1>1, <1>2 DEF Evict

LEMMA PrewarmContinues ==
  ASSUME TypeInv, NEW q \in Seq(Conns), NEW a \in SUBSET Conns, NEW size,
         Apart(q, <<>>, NoConn), PrewarmFrom(q, a, size)
  PROVE  Continues(ToSet(q), a, {})
<1>1. CASE Evict(q, a, <<>>, 0)
  BY <1>1, EvictContinues, EmptySeq, ElemsEmpty
<1>2. CASE ~Evict(q, a, <<>>, 0)
  <2>1. /\ idle' = q /\ all' = a /\ UNCHANGED <<checkedOut, attrs>>
        /\ hk'.kept = <<>> /\ hk'.conn = NoConn
    BY <1>2 DEF PrewarmFrom, HkAt, HkOff
  <2>. QED
    BY <2>1, ContinuesWith
<1>. QED
  BY <1>1, <1>2

\* One step of a pass: it ends the close it was waiting for, adds the connections it has
\* made, and goes on.
PassStep(made) ==
  /\ open' = (open \ {hk.conn}) \cup made
  /\ Continues(ToSet(idle) \cup made, all \cup made, ToSet(hk.kept))
  /\ UNCHANGED <<life, stray, conn, lost>>

LEMMA HousekeepingStep ==
  ASSUME TypeInv, OneOwner, PassState, Housekeeping
  PROVE  \E made \in SUBSET Fresh : PassStep(made)
<1>1. /\ all \in SUBSET Conns /\ open \in SUBSET Conns
      /\ idle \in Seq(Conns) /\ hk.kept \in Seq(Conns) /\ NoConn \notin Conns
      /\ Apart(idle, <<>>, NoConn) /\ Apart(idle, hk.kept, NoConn)
  BY IdleApart DEF TypeInv, TypeOK
<1>2. hk.pc # "evict" => hk.kept = <<>> /\ ToSet(hk.kept) = {}
  BY ElemsEmpty DEF PassState
<1>3. hk.pc \notin Destroying => hk.conn = NoConn
  BY DEF PassState
<1>4. ASSUME open' = open \ {hk.conn}, Continues(ToSet(idle), all, ToSet(hk.kept)),
             UNCHANGED <<life, stray, conn, lost>>
      PROVE  \E made \in SUBSET Fresh : PassStep(made)
  <2>1. ToSet(idle) \cup {} = ToSet(idle) /\ all \cup {} = all
        /\ (open \ {hk.conn}) \cup {} = open \ {hk.conn}
    OBVIOUS
  <2>2. PassStep({})
    BY <1>4, <2>1 DEF PassStep
  <2>3. {} \in SUBSET Fresh
    OBVIOUS
  <2>. QED
    BY <2>2, <2>3
<1>5. ASSUME NEW c \in Fresh, open' = (open \ {hk.conn}) \cup {c},
             Continues(ToSet(<<c>> \o idle), all \cup {c}, ToSet(hk.kept)),
             UNCHANGED <<life, stray, conn, lost>>
      PROVE  \E made \in SUBSET Fresh : PassStep(made)
  <2>1. ToSet(<<c>> \o idle) = ToSet(idle) \cup {c}
    BY FreshApart
  <2>2. PassStep({c})
    BY <1>5, <2>1 DEF PassStep
  <2>. QED
    BY <2>2
<1>6. CASE HkWake
  <2>1. UNCHANGED <<life, stray, conn, lost>> /\ open' = open \ {hk.conn}
    BY <1>1, <1>3, <1>6 DEF HkWake, history, Destroying
  <2>2. Continues(ToSet(idle), all, {})
    <3>1. CASE PrewarmFrom(idle, all, Cardinality(all))
      BY <1>1, <3>1, PrewarmContinues
    <3>2. CASE /\ HkAt(idle, all, [HkOff EXCEPT !.pc = "scaleUp", !.size = Cardinality(all)])
               /\ UNCHANGED <<checkedOut, attrs>>
      <4>1. idle' = idle /\ all' = all /\ hk'.kept = <<>> /\ hk'.conn = NoConn
        BY <3>2 DEF HkAt, HkOff
      <4>. QED
        BY <1>1, <3>2, <4>1, ContinuesWith
    <3>3. CASE /\ MayShrink
               /\ HkAt(Tail(idle), all \ {Head(idle)},
                       [HkOff EXCEPT !.pc = "scaleDown", !.conn = Head(idle),
                                     !.size = Cardinality(all)])
               /\ checkedOut' = checkedOut \ {Head(idle)} /\ ResetAttrs(Head(idle))
      <4>. DEFINE h == Head(idle)
      <4>1. idle # <<>>
        BY <3>3, ConfigAssumption, EmptySeq DEF MayShrink
      <4>2. IsInjective(idle)
        BY DEF OneOwner, Apart
      <4>3. h \in ToSet(idle) /\ ToSet(Tail(idle)) = ToSet(idle) \ {h}
        BY <1>1, <4>1, <4>2, ElemsTail, ElemsExactTail
      <4>4. /\ idle' = Tail(idle) /\ all' = all \ {h} /\ hk'.kept = <<>> /\ hk'.conn = h
            /\ hk'.pc = "scaleDown"
        BY <3>3 DEF HkAt, HkOff
      <4>5. checkedOut' = checkedOut \ {h} /\ ResetAttrs(h)
        BY <3>3
      <4>. HIDE DEF h
      <4>6. Destroys(all, h)
        BY <4>4, <4>5 DEF Destroys, ResetAttrs, TypeInv, TypeOK
      <4>7. PassState'
        BY <4>4 DEF PassState, Destroying
      <4>. QED
        BY <4>3, <4>4, <4>6, <4>7, ElemsEmpty DEF Continues
    <3>. QED
      BY <1>6, <3>1, <3>2, <3>3 DEF HkWake
  <2>3. hk.pc # "evict"
    BY <1>6 DEF HkWake
  <2>. QED
    BY <1>2, <1>4, <2>1, <2>2, <2>3
<1>7. ASSUME hk.pc \notin Destroying, UNCHANGED <<life, stray, conn, lost>>,
             \/ \E c \in Fresh :
                  /\ open' = open \cup {c}
                  /\ Continues(ToSet(<<c>> \o idle), all \cup {c}, {})
             \/ open' = open /\ Continues(ToSet(idle), all, {})
      PROVE  \E made \in SUBSET Fresh : PassStep(made)
  <2>1. ToSet(hk.kept) = {} /\ open \ {hk.conn} = open
    BY <1>1, <1>2, <1>3, <1>7 DEF Destroying
  <2>2. ASSUME NEW c \in Fresh, open' = open \cup {c},
               Continues(ToSet(<<c>> \o idle), all \cup {c}, {})
        PROVE  \E made \in SUBSET Fresh : PassStep(made)
    BY <1>5, <1>7, <2>1, <2>2
  <2>3. ASSUME open' = open, Continues(ToSet(idle), all, {})
        PROVE  \E made \in SUBSET Fresh : PassStep(made)
    BY <1>4, <1>7, <2>1, <2>3
  <2>. QED
    BY <1>7, <2>2, <2>3
<1>8. \A c \in Fresh : /\ <<c>> \o idle \in Seq(Conns) /\ all \cup {c} \in SUBSET Conns
                      /\ Apart(<<c>> \o idle, <<>>, NoConn)
  BY <1>1, FreshApart
<1>9. CASE HkScaledUp
  <2>1. hk.pc \notin Destroying /\ UNCHANGED <<life, stray, conn, lost>>
    BY <1>9 DEF HkScaledUp, history, Destroying
  <2>2. \/ \E c \in Fresh :
             open' = open \cup {c} /\ PrewarmFrom(<<c>> \o idle, all \cup {c}, hk.size)
        \/ open' = open /\ PrewarmFrom(idle, all, hk.size)
    BY <1>9 DEF HkScaledUp, HkMade, HkNotMade
  <2>. QED
    BY <1>1, <1>7, <1>8, <2>1, <2>2, PrewarmContinues
<1>10. CASE HkPrewarmed
  <2>1. hk.pc = "prewarm" /\ hk.pc \notin Destroying /\ UNCHANGED <<life, stray, conn, lost>>
    BY <1>10 DEF HkPrewarmed, history, Destroying
  <2>2. ASSUME NEW q \in Seq(Conns), NEW a \in SUBSET Conns, Apart(q, <<>>, NoConn),
               \/ Evict(q, a, <<>>, 0)
               \/ HkAt(q, a, [hk EXCEPT !.todo = @ - 1]) /\ UNCHANGED <<checkedOut, attrs>>
        PROVE  Continues(ToSet(q), a, {})
    <3>1. CASE Evict(q, a, <<>>, 0)
      BY <2>2, <3>1, EvictContinues, EmptySeq, ElemsEmpty
    <3>2. CASE HkAt(q, a, [hk EXCEPT !.todo = @ - 1]) /\ UNCHANGED <<checkedOut, attrs>>
      <4>1. idle' = q /\ all' = a /\ hk'.kept = hk.kept /\ hk'.conn = hk.conn
        BY <3>2 DEF HkAt, TypeInv, TypeOK, HkStates
      <4>2. hk'.kept = <<>> /\ hk'.conn = NoConn
        BY <1>2, <1>3, <2>1, <4>1
      <4>. QED
        BY <3>2, <4>1, <4>2, ContinuesWith
    <3>. QED
      BY <2>2, <3>1, <3>2
  <2>3. \/ \E c \in Fresh :
             /\ open' = open \cup {c}
             /\ \/ Evict(<<c>> \o idle, all \cup {c}, <<>>, 0)
                \/ HkAt(<<c>> \o idle, all \cup {c}, [hk EXCEPT !.todo = @ - 1])
                   /\ UNCHANGED <<checkedOut, attrs>>
        \/ open' = open /\ Evict(idle, all, <<>>, 0)
    BY <1>10 DEF HkPrewarmed, HkMade, HkNotMade
  <2>. QED
    BY <1>1, <1>7, <1>8, <2>1, <2>2, <2>3
<1>11. CASE HkReplenished
  <2>1. /\ hk.pc = "replenish" /\ hk.pc \notin Destroying
        /\ UNCHANGED <<life, stray, conn, lost, checkedOut, attrs>>
    BY <1>11 DEF HkReplenished, history, Destroying
  <2>2. ASSUME NEW q \in Seq(Conns), NEW a \in SUBSET Conns,
               HkAt(q, a, HkSleep) \/ HkAt(q, a, [hk EXCEPT !.todo = @ - 1])
        PROVE  Continues(ToSet(q), a, {})
    <3>1. /\ idle' = q /\ all' = a
          /\ hk'.kept \in {hk.kept, <<>>} /\ hk'.conn \in {hk.conn, NoConn}
      BY <2>2 DEF HkAt, HkSleep, HkOff, TypeInv, TypeOK, HkStates
    <3>2. hk'.kept = <<>> /\ hk'.conn = NoConn
      BY <1>2, <1>3, <2>1, <3>1
    <3>. QED
      BY <2>1, <3>1, <3>2, ContinuesWith
  <2>3. \/ \E c \in Fresh :
             /\ open' = open \cup {c}
             /\ \/ HkAt(<<c>> \o idle, all \cup {c}, HkSleep)
                \/ HkAt(<<c>> \o idle, all \cup {c}, [hk EXCEPT !.todo = @ - 1])
        \/ open' = open /\ HkAt(idle, all, HkSleep)
    BY <1>11 DEF HkReplenished, HkMade, HkNotMade
  <2>. QED
    BY <1>1, <1>7, <1>8, <2>1, <2>2, <2>3
<1>12. CASE HkDestroyed
  <2>1. open' = open \ {hk.conn} /\ UNCHANGED <<life, stray, conn, lost>>
    BY <1>12 DEF HkDestroyed
  <2>2. CASE hk.pc = "scaleDown"
    <3>1. PrewarmFrom(idle, all, hk.size)
      BY <1>12, <2>2 DEF HkDestroyed
    <3>2. Continues(ToSet(idle), all, {})
      BY <1>1, <3>1, PrewarmContinues
    <3>. QED
      BY <1>2, <1>4, <2>1, <2>2, <3>2
  <2>3. CASE hk.pc = "evict"
    <3>1. Evict(idle, all, hk.kept, hk.evicted + 1)
      BY <1>12, <2>3 DEF HkDestroyed
    <3>2. Continues(ToSet(idle), all, ToSet(hk.kept))
      BY <1>1, <3>1, EvictContinues
    <3>. QED
      BY <1>4, <2>1, <3>2
  <2>. QED
    BY <1>12, <2>2, <2>3 DEF HkDestroyed
<1>. QED
  BY <1>6, <1>9, <1>10, <1>11, <1>12 DEF Housekeeping

-----------------------------------------------------------------------------
(* Clients: what the other clients hold stays the same. *)

Others(cl, P) == {conn[other] : other \in At(P) \ {cl}}
Own(cl, P) == IF pc[cl] \in P THEN {conn[cl]} ELSE {}

LEMMA OthersFacts ==
  ASSUME TypeInv, OneOwner, NEW cl \in Clients, NEW P \in SUBSET HoldsConn
  PROVE  /\ In(P) = Others(cl, P) \cup Own(cl, P)
         /\ Others(cl, P) \subseteq Conns /\ conn[cl] \notin Others(cl, P)
         /\ Others(cl, P) \cap (ToSet(idle) \cup ToSet(hk.kept) \cup {hk.conn}) = {}
<1>1. \A other \in At(P) \ {cl} :
        /\ conn[other] \in Conns /\ conn[other] # NoConn /\ conn[other] # conn[cl]
        /\ conn[other] \notin ToSet(idle) \cup ToSet(hk.kept) \cup {hk.conn}
  BY ConnsAssumption DEF At, TypeInv, HasConn, OneOwner, Apart
<1>. QED
  BY <1>1 DEF In, Others, Own, At

LEMMA OthersStay ==
  ASSUME NEW cl \in Clients, Alone(cl), NEW P \in SUBSET HoldsConn
  PROVE  Others(cl, P)' = Others(cl, P)
<1>1. "waiting" \notin P /\ "granted" \notin P
  BY DEF HoldsConn
<1>2. \A other \in Clients \ {cl} :
        (pc'[other] \in P <=> pc[other] \in P) /\ conn'[other] = conn[other]
  BY <1>1 DEF Alone, Stays
<1>. QED
  BY <1>2 DEF Others, At

\* Two other clients do not hold the same connection.
LEMMA OthersDiffer ==
  ASSUME TypeInv, OneOwner, NEW cl \in Clients, NEW P \in SUBSET HoldsConn,
         NEW Q \in SUBSET HoldsConn, P \cap Q = {}
  PROVE  Others(cl, P) \cap Others(cl, Q) = {}
<1>1. ASSUME NEW one \in At(P), NEW two \in At(Q) PROVE conn[one] # conn[two]
  <2>1. one # two /\ conn[one] # NoConn
    BY <1>1, ConnsAssumption DEF At, TypeInv, HasConn
  <2>. QED
    BY <2>1 DEF OneOwner, At
<1>. QED
  BY <1>1 DEF Others

LEMMA HandsStay ==
  ASSUME Hands, NEW cl \in Clients, Alone(cl), pc'[cl] \notin HoldsConn => conn'[cl] = NoConn
  PROVE  Hands'
<1>1. "waiting" \notin HoldsConn /\ "granted" \notin HoldsConn
  BY DEF HoldsConn
<1>. QED
  BY <1>1 DEF Hands, Alone, Stays

\* L, U and D are the connections the other clients use, handle and close: the four
\* variables that say what a client does split into its own part and theirs.
Context(cl, L, U, D) ==
  /\ L \subseteq U /\ U \subseteq Conns /\ D \subseteq Conns /\ U \cap D = {}
  /\ (U \cup D) \cap (ToSet(idle) \cup ToSet(hk.kept) \cup {hk.conn, conn[cl]}) = {}
  /\ Lent = L \cup Own(cl, {"leased"}) /\ Lent' = L \cup Own(cl, {"leased"})'
  /\ Handled = U \cup Own(cl, InUse) /\ Handled' = U \cup Own(cl, InUse)'
  /\ Dropped = D \cup Own(cl, {"discarding", "releasing"})
  /\ Dropped' = D \cup Own(cl, {"discarding", "releasing"})'

LEMMA ClientContext ==
  ASSUME TypeInv, OneOwner, QueueInv, NEW cl \in Clients, ClientStep(cl)
  PROVE  \E L, U, D : Context(cl, L, U, D)
<1>. DEFINE P == {"leased"}
            Q == {"discarding", "releasing"}
<1>1. P \in SUBSET HoldsConn /\ Q \in SUBSET HoldsConn /\ InUse \in SUBSET HoldsConn
  BY DEF HoldsConn, InUse
<1>2. Alone(cl)
  BY ClientAlone
<1>3. Others(cl, P) \subseteq Others(cl, InUse)
  BY DEF Others, At, InUse
<1>4. InUse \cap Q = {}
  BY DEF InUse
<1>5. Others(cl, InUse) \cap Others(cl, Q) = {}
  BY <1>1, <1>4, OthersDiffer
<1>6. ASSUME NEW R \in SUBSET HoldsConn
      PROVE  /\ In(R) = Others(cl, R) \cup Own(cl, R) /\ In(R)' = Others(cl, R) \cup Own(cl, R)'
             /\ Others(cl, R) \subseteq Conns
             /\ Others(cl, R) \cap (ToSet(idle) \cup ToSet(hk.kept) \cup {hk.conn, conn[cl]}) = {}
  <2>1. In(R)' = Others(cl, R)' \cup Own(cl, R)'
    BY DEF In, Others, Own, At
  <2>. QED
    BY <1>2, <2>1, OthersFacts, OthersStay
<1>. HIDE DEF P, Q
<1>7. Context(cl, Others(cl, P), Others(cl, InUse), Others(cl, Q))
  BY <1>1, <1>3, <1>5, <1>6 DEF Context, Lent, Handled, Dropped, P, Q
<1>. QED
  BY <1>7

\* What a client's step leaves alone.
LEMMA PhasesStay ==
  ASSUME RegistryInv, UNCHANGED <<life, hk>>
  PROVE  Phases' /\ PassState'
BY DEF RegistryInv, Phases, PassState, Cleared, life

\* What a client has when it comes to the idle queue is not in the registry.
LEMMA Arriving ==
  ASSUME TypeInv, RegistryInv, NEW cl \in Clients, pc[cl] \notin InUse
  PROVE  conn[cl] \notin all /\ Own(cl, {"leased"}) = {} /\ Own(cl, InUse) = {}
<1>1. CASE pc[cl] \in {"discarding", "releasing"}
  <2>1. conn[cl] \in Dropped
    BY <1>1 DEF Dropped, In, At
  <2>. QED
    BY <1>1, <2>1 DEF RegistryInv, Sockets, Own, InUse
<1>2. CASE pc[cl] \notin HoldsConn
  <2>1. conn[cl] = NoConn
    BY <1>2 DEF RegistryInv, Hands
  <2>. QED
    BY <1>2, <2>1, ConnsAssumption DEF Own, InUse, HoldsConn, TypeInv, TypeOK
<1>. QED
  BY <1>1, <1>2 DEF HoldsConn, InUse

LEMMA ScanRegistry ==
  ASSUME TypeInv, OneOwner, RegistryInv, NEW cl \in Clients, Alone(cl),
         NEW L, NEW U, NEW D, Context(cl, L, U, D),
         NEW next, Scan(cl, next), pc'[cl] = next, pc[cl] \notin InUse,
         open' = open \ {conn[cl]}, UNCHANGED <<life, stray, hk>>
  PROVE  RegistryInv'
<1>. DEFINE I == ToSet(idle)
            K == ToSet(hk.kept)
            c == conn'[cl]
<1>1. /\ conn[cl] \notin all /\ Own(cl, {"leased"}) = {} /\ Own(cl, InUse) = {}
      /\ Own(cl, {"discarding", "releasing"}) \subseteq {conn[cl]}
  BY Arriving DEF Own
<1>2. Phases' /\ PassState'
  BY PhasesStay
<1>3. closing' = closing /\ hk' = hk /\ stray' = stray /\ Cleared' = Cleared
  BY DEF life, Cleared
<1>4. CASE idle = <<>>
  <2>1. /\ next \notin HoldsConn /\ c = NoConn
        /\ UNCHANGED <<idle, registry, attrs>>
    BY <1>4 DEF Scan, TypeInv, TypeOK, HoldsConn
  <2>2. Own(cl, {"leased"})' = {} /\ Own(cl, InUse)' = {}
        /\ Own(cl, {"discarding", "releasing"})' = {}
    BY <2>1 DEF Own, HoldsConn, InUse
  <2>3. Hands'
    BY <2>1, HandsStay DEF RegistryInv
  <2>4. Lent' = Lent /\ Handled' = Handled /\ Dropped' = Dropped \ {conn[cl]}
    BY <1>1, <2>2 DEF Context
  <2>5. Sockets'
    BY <1>1, <1>3, <2>1, <2>4 DEF RegistryInv, Sockets, registry
  <2>6. Registered' /\ Emptied'
    BY <1>3, <2>1, <2>4 DEF RegistryInv, Registered, Emptied, Poolable, Clean, registry, attrs
  <2>. QED
    BY <1>2, <2>3, <2>5, <2>6 DEF RegistryInv
<1>5. CASE idle # <<>>
  <2>1. idle \in Seq(Conns) /\ IsInjective(idle)
    BY DEF TypeInv, TypeOK, OneOwner, Apart
  <2>2. c = Head(idle) /\ idle' = Tail(idle)
    BY <1>5 DEF Scan, TypeInv, TypeOK
  <2>3. c \in I /\ c \in Conns /\ ToSet(idle') = I \ {c}
    BY <1>5, <2>1, <2>2, ElemsTail, ElemsExactTail, ElemsType
  <2>4. c \notin K /\ c # hk.conn
    BY <2>3 DEF OneOwner, Apart
  <2>5. c \notin U \cup D
    BY <2>3 DEF Context
  <2>6. next \in HoldsConn
    BY <1>5 DEF Scan, HoldsConn
  <2>7. Hands'
    BY <2>6, HandsStay DEF RegistryInv
  <2>8. I \subseteq Conns /\ K \subseteq Conns
    BY IdleApart
  <2>9. CASE Unfit(c) /\ next = "discarding" /\ Unregister(c)
    <3>1. /\ Own(cl, {"leased"})' = {} /\ Own(cl, InUse)' = {}
          /\ Own(cl, {"discarding", "releasing"})' = {c}
      BY <2>9 DEF Own, InUse
    <3>2. /\ Lent' = Lent /\ Handled' = Handled /\ Dropped' = D \cup {c}
          /\ Dropped \subseteq D \cup {conn[cl]} /\ D \subseteq Dropped
          /\ c \notin Lent /\ c \notin Handled
      BY <1>1, <2>5, <3>1 DEF Context
    <3>3. /\ all' = all \ {c} /\ checkedOut' = checkedOut \ {c} /\ overflow' = overflow \ {c}
          /\ \A d \in Conns : usage'[d] = IF d = c THEN 0 ELSE usage[d]
      BY <2>9 DEF Unregister, ResetAttrs, TypeInv, TypeOK
    <3>4. Sockets'
      BY <1>1, <1>3, <3>2, <3>3 DEF RegistryInv, Sockets
    <3>5. Registered'
      <4>1. ASSUME ~Cleared PROVE (Poolable(I \cup K, all) /\ Clean(all))'
        <5>1. Poolable(I \cup K, all) /\ Clean(all)
          BY <4>1 DEF RegistryInv, Registered
        <5>. QED
          BY <1>3, <2>3, <2>4, <2>8, <3>3, <5>1 DEF Poolable, Clean
      <4>. QED
        BY <1>3, <3>2, <3>3, <4>1 DEF RegistryInv, Registered
    <3>6. Emptied'
      BY <1>3, <3>2, <3>3 DEF RegistryInv, Emptied
    <3>. QED
      BY <1>2, <2>7, <3>4, <3>5, <3>6 DEF RegistryInv
  <2>10. CASE next = "validating" /\ UNCHANGED <<registry, attrs>>
    <3>1. /\ Own(cl, {"leased"})' = {} /\ Own(cl, InUse)' = {c}
          /\ Own(cl, {"discarding", "releasing"})' = {}
      BY <2>10 DEF Own, InUse
    <3>2. /\ Lent' = Lent /\ Handled' = Handled \cup {c} /\ Dropped' = D
          /\ Dropped \subseteq D \cup {conn[cl]} /\ D \subseteq Dropped
          /\ conn[cl] \notin D
      BY <1>1, <3>1 DEF Context
    <3>3. UNCHANGED <<all, checkedOut, overflow, usage>>
      BY <2>10 DEF registry, attrs
    <3>4. Sockets'
      BY <1>1, <1>3, <3>2, <3>3 DEF RegistryInv, Sockets
    <3>5. Registered'
      <4>1. ASSUME ~Cleared
            PROVE  c \in all /\ (Poolable(I \cup K, all) /\ Clean(all))'
        <5>1. Poolable(I \cup K, all) /\ Clean(all)
          BY <4>1 DEF RegistryInv, Registered
        <5>. QED
          BY <1>3, <2>3, <3>3, <5>1 DEF Poolable, Clean
      <4>. QED
        BY <1>3, <3>2, <3>3, <4>1 DEF RegistryInv, Registered
    <3>6. Emptied'
      BY <1>3, <3>2, <3>3 DEF RegistryInv, Emptied
    <3>. QED
      BY <1>2, <2>7, <3>4, <3>5, <3>6 DEF RegistryInv
  <2>11. CASE next = "leased" /\ Lend(c) /\ UNCHANGED <<all, overflow, expired>>
    <3>1. /\ Own(cl, {"leased"})' = {c} /\ Own(cl, InUse)' = {c}
          /\ Own(cl, {"discarding", "releasing"})' = {}
      BY <2>11 DEF Own, InUse
    <3>2. /\ Lent' = Lent \cup {c} /\ Handled' = Handled \cup {c} /\ Dropped' = D
          /\ Dropped \subseteq D \cup {conn[cl]} /\ D \subseteq Dropped
          /\ conn[cl] \notin D
      BY <1>1, <3>1 DEF Context
    <3>3. /\ all' = all /\ overflow' = overflow /\ checkedOut' = checkedOut \cup {c}
          /\ \A d \in Conns \ {c} : usage'[d] = usage[d]
      BY <2>11 DEF Lend, TypeInv, TypeOK
    <3>4. Sockets'
      BY <1>1, <1>3, <3>2, <3>3 DEF RegistryInv, Sockets
    <3>5. Registered'
      <4>1. ASSUME ~Cleared
            PROVE  c \in all /\ (Poolable(I \cup K, all) /\ Clean(all))'
        <5>1. Poolable(I \cup K, all) /\ Clean(all)
          BY <4>1 DEF RegistryInv, Registered
        <5>. QED
          BY <1>3, <2>3, <2>4, <2>8, <3>3, <5>1 DEF Poolable, Clean
      <4>. QED
        BY <1>3, <3>2, <3>3, <4>1 DEF RegistryInv, Registered
    <3>6. Emptied'
      BY <1>3, <3>2, <3>3 DEF RegistryInv, Emptied
    <3>. QED
      BY <1>2, <2>7, <3>4, <3>5, <3>6 DEF RegistryInv
  <2>. QED
    BY <1>5, <2>2, <2>9, <2>10, <2>11 DEF Scan
<1>. QED
  BY <1>4, <1>5

\* A client that waits, or gives up, has nothing to do with connections.
LEMMA IdleRegistry ==
  ASSUME TypeInv, RegistryInv, NEW cl \in Clients, Alone(cl),
         pc[cl] \notin HoldsConn, pc'[cl] \notin HoldsConn,
         NEW L, NEW U, NEW D, Context(cl, L, U, D),
         UNCHANGED <<life, idle, registry, open, stray, attrs, conn, hk>>
  PROVE  RegistryInv'
<1>1. Phases' /\ PassState'
  BY PhasesStay
<1>2. Hands'
  BY HandsStay DEF RegistryInv, Hands
<1>3. Lent' = Lent /\ Handled' = Handled /\ Dropped' = Dropped
  BY DEF Context, Own, HoldsConn, InUse
<1>4. UNCHANGED <<closing, Cleared>>
  BY DEF life, Cleared
<1>. QED
  BY <1>1, <1>2, <1>3, <1>4
  DEF RegistryInv, Sockets, Registered, Emptied, Poolable, Clean, registry, attrs

\* A client starts to use the connection it was pinging.
LEMMA ValidatedRegistry ==
  ASSUME TypeInv, OneOwner, RegistryInv, NEW cl \in Clients, Alone(cl), Validated(cl),
         NEW L, NEW U, NEW D, Context(cl, L, U, D)
  PROVE  RegistryInv'
<1>. DEFINE c == conn[cl]
<1>1. /\ pc[cl] = "validating" /\ pc'[cl] = "leased" /\ conn'[cl] = c
      /\ c \in Conns /\ c # NoConn
  BY ConnsAssumption DEF Validated, TypeInv, TypeOK, HasConn, HoldsConn
<1>2. /\ UNCHANGED <<life, idle, all, open, stray, overflow, hk>>
      /\ checkedOut' = checkedOut \cup {c}
      /\ \A d \in Conns \ {c} : usage'[d] = usage[d]
  BY DEF Validated, Lend, TypeInv, TypeOK
<1>3. UNCHANGED <<closing, Cleared>>
  BY <1>2 DEF life, Cleared
<1>4. Lent' = Lent \cup {c} /\ Handled' = Handled /\ Dropped' = Dropped /\ c \in Handled
  BY <1>1 DEF Context, Own, InUse
<1>5. Phases' /\ PassState' /\ Hands'
  BY <1>1, <1>2, PhasesStay, HandsStay DEF RegistryInv, HoldsConn
<1>6. c \notin ToSet(idle) \cup ToSet(hk.kept)
  BY <1>1 DEF OneOwner, Apart
<1>7. ToSet(idle) \subseteq Conns /\ ToSet(hk.kept) \subseteq Conns
  BY IdleApart
<1>8. ASSUME ~Cleared
      PROVE  (Poolable(ToSet(idle) \cup ToSet(hk.kept), all) /\ Clean(all))'
  <2>1. c \in all /\ Poolable(ToSet(idle) \cup ToSet(hk.kept), all) /\ Clean(all)
    BY <1>4, <1>8 DEF RegistryInv, Registered
  <2>. QED
    BY <1>2, <1>6, <1>7, <2>1 DEF Poolable, Clean
<1>9. Sockets' /\ Emptied'
  BY <1>2, <1>3, <1>4 DEF RegistryInv, Sockets, Emptied
<1>10. Registered'
  BY <1>2, <1>3, <1>4, <1>8 DEF RegistryInv, Registered
<1>. QED
  BY <1>5, <1>9, <1>10 DEF RegistryInv

\* A client destroys the connection it pinged or used.
LEMMA DestroyRegistry ==
  ASSUME TypeInv, OneOwner, RegistryInv, NEW cl \in Clients, Alone(cl),
         pc[cl] \in InUse, pc'[cl] \in {"discarding", "releasing"}, Unregister(conn[cl]),
         UNCHANGED <<life, idle, open, stray, conn, hk>>,
         NEW L, NEW U, NEW D, Context(cl, L, U, D)
  PROVE  RegistryInv'
<1>. DEFINE c == conn[cl]
<1>1. conn'[cl] = c /\ c \in Conns /\ c # NoConn
  BY ConnsAssumption DEF TypeInv, TypeOK, HasConn, HoldsConn, InUse
<1>2. /\ all' = all \ {c} /\ checkedOut' = checkedOut \ {c} /\ overflow' = overflow \ {c}
      /\ \A d \in Conns : usage'[d] = IF d = c THEN 0 ELSE usage[d]
  BY DEF Unregister, ResetAttrs, TypeInv, TypeOK
<1>3. UNCHANGED <<closing, Cleared>>
  BY DEF life, Cleared
<1>4. /\ Lent' = Lent \ {c} /\ Handled' = Handled \ {c} /\ Dropped' = Dropped \cup {c}
      /\ Handled = U \cup {c}
  BY <1>1 DEF Context, Own, InUse
<1>5. Phases' /\ PassState' /\ Hands'
  BY <1>1, PhasesStay, HandsStay DEF RegistryInv, HoldsConn
<1>6. c \notin ToSet(idle) \cup ToSet(hk.kept)
  BY <1>1 DEF OneOwner, Apart
<1>7. ToSet(idle) \subseteq Conns /\ ToSet(hk.kept) \subseteq Conns
  BY IdleApart
<1>8. ASSUME ~Cleared
      PROVE  (Poolable(ToSet(idle) \cup ToSet(hk.kept), all) /\ Clean(all))'
  <2>1. Poolable(ToSet(idle) \cup ToSet(hk.kept), all) /\ Clean(all)
    BY <1>8 DEF RegistryInv, Registered
  <2>. QED
    BY <1>2, <1>6, <1>7, <2>1 DEF Poolable, Clean
<1>9. Sockets' /\ Emptied'
  BY <1>2, <1>3, <1>4 DEF RegistryInv, Sockets, Emptied
<1>10. Registered'
  BY <1>2, <1>3, <1>4, <1>8 DEF RegistryInv, Registered
<1>. QED
  BY <1>5, <1>9, <1>10 DEF RegistryInv

\* A connection a client has made is registered and in use at once.
LEMMA CreatedRegistry ==
  ASSUME TypeInv, OneOwner, RegistryInv, NEW cl \in Clients, Alone(cl), Created(cl),
         NEW L, NEW U, NEW D, Context(cl, L, U, D)
  PROVE  RegistryInv'
<1>1. PICK c \in Fresh :
        /\ conn' = [conn EXCEPT ![cl] = c]
        /\ open' = open \cup {c} /\ all' = all \cup {c}
        /\ overflow' = IF pc[cl] = "creatingOverflow" THEN overflow \cup {c} ELSE overflow
        /\ Lend(c)
  BY DEF Created
<1>2. /\ c \in Conns /\ c \notin ToSet(idle) \cup ToSet(hk.kept) \cup {hk.conn} \cup closing
      /\ \A other \in Clients : conn[other] # c
  BY DEF Fresh
<1>3. pc[cl] \notin HoldsConn /\ pc'[cl] = "leased" /\ conn'[cl] = c
  BY <1>1 DEF Created, Creating, HoldsConn, TypeInv, TypeOK
<1>4. /\ UNCHANGED <<life, idle, stray, hk>> /\ checkedOut' = checkedOut \cup {c}
      /\ \A d \in Conns \ {c} : usage'[d] = usage[d]
      /\ overflow' \subseteq overflow \cup {c}
  BY <1>1 DEF Created, Lend, TypeInv, TypeOK
<1>5. UNCHANGED <<closing, Cleared>>
  BY <1>4 DEF life, Cleared
<1>6. /\ Lent' = Lent \cup {c} /\ Handled' = Handled \cup {c} /\ Dropped' = Dropped
  BY <1>3 DEF Context, Own, InUse, HoldsConn
<1>7. c \notin Dropped
  BY <1>2 DEF Dropped, In, At
<1>8. Phases' /\ PassState' /\ Hands'
  BY <1>3, <1>4, PhasesStay, HandsStay DEF RegistryInv, HoldsConn
<1>9. ToSet(idle) \subseteq Conns /\ ToSet(hk.kept) \subseteq Conns
  BY IdleApart
<1>10. ASSUME ~Cleared
       PROVE  (Poolable(ToSet(idle) \cup ToSet(hk.kept), all) /\ Clean(all))'
  <2>1. Poolable(ToSet(idle) \cup ToSet(hk.kept), all) /\ Clean(all)
    BY <1>10 DEF RegistryInv, Registered
  <2>. QED
    BY <1>1, <1>2, <1>4, <1>9, <2>1 DEF Poolable, Clean
<1>11. Sockets' /\ Emptied'
  BY <1>1, <1>2, <1>4, <1>5, <1>6, <1>7 DEF RegistryInv, Sockets, Emptied
<1>12. Registered'
  BY <1>1, <1>4, <1>5, <1>6, <1>10 DEF RegistryInv, Registered
<1>. QED
  BY <1>8, <1>11, <1>12 DEF RegistryInv

\* A client lets go of what it holds: of nothing, of a connection it pinged, or of one
\* whose close it leaves behind.
LEMMA LetGoRegistry ==
  ASSUME TypeInv, OneOwner, RegistryInv, NEW cl \in Clients, Alone(cl),
         pc[cl] # "leased", pc'[cl] = "out", conn'[cl] = NoConn,
         pc[cl] \in {"discarding", "releasing"}
           => conn[cl] \notin open' \/ conn[cl] \in stray',
         open' \in {open, open \ {conn[cl]}}, stray' \in {stray, stray \cup {conn[cl]}},
         pc[cl] \in InUse => open' = open,
         UNCHANGED <<life, idle, registry, attrs, hk>>,
         NEW L, NEW U, NEW D, Context(cl, L, U, D)
  PROVE  RegistryInv'
<1>1. Phases' /\ PassState' /\ Hands'
  BY PhasesStay, HandsStay DEF RegistryInv
<1>2. UNCHANGED <<closing, Cleared, all, checkedOut, overflow, usage>>
  BY DEF life, Cleared, registry, attrs
<1>3. /\ Lent' = Lent /\ Handled' \subseteq Handled
      /\ Dropped' \subseteq Dropped
      /\ Dropped \subseteq Dropped' \cup Own(cl, {"discarding", "releasing"})
  BY DEF Context, Own, InUse
<1>4. Registered' /\ Emptied'
  BY <1>2, <1>3 DEF RegistryInv, Registered, Emptied, Poolable, Clean
<1>5. all \subseteq open'
  BY Arriving DEF RegistryInv, Sockets
<1>6. open' \subseteq all \cup closing \cup stray' \cup {hk.conn} \cup Dropped'
  BY <1>3 DEF RegistryInv, Sockets, Own
<1>7. Sockets'
  BY <1>2, <1>3, <1>5, <1>6 DEF RegistryInv, Sockets
<1>. QED
  BY <1>1, <1>4, <1>7 DEF RegistryInv

\* A client gives its connection back to the idle queue.
LEMMA PooledRegistry ==
  ASSUME TypeInv, OneOwner, RegistryInv, NEW cl \in Clients, Alone(cl),
         pc[cl] = "leased", pc'[cl] = "out", ~Discardable(conn[cl]),
         checkedOut' = checkedOut \ {conn[cl]}, idle' = <<conn[cl]>> \o idle,
         conn' = [conn EXCEPT ![cl] = NoConn],
         UNCHANGED <<life, all, open, stray, attrs, hk>>,
         NEW L, NEW U, NEW D, Context(cl, L, U, D)
  PROVE  RegistryInv'
<1>. DEFINE c == conn[cl]
<1>1. conn'[cl] = NoConn /\ c \in Conns /\ idle \in Seq(Conns)
  BY DEF TypeInv, TypeOK, HasConn, HoldsConn
<1>2. ToSet(idle') = {c} \cup ToSet(idle)
  BY <1>1, ElemsCons
<1>3. UNCHANGED <<closing, Cleared, overflow, usage>>
  BY DEF life, Cleared, attrs
<1>4. ~Cleared
  BY DEF RegistryInv, Phases, Cleared, Discardable
<1>5. /\ Lent' = Lent \ {c} /\ Handled' = Handled \ {c} /\ Dropped' = Dropped
      /\ c \in Handled
  BY <1>1 DEF Context, Own, InUse
<1>6. Phases' /\ PassState' /\ Hands'
  BY <1>1, PhasesStay, HandsStay DEF RegistryInv
<1>7. c \in all /\ c \notin overflow /\ usage[c] < MaxUsage
  <2>1. usage[c] \in Nat /\ MaxUsage \in Nat
    BY <1>1, ConfigAssumption DEF TypeInv, TypeOK
  <2>. QED
    BY <1>4, <1>5, <2>1 DEF RegistryInv, Registered, Discardable, Unfit
<1>8. Sockets' /\ Emptied'
  BY <1>3, <1>4, <1>5 DEF RegistryInv, Sockets, Emptied
<1>9. Registered'
  BY <1>2, <1>3, <1>4, <1>5, <1>7 DEF RegistryInv, Registered, Poolable, Clean
<1>. QED
  BY <1>6, <1>8, <1>9 DEF RegistryInv

LEMMA ClientRegistry ==
  ASSUME TypeInv, OneOwner, QueueInv, RegistryInv, NEW cl \in Clients, ClientStep(cl)
  PROVE  RegistryInv'
<1>1. PICK L, U, D : Context(cl, L, U, D)
  BY ClientContext
<1>2. Alone(cl)
  BY ClientAlone
<1>3. TypeOK /\ pc \in [Clients -> Places] /\ conn \in [Clients -> Conns \cup {NoConn}]
  BY DEF TypeInv, TypeOK
<1>4. \A x : pc' = [pc EXCEPT ![cl] = x] => pc'[cl] = x
  BY <1>3
<1>5. ASSUME NEW v, pc[cl] # "waiting", WakeNext(v, waiters, [pc EXCEPT ![cl] = "out"])
      PROVE  pc'[cl] = "out"
  BY <1>3, <1>5, MoveWakeAlone, PlaceFacts
<1>6. /\ open \subseteq Conns /\ NoConn \notin Conns
      /\ {"waiting", "granted", "out"} \cap HoldsConn = {}
  BY ConnsAssumption DEF TypeInv, TypeOK, HoldsConn
<1>7. ASSUME NEW next, Scan(cl, next), pc'[cl] = next, pc[cl] \notin InUse,
             open' = open \ {conn[cl]}, UNCHANGED <<life, stray, hk>>
      PROVE  RegistryInv'
  BY <1>1, <1>2, <1>7, ScanRegistry
<1>8. ASSUME pc[cl] \notin HoldsConn, pc'[cl] \notin HoldsConn,
             UNCHANGED <<life, idle, registry, open, stray, attrs, conn, hk>>
      PROVE  RegistryInv'
  BY <1>1, <1>2, <1>8, IdleRegistry
<1>9. CASE Request(cl)
  <2>1. pc[cl] \notin HoldsConn /\ pc[cl] \notin InUse
    BY <1>6, <1>9 DEF Request, InUse
  <2>2. open \ {conn[cl]} = open
    BY <1>6, <2>1 DEF RegistryInv, Hands
  <2>3. ASSUME NEW next, Scan(cl, next), pc' = [pc EXCEPT ![cl] = next] PROVE RegistryInv'
    BY <1>4, <1>7, <1>9, <2>1, <2>2, <2>3 DEF Request
  <2>4. ASSUME pc' = [pc EXCEPT ![cl] = "waiting"], UNCHANGED <<idle, registry, attrs, conn>>
        PROVE  RegistryInv'
    BY <1>4, <1>6, <1>8, <1>9, <2>1, <2>4 DEF Request
  <2>. QED
    BY <1>9, <2>3, <2>4 DEF Request
<1>10. CASE Resume(cl)
  <2>1. PICK next \in Holding :
          Scan(cl, next) /\ WakeNext(sem, waiters, [pc EXCEPT ![cl] = next])
    BY <1>10 DEF Resume
  <2>2. next \in Places \ Suspended
    BY <2>1, ScanPlaces, PlaceFacts
  <2>3. pc[cl] \notin HoldsConn /\ pc[cl] \notin InUse /\ pc[cl] # "waiting"
    BY <1>6, <1>10 DEF Resume, InUse
  <2>4. pc'[cl] = next
    BY <1>3, <2>1, <2>2, <2>3, MoveWakeAlone
  <2>5. open \ {conn[cl]} = open
    BY <1>6, <2>3 DEF RegistryInv, Hands
  <2>. QED
    BY <1>7, <1>10, <2>1, <2>3, <2>4, <2>5 DEF Resume
<1>11. CASE GiveUp(cl)
  <2>1. pc[cl] \notin HoldsConn
    BY <1>6, <1>11 DEF GiveUp
  <2>2. pc'[cl] = "out"
    BY <1>4, <1>5, <1>11 DEF GiveUp, ReleasePermit
  <2>. QED
    BY <1>6, <1>8, <1>11, <2>1, <2>2 DEF GiveUp
<1>12. CASE Validated(cl)
  BY <1>1, <1>2, <1>12, ValidatedRegistry
<1>13. CASE PingFailed(cl)
  <2>1. pc[cl] \in InUse /\ pc'[cl] \in {"discarding", "releasing"}
    BY <1>4, <1>13 DEF PingFailed, InUse
  <2>. QED
    BY <1>1, <1>2, <1>13, <2>1, DestroyRegistry DEF PingFailed
<1>14. CASE Discarded(cl)
  <2>1. PICK next : Scan(cl, next) /\ pc' = [pc EXCEPT ![cl] = next]
    BY <1>14 DEF Discarded
  <2>2. pc[cl] \notin InUse
    BY <1>14 DEF Discarded, InUse
  <2>. QED
    BY <1>4, <1>7, <1>14, <2>1, <2>2 DEF Discarded
<1>15. CASE Created(cl)
  BY <1>1, <1>2, <1>15, CreatedRegistry
<1>16. CASE CreateFailed(cl) \/ CancelAcquiring(cl) \/ CancelReleasing(cl)
  <2>1. /\ Lose(cl) /\ pc[cl] # "leased" /\ stray' \in {stray, stray \cup {conn[cl]}}
        /\ pc[cl] \in {"discarding", "releasing"} => conn[cl] \in stray'
    BY <1>16 DEF CreateFailed, CancelAcquiring, CancelReleasing, Creating
  <2>2. pc'[cl] = "out" /\ conn'[cl] = NoConn
    BY <1>3, <2>1 DEF Lose
  <2>3. UNCHANGED <<life, idle, registry, attrs, hk, open>>
    BY <2>1 DEF Lose
  <2>. QED
    BY <1>1, <1>2, <2>1, <2>2, <2>3, LetGoRegistry
<1>17. CASE Release(cl)
  <2>1. pc[cl] = "leased" /\ pc[cl] \in InUse /\ UNCHANGED <<life, open, stray, hk>>
    BY <1>17 DEF Release, InUse
  <2>2. CASE Discardable(conn[cl])
    <3>1. pc'[cl] \in {"discarding", "releasing"}
      BY <1>4, <1>17, <2>2 DEF Release
    <3>. QED
      BY <1>1, <1>2, <1>17, <2>1, <2>2, <3>1, DestroyRegistry DEF Release
  <2>3. CASE ~Discardable(conn[cl])
    <3>1. pc'[cl] = "out"
      BY <1>5, <1>17, <2>1, <2>3 DEF Release, ReleasePermit
    <3>. QED
      BY <1>1, <1>2, <1>17, <2>1, <2>3, <3>1, PooledRegistry DEF Release
  <2>. QED
    BY <2>2, <2>3
<1>18. CASE Released(cl)
  <2>1. pc[cl] = "releasing" /\ pc'[cl] = "out" /\ conn'[cl] = NoConn
    BY <1>3, <1>5, <1>18 DEF Released, ReleasePermit
  <2>2. /\ open' = open \ {conn[cl]} /\ stray' = stray
        /\ UNCHANGED <<life, idle, registry, attrs, hk>>
    BY <1>18 DEF Released
  <2>. QED
    BY <1>1, <1>2, <2>1, <2>2, LetGoRegistry DEF InUse
<1>. QED
  BY <1>9, <1>10, <1>11, <1>12, <1>13, <1>14, <1>15, <1>16, <1>17, <1>18 DEF ClientStep

-----------------------------------------------------------------------------
(* The other tasks *)

\* Housekeeping may wake a client, and so leaves what clients hold alone.
LEMMA HousekeepingClients ==
  ASSUME TypeInv, QueueInv, Housekeeping
  PROVE  /\ \A P \in SUBSET HoldsConn : In(P)' = In(P)
         /\ Hands => Hands'
<1>1. \A cl \in Clients : conn'[cl] = conn[cl] /\ Stays(pc, pc', cl)
  <2>1. CASE UNCHANGED <<pc, conn>>
    BY <2>1 DEF Stays
  <2>2. CASE HkDestroyed
    <3>1. /\ pc \in [Clients -> Places] /\ waiters \in Seq(Clients) /\ IsInjective(waiters)
          /\ ToSet(waiters) \subseteq Placed(pc, {"waiting"})
      BY DEF TypeInv, TypeOK, QueueInv, WaiterAccounting, At, Placed
    <3>2. WakeNext(sem + 1, waiters, pc) /\ conn' = conn
      BY <2>2 DEF HkDestroyed, ReleasePermit
    <3>. QED
      BY <3>1, <3>2, WakeStays
  <2>. QED
    BY <2>1, <2>2 DEF Housekeeping, HkWake, HkScaledUp, HkPrewarmed, HkReplenished
<1>2. "waiting" \notin HoldsConn /\ "granted" \notin HoldsConn
  BY DEF HoldsConn
<1>3. ASSUME NEW P \in SUBSET HoldsConn PROVE In(P)' = In(P)
  <2>1. At(P)' = At(P)
    BY <1>1, <1>2 DEF At, Stays
  <2>2. In(P)' = {conn'[cl] : cl \in At(P)'}
    BY DEF In
  <2>3. \A cl \in At(P) : conn'[cl] = conn[cl]
    BY <1>1 DEF At
  <2>. QED
    BY <2>1, <2>2, <2>3 DEF In
<1>4. Hands => Hands'
  BY <1>1, <1>2 DEF Hands, Stays
<1>. QED
  BY <1>3, <1>4

LEMMA HousekeepingRegistry ==
  ASSUME TypeInv, OneOwner, QueueInv, RegistryInv, OneOwner', Housekeeping
  PROVE  RegistryInv'
<1>1. PICK made \in SUBSET Fresh : PassStep(made)
  BY HousekeepingStep DEF RegistryInv
<1>. DEFINE I == ToSet(idle)
            K == ToSet(hk.kept)
            h == hk'.conn
<1>2. /\ made \subseteq Conns
      /\ made \cap (open \cup closing \cup all \cup I \cup K) = {} /\ hk.conn \notin made
      /\ \A cl \in Clients : conn[cl] \notin made
  BY DEF Fresh
<1>3. /\ open' = (open \ {hk.conn}) \cup made
      /\ all' = (all \cup made) \ {h} /\ checkedOut' = checkedOut \ {h}
      /\ overflow' = overflow \ {h}
      /\ \A d \in Conns : usage'[d] = IF d = h THEN 0 ELSE usage[d]
      /\ h \in I \cup made \cup {NoConn}
      /\ ToSet(idle') \cup ToSet(hk'.kept) \cup {h} \cup {NoConn} = I \cup made \cup K \cup {NoConn}
      /\ PassState' /\ UNCHANGED <<life, stray, conn>>
  BY <1>1 DEF PassStep, Continues, Destroys
<1>4. UNCHANGED <<closing, ctl, closed, init, Cleared>>
  BY <1>3 DEF life, Cleared
<1>5. Lent' = Lent /\ Handled' = Handled /\ Dropped' = Dropped /\ Hands'
  <2>1. /\ {"leased"} \in SUBSET HoldsConn /\ InUse \in SUBSET HoldsConn
        /\ {"discarding", "releasing"} \in SUBSET HoldsConn
    BY DEF HoldsConn, InUse
  <2>. QED
    BY <2>1, HousekeepingClients DEF Lent, Handled, Dropped, RegistryInv
<1>6. hk.pc # "off"
  BY DEF Housekeeping, HkWake, HkScaledUp, HkPrewarmed, HkReplenished, HkDestroyed
<1>7. ~closed /\ init = "ready" /\ ~Cleared
  BY <1>6 DEF RegistryInv, Phases, HkOff, Cleared
<1>8. Phases'
  BY <1>4, <1>7 DEF RegistryInv, Phases
<1>9. I \subseteq Conns /\ K \subseteq Conns /\ NoConn \notin Conns
  BY IdleApart
<1>10. \A P \in SUBSET HoldsConn : In(P) \cap (made \cup {h}) = {}
  <2>1. ASSUME NEW P \in SUBSET HoldsConn, NEW cl \in At(P)
        PROVE  conn[cl] \notin made \cup {h}
    <3>1. conn[cl] \in Conns /\ conn[cl] # NoConn
      BY <1>9, <2>1 DEF TypeInv, HasConn, At
    <3>2. conn[cl] \notin I
      BY <3>1, <2>1 DEF OneOwner, Apart, At
    <3>. QED
      BY <1>2, <1>3, <2>1, <3>1, <3>2 DEF At
  <2>. QED
    BY <2>1 DEF In
<1>11. Lent \cap (made \cup {h}) = {} /\ Handled \cap (made \cup {h}) = {}
       /\ Dropped \cap (made \cup {h}) = {}
  <2>1. /\ {"leased"} \in SUBSET HoldsConn /\ InUse \in SUBSET HoldsConn
        /\ {"discarding", "releasing"} \in SUBSET HoldsConn
    BY DEF HoldsConn, InUse
  <2>. QED
    BY <1>10, <2>1 DEF Lent, Handled, Dropped
<1>12. h \notin ToSet(idle') \cup ToSet(hk'.kept)
  <2>1. h \notin ToSet(idle') /\ h \notin ToSet(hk'.kept)
    BY DEF OneOwner, Apart
  <2>. QED
    BY <2>1
<1>13. NoConn \notin ToSet(idle') \cup ToSet(hk'.kept)
  <2>1. TypeInv'
    BY HousekeepingTypes
  <2>2. idle' \in Seq(Conns) /\ hk'.kept \in Seq(Conns)
    BY <2>1 DEF TypeInv, TypeOK, HkStates
  <2>. QED
    BY <1>9, <2>2, ElemsType
<1>14. ToSet(idle') \cup ToSet(hk'.kept) = (I \cup made \cup K) \ {h}
  BY <1>2, <1>3, <1>9, <1>12, <1>13
<1>. HIDE DEF I, K, h
<1>15. Sockets'
  <2>1. all' \cap (Dropped' \cup {h} \cup closing') = {}
    BY <1>2, <1>3, <1>4, <1>5, <1>11 DEF RegistryInv, Sockets
  <2>2. all' \subseteq open'
    BY <1>2, <1>3 DEF RegistryInv, Sockets
  <2>3. open' \subseteq all' \cup closing' \cup stray' \cup {h} \cup Dropped'
    BY <1>3, <1>4, <1>5 DEF RegistryInv, Sockets
  <2>. QED
    BY <2>1, <2>2, <2>3 DEF Sockets, h
<1>16. Registered'
  <2>1. /\ checkedOut = Lent /\ Handled \subseteq all
        /\ Poolable(I \cup K, all) /\ Clean(all)
    BY <1>7 DEF RegistryInv, Registered, I, K
  <2>2. checkedOut' = Lent' /\ Handled' \subseteq all'
    BY <1>3, <1>5, <1>11, <2>1
  <2>3. \A c \in made : c \notin overflow /\ usage[c] = 0
    BY <1>2, <2>1 DEF Clean
  <2>4. MaxUsage \in Nat \ {0}
    BY ConfigAssumption
  <2>5. Poolable(ToSet(idle) \cup ToSet(hk.kept), all)'
    BY <1>2, <1>3, <1>9, <1>14, <2>1, <2>3, <2>4 DEF Poolable, I, K, h
  <2>6. Clean(all)'
    BY <1>3, <2>1 DEF Clean
  <2>. QED
    BY <2>2, <2>5, <2>6 DEF Registered
<1>17. Emptied'
  BY <1>4, <1>7 DEF Emptied
<1>. QED
  BY <1>3, <1>5, <1>8, <1>15, <1>16, <1>17 DEF RegistryInv

LEMMA LifecycleRegistry ==
  ASSUME TypeInv, OneOwner, RegistryInv, Lifecycle
  PROVE  RegistryInv'
<1>. USE DEF RegistryInv
<1>1. UNCHANGED <<pc, conn, attrs>>
  BY DEF Lifecycle, InitializeBegin, InitializeEnd, PausePool, ResumePool, SetPaused,
         DrainBegin, DrainElapsed, CloseBegin, StopServing, CloseRegistry, CloseSocket,
         CloseEnd
<1>2. Lent' = Lent /\ Handled' = Handled /\ Dropped' = Dropped /\ Hands'
  BY <1>1 DEF Lent, Handled, Dropped, In, At, Hands
<1>3. UNCHANGED <<overflow, usage>>
  BY <1>1 DEF attrs
<1>4. /\ HkOff.kept = <<>> /\ HkOff.conn = NoConn /\ HkOff.pc = "off"
      /\ HkSleep.kept = <<>> /\ HkSleep.conn = NoConn /\ HkSleep.pc = "sleep"
  BY DEF HkOff, HkSleep
<1>5. open \subseteq Conns /\ all \subseteq Conns /\ closing \subseteq Conns /\ NoConn \notin Conns
  BY ConnsAssumption DEF TypeInv, TypeOK
<1>6. ASSUME UNCHANGED <<closing, idle, registry, open, stray, hk>>, Cleared' = Cleared
      PROVE  Sockets' /\ Registered' /\ Emptied' /\ PassState'
  BY <1>2, <1>3, <1>6
  DEF Sockets, Registered, Emptied, PassState, Poolable, Clean, registry
<1>7. CASE InitializeBegin
  <2>1. Phases'
    BY <1>7 DEF InitializeBegin, Phases, Cleared
  <2>. QED
    BY <1>2, <1>6, <1>7, <2>1 DEF InitializeBegin, Cleared
<1>8. CASE PausePool \/ ResumePool \/ DrainBegin
  <2>1. Phases' /\ Cleared' = Cleared
    BY <1>8 DEF PausePool, ResumePool, SetPaused, DrainBegin, Phases, Cleared
  <2>. QED
    BY <1>2, <1>6, <1>8, <2>1 DEF PausePool, ResumePool, SetPaused, DrainBegin
<1>9. CASE InitializeEnd
  <2>1. PICK made \in SUBSET Fresh :
          all' = all \cup made /\ open' = open \cup made /\ idle' = SetToSeq(made) \o idle
    BY <1>9 DEF InitializeEnd
  <2>2. /\ UNCHANGED <<closed, ctl, closing, checkedOut, stray>>
        /\ init = "running" /\ init' = "ready" /\ hk' = IF closed THEN HkOff ELSE HkSleep
    BY <1>9 DEF InitializeEnd
  <2>3. ~Cleared /\ Cleared' = Cleared /\ hk = HkOff
    BY <2>2 DEF Phases, Cleared
  <2>4. Phases' /\ PassState' /\ hk'.kept = <<>> /\ hk'.conn = NoConn
    BY <1>4, <2>2, <2>3 DEF Phases, PassState, Destroying
  <2>5. /\ made \subseteq Conns
        /\ made \cap (all \cup closing) = {}
        /\ \A cl \in Clients : conn[cl] \notin made
    BY DEF Fresh
  <2>6. IsFiniteSet(made)
    BY <2>5, ConnsAssumption, FS_Subset
  <2>7. SetToSeq(made) \in Seq(Conns) /\ ToSet(SetToSeq(made)) = made /\ idle \in Seq(Conns)
    BY <2>5, <2>6, SetToSeqFacts, SeqMonotonic DEF TypeInv, TypeOK
  <2>8. ToSet(idle') = made \cup ToSet(idle) /\ ToSet(hk'.kept) = {} /\ ToSet(hk.kept) = {}
    BY <1>4, <2>1, <2>3, <2>4, <2>7, ElemsConcat, ElemsEmpty
  <2>9. Dropped \cap made = {}
    BY <2>5 DEF Dropped, In, At
  <2>10. Sockets'
    BY <1>2, <1>4, <1>5, <2>1, <2>2, <2>3, <2>4, <2>5, <2>9 DEF Sockets
  <2>11. Registered'
    <3>1. /\ checkedOut = Lent /\ Handled \subseteq all
          /\ Poolable(ToSet(idle) \cup ToSet(hk.kept), all) /\ Clean(all)
      BY <2>3 DEF Registered
    <3>2. \A c \in made : c \notin overflow /\ usage[c] = 0
      BY <2>5, <3>1 DEF Clean
    <3>3. MaxUsage \in Nat \ {0}
      BY ConfigAssumption
    <3>4. (Poolable(ToSet(idle) \cup ToSet(hk.kept), all))'
      BY <1>3, <2>1, <2>8, <3>1, <3>2, <3>3 DEF Poolable
    <3>5. Clean(all)'
      BY <1>3, <2>1, <3>1 DEF Clean
    <3>. QED
      BY <1>2, <2>1, <2>2, <3>1, <3>4, <3>5 DEF Registered
  <2>12. Emptied'
    BY <2>3 DEF Emptied
  <2>. QED
    BY <1>2, <2>4, <2>10, <2>11, <2>12
<1>10. CASE (CloseBegin \/ DrainElapsed) /\ StopServing
  <2>1. /\ UNCHANGED <<init, closing, idle, registry, open>> /\ hk' = HkOff
        /\ closed' = TRUE /\ ctl' = "stopping"
        /\ stray' = IF hk.conn = NoConn THEN stray ELSE stray \cup {hk.conn}
    BY <1>10 DEF StopServing
  <2>2. ctl \in {"none", "draining"}
    BY <1>10 DEF CloseBegin, DrainElapsed
  <2>3. ~Cleared /\ ~Cleared' /\ closing = {}
    BY <2>1, <2>2 DEF Cleared, Phases
  <2>4. Phases' /\ PassState' /\ Emptied'
    BY <1>4, <2>1, <2>3 DEF Phases, PassState, Emptied, Destroying
  <2>5. Sockets'
    BY <1>2, <1>4, <1>5, <2>1, <2>3 DEF Sockets, registry
  <2>6. ToSet(hk'.kept) = {}
    BY <1>4, <2>1, ElemsEmpty
  <2>7. Registered'
    BY <1>2, <1>3, <2>1, <2>3, <2>6 DEF Registered, Poolable, Clean, registry
  <2>. QED
    BY <1>2, <2>4, <2>5, <2>7
<1>11. CASE CloseRegistry
  <2>1. /\ UNCHANGED <<init, closed, idle, open, stray, hk>>
        /\ ctl = "stopping" /\ ctl' = "closing" /\ closing' = all /\ init # "running"
        /\ all' = {} /\ checkedOut' = {}
    BY <1>11 DEF CloseRegistry
  <2>2. Cleared' /\ closing = {}
    BY <2>1 DEF Cleared, Phases
  <2>3. Phases' /\ PassState' /\ Emptied'
    BY <2>1, <2>2 DEF Phases, PassState, Emptied
  <2>4. Sockets'
    BY <1>2, <2>1, <2>2 DEF Sockets
  <2>5. Registered'
    BY <2>2 DEF Registered
  <2>. QED
    BY <1>2, <2>3, <2>4, <2>5
<1>12. CASE CloseSocket
  <2>1. PICK c \in closing : closing' = closing \ {c} /\ open' = open \ {c}
    BY <1>12 DEF CloseSocket
  <2>2. UNCHANGED <<init, closed, ctl, idle, registry, stray, hk>>
    BY <1>12 DEF CloseSocket
  <2>3. Cleared' = Cleared
    BY <2>2 DEF Cleared
  <2>4. Phases' /\ PassState' /\ Emptied'
    BY <1>2, <2>1, <2>2, <2>3 DEF Phases, PassState, Emptied, registry
  <2>5. Sockets'
    BY <1>2, <2>1, <2>2 DEF Sockets, registry
  <2>6. Registered'
    BY <1>2, <1>3, <2>2, <2>3 DEF Registered, Poolable, Clean, registry
  <2>. QED
    BY <1>2, <2>4, <2>5, <2>6
<1>13. CASE CloseEnd
  <2>1. /\ UNCHANGED <<closed, closing, idle, registry, open, stray, hk>>
        /\ ctl = "closing" /\ closing = {} /\ ctl' = "done" /\ init' = "new"
    BY <1>13 DEF CloseEnd
  <2>2. Cleared' = Cleared
    BY <2>1 DEF Cleared
  <2>3. Phases'
    BY <2>1, <2>2 DEF Phases
  <2>. QED
    BY <1>2, <1>6, <2>1, <2>2, <2>3
<1>. QED
  BY <1>7, <1>8, <1>9, <1>10, <1>11, <1>12, <1>13 DEF Lifecycle, CloseBegin, DrainElapsed

LEMMA InitRegistry == Init => RegistryInv
<1>. SUFFICES ASSUME Init PROVE RegistryInv
  OBVIOUS
<1>1. HkOff.kept = <<>> /\ HkOff.conn = NoConn
  BY DEF HkOff
<1>2. /\ Phases /\ PassState /\ Hands
  BY <1>1 DEF Init, Phases, PassState, Hands, Cleared
<1>3. Lent = {} /\ Handled = {} /\ Dropped = {}
  BY DEF Init, Lent, Handled, Dropped, In, At, InUse
<1>4. Sockets /\ Emptied
  BY <1>3 DEF Init, Sockets, Emptied
<1>5. Registered
  BY <1>1, <1>3, ElemsEmpty DEF Init, Registered, Poolable, Clean
<1>. QED
  BY <1>2, <1>4, <1>5 DEF RegistryInv

LEMMA RegistryStep ==
  ASSUME TypeInv, OneOwner, QueueInv, RegistryInv, OneOwner', [Next]_vars
  PROVE  RegistryInv'
<1>1. CASE UNCHANGED vars
  <2>1. UNCHANGED <<life, idle, registry, open, stray, attrs, pc, conn, hk>>
    BY <1>1 DEF vars
  <2>2. Lent' = Lent /\ Handled' = Handled /\ Dropped' = Dropped /\ Hands'
    BY <2>1 DEF Lent, Handled, Dropped, In, At, Hands, RegistryInv
  <2>. QED
    BY <2>1, <2>2
    DEF RegistryInv, Phases, PassState, Sockets, Registered, Emptied, Poolable, Clean,
        Cleared, life, registry, attrs
<1>2. ASSUME NEW c \in Conns, Expire(c) PROVE RegistryInv'
  <2>1. UNCHANGED <<life, idle, registry, open, stray, overflow, usage, pc, conn, hk>>
    BY <1>2 DEF Expire
  <2>2. Lent' = Lent /\ Handled' = Handled /\ Dropped' = Dropped /\ Hands'
    BY <2>1 DEF Lent, Handled, Dropped, In, At, Hands, RegistryInv
  <2>. QED
    BY <2>1, <2>2
    DEF RegistryInv, Phases, PassState, Sockets, Registered, Emptied, Poolable, Clean,
        Cleared, life, registry
<1>. QED
  BY <1>1, <1>2, ClientRegistry, HousekeepingRegistry, LifecycleRegistry DEF Next, Finished

LEMMA RegistrySound == Spec => []RegistryInv
<1>1. TypeInv /\ OneOwner /\ QueueInv /\ RegistryInv /\ OneOwner' /\ [Next]_vars => RegistryInv'
  BY RegistryStep
<1>. QED
  BY <1>1, InitRegistry, Typed, OwnersDistinct, QueueSound, PTL DEF Spec

-----------------------------------------------------------------------------
(* Theorems *)

\* Until close() clears the registry, _checked_out is exactly what clients hold, and every
\* connection in the idle queue is registered, open, steady, fit for another use and held
\* by nobody: what _try_get_idle takes on trust, whatever expires, fails, is cancelled or
\* is destroyed meanwhile.
THEOREM RegistrySynchronised == Spec => []RegistryMatchesLeases
<1>1. TypeInv /\ OneOwner /\ RegistryInv => RegistryMatchesLeases
  <2>. SUFFICES ASSUME TypeInv, OneOwner, RegistryInv, ctl \notin {"closing", "done"}
                PROVE  /\ checkedOut = {conn[cl] : cl \in At({"leased"})}
                       /\ ToSet(idle) \subseteq (all \cap open) \ (checkedOut \cup overflow)
                       /\ \A c \in ToSet(idle) : usage[c] < MaxUsage
    BY DEF RegistryMatchesLeases
  <2>1. /\ checkedOut = Lent /\ Poolable(ToSet(idle) \cup ToSet(hk.kept), all)
        /\ all \subseteq open
    BY DEF RegistryInv, Registered, Sockets, Cleared
  <2>2. Lent \cap ToSet(idle) = {}
    <3>1. \A cl \in At({"leased"}) : conn[cl] \notin ToSet(idle)
      BY ConnsAssumption DEF TypeInv, HasConn, HoldsConn, At, OneOwner, Apart
    <3>. QED
      BY <3>1 DEF Lent, In
  <2>. QED
    BY <2>1, <2>2 DEF Poolable, Lent, In
<1>. QED
  BY <1>1, RegistrySound, Typed, OwnersDistinct, PTL

\* A connection that a client pings or uses stays registered, and its socket open, until
\* close() clears the registry: only there can a client lose its connection under its
\* hands (drain() and close() go on when their deadlines pass).
THEOREM HandledStaysOpen == Spec => [](~Cleared => Handled \subseteq all \cap open)
<1>1. RegistryInv => (~Cleared => Handled \subseteq all \cap open)
  BY DEF RegistryInv, Registered, Sockets
<1>. QED
  BY <1>1, RegistrySound, PTL

\* When close() is done and the clients are gone, every socket the pool ever opened is
\* closed, but for the ones whose closing handshake a cancellation cut off: also those
\* made after close() had gone through the registry, those that clients gave back late,
\* and those that housekeeping was closing.
THEOREM NothingLeftOpen == Spec => []NoSocketLeft
<1>1. TypeInv /\ RegistryInv => NoSocketLeft
  <2>. SUFFICES ASSUME TypeInv, RegistryInv, ctl = "done", At(Holding) = {}
                PROVE  open \subseteq stray
    BY DEF NoSocketLeft
  <2>1. Lent = {} /\ Dropped = {}
    BY DEF Lent, Dropped, In, At, Holding
  <2>2. closing = {} /\ hk = HkOff /\ all = {}
    BY <2>1 DEF RegistryInv, Phases, Emptied, Cleared
  <2>3. hk.conn = NoConn /\ NoConn \notin open
    BY <2>2, ConnsAssumption DEF HkOff, TypeInv, TypeOK
  <2>. QED
    BY <2>1, <2>2, <2>3 DEF RegistryInv, Sockets
<1>. QED
  BY <1>1, RegistrySound, Typed, PTL

\* Once close() has begun a release destroys its connection and housekeeping is over: a
\* step of the pool can only take connections out of the idle queue.
THEOREM NothingPooled == Spec => NothingPooledAfterClose
<1>1. ASSUME TypeInv, OneOwner, RegistryInv, [Next]_vars, closed, init # "running"
      PROVE  ToSet(idle') \subseteq ToSet(idle)
  <2>1. hk.pc = "off"
    BY <1>1 DEF RegistryInv, Phases, HkOff
  <2>2. CASE UNCHANGED idle
    BY <2>2
  <2>3. ASSUME NEW cl \in Clients, NEW next, Scan(cl, next)
        PROVE  ToSet(idle') \subseteq ToSet(idle)
    <3>1. CASE idle = <<>>
      BY <2>3, <3>1 DEF Scan
    <3>2. CASE idle # <<>>
      <4>1. idle' = Tail(idle) /\ idle \in Seq(Conns) /\ IsInjective(idle)
        BY <1>1, <2>3, <3>2 DEF Scan, TypeInv, TypeOK, OneOwner, Apart
      <4>. QED
        BY <3>2, <4>1, ElemsTail
    <3>. QED
      BY <3>1, <3>2
  <2>4. ASSUME NEW cl \in Clients, ClientStep(cl) PROVE ToSet(idle') \subseteq ToSet(idle)
    <3>1. CASE Request(cl) \/ Resume(cl) \/ Discarded(cl)
      BY <2>2, <2>3, <3>1 DEF Request, Resume, Discarded
    <3>2. CASE Release(cl)
      BY <1>1, <2>2, <3>2 DEF Release, Discardable
    <3>. QED
      BY <2>2, <2>4, <3>1, <3>2
      DEF ClientStep, GiveUp, Validated, PingFailed, Created, CreateFailed, CancelAcquiring,
          Released, CancelReleasing, Lose
  <2>5. CASE Lifecycle
    BY <1>1, <2>2, <2>5
    DEF Lifecycle, InitializeBegin, InitializeEnd, PausePool, ResumePool, SetPaused,
        DrainBegin, DrainElapsed, CloseBegin, StopServing, CloseRegistry, CloseSocket,
        CloseEnd
  <2>6. ~Housekeeping
    BY <2>1
    DEF Housekeeping, HkWake, HkScaledUp, HkPrewarmed, HkReplenished, HkDestroyed
  <2>. QED
    BY <1>1, <2>2, <2>4, <2>5, <2>6 DEF Next, Expire, Finished, vars
<1>2. TypeInv /\ OneOwner /\ RegistryInv /\ [Next]_vars
        => [closed /\ init # "running" => ToSet(idle') \subseteq ToSet(idle)]_vars
  BY <1>1
<1>. QED
  BY <1>2, RegistrySound, Typed, OwnersDistinct, PTL DEF Spec, NothingPooledAfterClose

-----------------------------------------------------------------------------
(* Orphans: registered connections that no one will ever use or close *)

Orphans == all \ (ToSet(idle) \cup ToSet(hk.kept) \cup {conn[cl] : cl \in Clients})

\* A client that does not lose its permit leaves nothing behind.
LEMMA ClientOrphans ==
  ASSUME TypeInv, OneOwner, QueueInv, RegistryInv, NEW cl \in Clients, ClientStep(cl)
  PROVE  /\ Orphans' \subseteq Orphans \cup {conn[cl]}
         /\ lost' = lost + 1 \/ (lost' = lost /\ Orphans' \subseteq Orphans)
<1>. DEFINE H == {conn[other] : other \in Clients \ {cl}}
            I == ToSet(idle)
            K == ToSet(hk.kept)
<1>1. conn \in [Clients -> Conns \cup {NoConn}] /\ idle \in Seq(Conns) /\ IsInjective(idle)
  BY DEF TypeInv, TypeOK, OneOwner, Apart
<1>2. \A other \in Clients \ {cl} : conn'[other] = conn[other]
  BY ClientAlone DEF Alone
<1>3. /\ {conn[other] : other \in Clients} = H \cup {conn[cl]}
      /\ {conn'[other] : other \in Clients} = H \cup {conn'[cl]}
  BY <1>2
<1>4. hk' = hk
  BY DEF ClientStep, Request, Resume, GiveUp, Validated, PingFailed, Discarded, Created,
         CreateFailed, CancelAcquiring, Release, Released, CancelReleasing, Lose
<1>5. /\ Orphans = all \ (I \cup K \cup H \cup {conn[cl]})
      /\ Orphans' = all' \ (ToSet(idle') \cup K \cup H \cup {conn'[cl]})
  BY <1>3, <1>4 DEF Orphans
<1>. HIDE DEF H, I, K
<1>6. ASSUME NEW next, Scan(cl, next), pc[cl] \notin InUse
      PROVE  Orphans' \subseteq Orphans
  <2>1. conn[cl] \notin all
    BY <1>6, Arriving
  <2>2. CASE idle = <<>>
    BY <1>5, <1>6, <2>1, <2>2 DEF Scan, registry, I
  <2>3. CASE idle # <<>>
    <3>1. idle' = Tail(idle) /\ conn'[cl] = Head(idle) /\ all' \subseteq all
      BY <1>1, <1>6, <2>3 DEF Scan, Unregister, registry
    <3>2. ToSet(idle') = I \ {conn'[cl]}
      BY <1>1, <2>3, <3>1, ElemsExactTail DEF I
    <3>. QED
      BY <1>5, <2>1, <3>1, <3>2
  <2>. QED
    BY <2>2, <2>3
<1>7. ASSUME conn' = conn, idle' = idle, all' \subseteq all
      PROVE  Orphans' \subseteq Orphans
  BY <1>5, <1>7 DEF I
<1>8. CASE Request(cl) \/ Resume(cl) \/ Discarded(cl)
  <2>1. pc[cl] \notin InUse /\ lost' = lost
    BY <1>8 DEF Request, Resume, Discarded, InUse, history
  <2>2. (\E next : Scan(cl, next)) \/ UNCHANGED <<conn, idle, all>>
    BY <1>8 DEF Request, Resume, Discarded, registry
  <2>. QED
    BY <1>6, <1>7, <2>1, <2>2
<1>9. CASE GiveUp(cl) \/ Validated(cl) \/ PingFailed(cl)
  <2>1. lost' = lost /\ conn' = conn /\ idle' = idle /\ all' \subseteq all
    BY <1>9 DEF GiveUp, Validated, PingFailed, Unregister, registry, history
  <2>. QED
    BY <1>7, <2>1
<1>10. CASE Created(cl)
  <2>1. PICK c : conn' = [conn EXCEPT ![cl] = c] /\ all' = all \cup {c}
    BY <1>10 DEF Created
  <2>2. conn'[cl] = c /\ idle' = idle /\ lost' = lost
    BY <1>1, <1>10, <2>1 DEF Created, history
  <2>3. conn[cl] \notin all
    BY <1>10, Arriving DEF Created, Creating, InUse
  <2>. QED
    BY <1>5, <2>1, <2>2, <2>3 DEF I
<1>11. CASE CreateFailed(cl) \/ CancelAcquiring(cl) \/ CancelReleasing(cl)
  <2>1. lost' = lost + 1 /\ all' = all /\ idle' = idle
    BY <1>11 DEF CreateFailed, CancelAcquiring, CancelReleasing, Lose, registry
  <2>. QED
    BY <1>5, <2>1 DEF I
<1>12. CASE Release(cl)
  <2>1. lost' = lost
    BY <1>12 DEF Release, history
  <2>2. CASE Discardable(conn[cl])
    BY <1>7, <1>12, <2>1, <2>2 DEF Release, Unregister
  <2>3. CASE ~Discardable(conn[cl])
    <3>1. conn[cl] \in Conns /\ idle' = <<conn[cl]>> \o idle /\ all' = all
      BY <1>12, <2>3 DEF Release, TypeInv, HasConn, HoldsConn
    <3>2. ToSet(idle') = {conn[cl]} \cup I
      BY <1>1, <3>1, ElemsCons DEF I
    <3>. QED
      BY <1>5, <2>1, <3>1, <3>2
  <2>. QED
    BY <2>2, <2>3
<1>13. CASE Released(cl)
  <2>1. lost' = lost /\ all' = all /\ idle' = idle
    BY <1>13 DEF Released, registry, history
  <2>2. conn[cl] \notin all
    BY <1>13, Arriving DEF Released, InUse
  <2>. QED
    BY <1>5, <2>1, <2>2 DEF I
<1>. QED
  BY <1>8, <1>9, <1>10, <1>11, <1>12, <1>13 DEF ClientStep

LEMMA HousekeepingOrphans ==
  ASSUME TypeInv, OneOwner, RegistryInv, Housekeeping
  PROVE  Orphans' \subseteq Orphans /\ lost' = lost
<1>1. PICK made \in SUBSET Fresh : PassStep(made)
  BY HousekeepingStep DEF RegistryInv
<1>2. /\ all' = (all \cup made) \ {hk'.conn}
      /\ ToSet(idle') \cup ToSet(hk'.kept) \cup {hk'.conn} \cup {NoConn}
           = ToSet(idle) \cup made \cup ToSet(hk.kept) \cup {NoConn}
      /\ conn' = conn /\ lost' = lost
  BY <1>1 DEF PassStep, Continues, Destroys
<1>3. NoConn \notin all
  BY ConnsAssumption DEF TypeInv, TypeOK
<1>4. {conn'[cl] : cl \in Clients} = {conn[cl] : cl \in Clients} /\ NoConn \notin made
  BY <1>2, ConnsAssumption DEF Fresh
<1>. QED
  BY <1>2, <1>3, <1>4 DEF Orphans

LEMMA LifecycleOrphans ==
  ASSUME TypeInv, RegistryInv, Lifecycle, ~closed'
  PROVE  Orphans' \subseteq Orphans /\ lost' = lost
<1>1. UNCHANGED <<conn, lost>>
  BY DEF Lifecycle, InitializeBegin, InitializeEnd, PausePool, ResumePool, SetPaused,
         DrainBegin, DrainElapsed, CloseBegin, StopServing, CloseRegistry, CloseSocket,
         CloseEnd, history
<1>2. CASE InitializeEnd
  <2>1. PICK made \in SUBSET Fresh : all' = all \cup made /\ idle' = SetToSeq(made) \o idle
    BY <1>2 DEF InitializeEnd
  <2>2. made \subseteq Conns
    BY DEF Fresh
  <2>3. IsFiniteSet(made)
    BY <2>2, ConnsAssumption, FS_Subset
  <2>4. SetToSeq(made) \in Seq(Conns) /\ ToSet(SetToSeq(made)) = made /\ idle \in Seq(Conns)
    BY <2>2, <2>3, SetToSeqFacts, SeqMonotonic DEF TypeInv, TypeOK
  <2>5. ToSet(idle') = made \cup ToSet(idle)
    BY <2>1, <2>4, ElemsConcat
  <2>6. hk = HkOff
    BY <1>2 DEF InitializeEnd, RegistryInv, Phases
  <2>7. ToSet(hk.kept) = {}
    BY <2>6, ElemsEmpty DEF HkOff
  <2>. QED
    BY <1>1, <2>1, <2>5, <2>7 DEF Orphans
<1>3. CASE CloseRegistry
  BY <1>1, <1>3 DEF CloseRegistry, Orphans
<1>4. CASE UNCHANGED <<all, idle, hk>>
  BY <1>1, <1>4 DEF Orphans
<1>. QED
  BY <1>2, <1>3, <1>4
  DEF Lifecycle, InitializeBegin, PausePool, ResumePool, SetPaused, DrainBegin,
      DrainElapsed, CloseBegin, StopServing, CloseSocket, CloseEnd, registry

\* While the pool is open, each registered connection is where someone will use it again
\* or close it, but for one at most per permit that a failed or cancelled task took with
\* it: no slot of max_connections is lost otherwise.
THEOREM OrphansBounded == Spec => []NoOrphans
<1>1. Init => NoOrphans
  <2>1. Init => Orphans = {} /\ lost = 0
    BY DEF Init, Orphans
  <2>. QED
    BY <2>1, FS_EmptySet DEF NoOrphans, Orphans
<1>2. ASSUME TypeInv, OneOwner, QueueInv, RegistryInv, NoOrphans, [Next]_vars
      PROVE  NoOrphans'
  <2>. SUFFICES ASSUME ~closed' PROVE Cardinality(Orphans') <= lost'
    BY DEF NoOrphans, Orphans
  <2>1. IsFiniteSet(Orphans) /\ Cardinality(Orphans) \in Nat /\ lost \in Nat
    BY <1>2, ConnsAssumption, FS_Subset, FS_CardinalityType DEF Orphans, TypeInv, TypeOK
  <2>2. ~closed
    BY <1>2
    DEF Next, ClientStep, Request, Resume, GiveUp, Validated, PingFailed, Discarded, Created,
        CreateFailed, CancelAcquiring, Release, Released, CancelReleasing, Lose, Expire,
        Housekeeping, HkWake, HkScaledUp, HkPrewarmed, HkReplenished, HkDestroyed, Lifecycle,
        InitializeBegin, InitializeEnd, PausePool, ResumePool, SetPaused, DrainBegin,
        DrainElapsed, CloseBegin, StopServing, CloseRegistry, CloseSocket, CloseEnd, Finished,
        vars, life
  <2>3. Cardinality(Orphans) <= lost
    BY <1>2, <2>2 DEF NoOrphans, Orphans
  <2>4. ASSUME Orphans' \subseteq Orphans, lost' = lost
        PROVE  Cardinality(Orphans') <= lost'
    <3>1. Cardinality(Orphans') <= Cardinality(Orphans) /\ Cardinality(Orphans') \in Nat
      BY <2>1, <2>4, FS_Subset, FS_CardinalityType
    <3>. QED
      BY <2>1, <2>3, <2>4, <3>1
  <2>5. ASSUME NEW c, Orphans' \subseteq Orphans \cup {c}, lost' = lost + 1
        PROVE  Cardinality(Orphans') <= lost'
    <3>1. /\ IsFiniteSet(Orphans \cup {c}) /\ Cardinality(Orphans \cup {c}) \in Nat
          /\ Cardinality(Orphans \cup {c}) <= Cardinality(Orphans) + 1
      BY <2>1, FS_AddElement, FS_CardinalityType
    <3>2. /\ Cardinality(Orphans') <= Cardinality(Orphans \cup {c})
          /\ Cardinality(Orphans') \in Nat
      BY <2>5, <3>1, FS_Subset, FS_CardinalityType
    <3>. QED
      BY <2>1, <2>3, <2>5, <3>1, <3>2
  <2>6. CASE UNCHANGED <<all, idle, hk, conn, lost>>
    BY <2>4, <2>6 DEF Orphans
  <2>7. ASSUME NEW cl \in Clients, ClientStep(cl) PROVE Cardinality(Orphans') <= lost'
    BY <1>2, <2>4, <2>5, <2>7, ClientOrphans
  <2>. QED
    BY <1>2, <2>4, <2>6, <2>7, HousekeepingOrphans, LifecycleOrphans
    DEF Next, Expire, Finished, vars, registry, history
<1>3. TypeInv /\ OneOwner /\ QueueInv /\ RegistryInv /\ NoOrphans /\ [Next]_vars => NoOrphans'
  BY <1>2
<1>. QED
  BY <1>1, <1>3, RegistrySound, Typed, OwnersDistinct, QueueSound, PTL DEF Spec
====
