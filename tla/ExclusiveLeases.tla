--------------------------- MODULE ExclusiveLeases ---------------------------
(***************************************************************************)
(* What a connection pool promises its clients: a connection is leased to  *)
(* at most one of them, a client holds at most one, no more than Limit are *)
(* out, and only its holder ends a lease.                                  *)
(***************************************************************************)
EXTENDS Integers, FiniteSets

CONSTANTS Clients, Conns, NoConn, Limit

VARIABLE lease       \* per client: the connection it may use, or NoConn

Leased == {cl \in Clients : lease[cl] # NoConn}

Init == lease = [cl \in Clients |-> NoConn]

Grant(cl, c) ==
  /\ lease[cl] = NoConn
  /\ \A other \in Clients : lease[other] # c
  /\ Cardinality(Leased) < Limit
  /\ lease' = [lease EXCEPT ![cl] = c]

Return(cl) ==
  /\ lease[cl] # NoConn
  /\ lease' = [lease EXCEPT ![cl] = NoConn]

Next == \E cl \in Clients : Return(cl) \/ \E c \in Conns : Grant(cl, c)

Spec == Init /\ [][Next]_lease
====
