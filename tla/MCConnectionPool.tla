--------------------------- MODULE MCConnectionPool ---------------------------
(* Model-checking instances of ConnectionPool: the symmetry of its sets. *)
EXTENDS ConnectionPool

Symmetry ==
  Permutations(Conns) \cup Permutations(Clients \ Lessees)
====
