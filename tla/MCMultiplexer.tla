----------------------------- MODULE MCMultiplexer -----------------------------
(* A model-checking instance of Multiplexer: the requests of one tenant's session, *)
(* which may also set a variable.                                                 *)
EXTENDS Multiplexer

A  == [ns |-> "a", db |-> "main", creds |-> "root", vars |-> {}]
A1 == [ns |-> "a", db |-> "main", creds |-> "root", vars |-> {<<"k", 1>>}]

MCStates == {A, A1}
SameStateOf == [r \in Requests |-> A]
====
