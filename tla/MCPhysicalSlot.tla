---------------------------- MODULE MCPhysicalSlot ----------------------------
(* Model-checking instances of PhysicalSlot: a session among those of another    *)
(* tenant, sessions of two tenants, and two of one tenant that set variables.    *)
EXTENDS PhysicalSlot

CONSTANTS r1, r2

A0 == [ns |-> "a", db |-> "main", creds |-> "root", vars |-> {}]
B0 == [ns |-> "b", db |-> "main", creds |-> "bob", vars |-> {}]
A1 == [ns |-> "a", db |-> "main", creds |-> "root", vars |-> {<<"k", 1>>}]
A2 == [ns |-> "a", db |-> "main", creds |-> "root", vars |-> {<<"k", 2>>, <<"j", 1>>}]

TenStates  == {A0, B0}
TenStateOf == (r1 :> A0) @@ (r2 :> B0)
VarStates  == {A1, A2}
VarStateOf == (r1 :> A1) @@ (r2 :> A2)
OneStateOf == r1 :> A2
GuestStateOf == [r \in Requests |-> B0]

\* a new connection is in the first tenant's namespace, or in another
MCPoolUse == <<"a", "main">>
NewUse    == <<"p", "main">>

Symmetry == Permutations(Conns)
\* for requests of one session
AllSymmetry == Symmetry \cup Permutations(Requests)
====
