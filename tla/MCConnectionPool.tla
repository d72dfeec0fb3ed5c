-------------------------- MODULE MCConnectionPool --------------------------
(* Instances of the connection pool for TLC. *)
EXTENDS ConnectionPool, TLC

Symmetry == Permutations(Conns) \cup Permutations(Clients)
=============================================================================
