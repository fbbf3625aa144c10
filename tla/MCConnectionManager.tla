-------------------------- MODULE MCConnectionManager --------------------------
(* ConnectionManager for TLC: clients and broadcasters are interchangeable. *)
EXTENDS ConnectionManager, TLC
Symmetry == Permutations(Clients) \cup Permutations(Broadcasters)
=============================================================================
