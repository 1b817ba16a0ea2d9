----------------------------- MODULE MCQueries -----------------------------
(* Queries for TLC: requests are interchangeable.                          *)
EXTENDS Queries

Symmetry == Permutations(Reqs)
=============================================================================
