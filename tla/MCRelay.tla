------------------------------- MODULE MCRelay -------------------------------
(* Relay for TLC, with interchangeable messages, lines and texts.          *)
EXTENDS Relay, TLC

Sym == Permutations(Ids) \cup Permutations(Lines) \cup Permutations(Hashes)

=============================================================================
