------------------------------ MODULE MCRoster ------------------------------
(* Roster for TLC: members and display names are interchangeable.          *)
EXTENDS Roster, TLC

Sym == Permutations(Keys) \cup Permutations(Groups)
         \cup Permutations(Members) \cup Permutations(Displays)

=============================================================================
