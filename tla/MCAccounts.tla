----------------------------- MODULE MCAccounts -----------------------------
(* Accounts for TLC: nicknames, accounts and channels are interchangeable. *)
EXTENDS Accounts

Symmetry == Permutations(Nicks) \cup Permutations(Cores) \cup Permutations(Chans)
=============================================================================
