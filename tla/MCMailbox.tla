----------------------------- MODULE MCMailbox -----------------------------
(* The mailbox with interchangeable producers. *)
EXTENDS Mailbox, TLC

CONSTANTS p1, p2
MCProducers == {p1, p2}
MCSymmetry  == Permutations(MCProducers)
=============================================================================
