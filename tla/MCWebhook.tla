----------------------------- MODULE MCWebhook -----------------------------
(* Instances of Webhook for TLC.                                           *)
EXTENDS Webhook, TLC

CONSTANTS k1, k2, c1, c2, n1, n2

Symmetry == Permutations(Keys) \cup Permutations(Chans) \cup Permutations(Names)
=============================================================================
