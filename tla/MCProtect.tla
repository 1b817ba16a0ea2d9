----------------------------- MODULE MCProtect -----------------------------
\* Model values for the model checking runs of Protect.
EXTENDS Protect
CONSTANTS u1, u2, n1, a2
\* One user has the password of n1, and both have another account.
KnowsN1 == {<<u1, n1>>, <<u1, a2>>, <<u2, a2>>}
=============================================================================
