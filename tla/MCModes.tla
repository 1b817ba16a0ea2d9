------------------------------ MODULE MCModes ------------------------------
\* Model values for the model checking runs of Modes.
EXTENDS Modes
CONSTANTS n, k, lim, a, b
=============================================================================
