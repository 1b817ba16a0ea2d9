---------------------------- MODULE MCJsonStore ----------------------------
\* Model values for the model checking runs of JsonStore.
EXTENDS JsonStore
CONSTANTS core, mod, seen
=============================================================================
