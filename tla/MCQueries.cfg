CONSTANTS
    Reqs = {r1, r2}
    None = None
    MaxQueries = 2
SPECIFICATION Spec
SYMMETRY Symmetry
INVARIANTS HoldsExact ToldOnce NoneSleepsOn
CHECK_DEADLOCK FALSE
