SPECIFICATION Spec
SYMMETRY Sym
CONSTANTS
    Keys = {k1, k2}
    k1 = k1
    k2 = k2
    Groups = {g1}
    g1 = g1
    Members = {m1, m2}
    m1 = m1
    m2 = m2
    Displays = {d1, d2}
    d1 = d1
    d2 = d2
    None = None
    MaxTag = 1
    MaxQuits = 1
    Env = {"add", "del", "join", "speak", "reap", "kill", "stranger", "squit"}
INVARIANT TypeOK
INVARIANT NickUnique
INVARIANT Mirror
