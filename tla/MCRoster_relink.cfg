SPECIFICATION Spec
SYMMETRY Sym
CONSTANTS
    Keys = {k1, k2}
    k1 = k1
    k2 = k2
    Groups = {g1, g2}
    g1 = g1
    g2 = g2
    Members = {m1}
    m1 = m1
    Displays = {d1}
    d1 = d1
    None = None
    MaxTag = 8
    MaxQuits = 1
    Env = {"add", "del", "set", "join", "leave", "presence", "uplink", "domain"}
INVARIANT Populated
INVARIANT Mirror
