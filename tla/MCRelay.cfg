SPECIFICATION Spec
SYMMETRY Sym
CONSTANTS
    Ids = {i1, i2, i3}
    i1 = i1
    i2 = i2
    i3 = i3
    Lines = {l1, l2}
    l1 = l1
    l2 = l2
    Hashes = {h1, h2}
    h1 = h1
    h2 = h2
    None = None
    HistoryCap = 2
    LinksCap = 1
    Burst = 2
    Secs = 2
    MaxLines = 2
    MaxNow = 3
    MaxForward = 4
    MaxDropped = 2
    MaxPosts = 2
    Env = {"message", "edit", "delete", "react", "line", "clock", "uplink"}
INVARIANT TypeOK
INVARIANT HistoryExact
INVARIANT LinksExact
INVARIANT FloodBound
