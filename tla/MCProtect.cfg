CONSTANTS
    u1 = u1
    u2 = u2
    n1 = n1
    a2 = a2
    Users = {u1, u2}
    Nicks = {n1}
    Accounts = {n1, a2}
    Knows <- KnowsN1
    Guest = Guest
    None = None
    MaxTimers = 1
    MaxHeld = 2
    MaxForce = 2
SPECIFICATION FairSpec
INVARIANTS TypeOK Pursued HeldMeansHold RecoverPending
PROPERTY AskedEnds
CHECK_DEADLOCK FALSE
