CONSTANTS
    n = n
    k = k
    lim = lim
    a = a
    b = b
    On = On
    Off = Off
    Nothing = Nothing
    Flags = {n}
    Params = {k, lim}
    NoArg = {lim}
    Keys = {a, b}
    Start = 2
    Registered = 1
    Olders = {0}
    AlwaysLower = TRUE
    MaxInputs = 3
SPECIFICATION ModesFairSpec
INVARIANTS ModesTypeOK Agrees LockHolds
 
CHECK_DEADLOCK FALSE
