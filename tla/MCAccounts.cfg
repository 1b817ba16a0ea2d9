CONSTANTS
    Nicks = {n1, n2, n3}
    Cores = {a, b, c}
    Chans = {x, y}
    Levels = {1, 2}
    NULL = NULL
    MaxReg = 1
    MaxAccess = 2
    MaxAliases = 2
    MaxAkicks = 1
    MaxObjects = 6
    CloneKinds = {"ACCESS", "AKICK"}
SPECIFICATION Spec
SYMMETRY Symmetry
INVARIANTS TypeOK RefsExact CountExact DisplayFollows
PROPERTY Inherited
CHECK_DEADLOCK FALSE
