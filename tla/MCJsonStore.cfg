CONSTANTS
    core = core
    mod = mod
    seen = seen
    Types = {mod, seen}
    Core = {}
    Freed = {mod}
    Keep = 1
    Preserve = TRUE
    Ignore = FALSE
    Full = TRUE
    MonthLength = 2
    LastDay = 2
    MaxChanges = 2
    MaxCopies = 2
SPECIFICATION StoreSpec
INVARIANT Recoverable
PROPERTIES EarlierKept ReloadRestores
CHECK_DEADLOCK FALSE
