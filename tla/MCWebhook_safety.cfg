SPECIFICATION Spec
CONSTANTS
  k1 = k1
  k2 = k2
  c1 = c1
  c2 = c2
  n1 = n1
  n2 = n2
  NoChan = NoChan
  Keys = {k1}
  Chans = {c1, c2}
  Names = {n1, n2}
  Env = {"add", "del", "set", "say", "admin", "rename", "token", "stop", "error", "throw", "overflow"}
  MaxHooks = 2
  MaxRest = 2
  MaxJobs = 1
SYMMETRY Symmetry
INVARIANT TypeOK
INVARIANT RightChannel
INVARIANT OwnFiltered
PROPERTY PendingHasCause
