SPECIFICATION BusySpec
CONSTANTS
  k1 = k1
  k2 = k2
  c1 = c1
  c2 = c2
  n1 = n1
  n2 = n2
  NoChan = NoChan
  Keys = {k1}
  Chans = {c1}
  Names = {n1}
  Env = {"add", "say", "admin", "echo"}
  MaxHooks = 3
  MaxRest = 2
  MaxJobs = 1
PROPERTY Heals
