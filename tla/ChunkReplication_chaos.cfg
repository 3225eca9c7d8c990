\* A chunk added by a write, two crashes, one restart, one false time-out.
SPECIFICATION Spec
CONSTANTS
  Clients = {c1, c2}
  NoClient = NoClient
  Cells = {x}
  NumServers = 3
  Ops = {"write", "read"}
  Added = TRUE
  MaxCalls = 3
  MaxCrash = 2
  MaxRestart = 1
  MaxSlow = 1
  Word = 8
SYMMETRY Perms
CHECK_DEADLOCK FALSE
PROPERTY NoServerFatal
