\* A chunk added by a write that crosses a chunk boundary.
SPECIFICATION Spec
CONSTANTS
  Clients = {c1, c2}
  NoClient = NoClient
  Cells = {x, y}
  NumServers = 3
  Ops = {"write", "read"}
  Added = TRUE
  MaxCalls = 3
  MaxCrash = 0
  MaxRestart = 0
  MaxSlow = 0
  Word = 8
SYMMETRY Perms
CHECK_DEADLOCK FALSE
INVARIANT ReplicasAgree
