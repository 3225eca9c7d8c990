\* A chunk made by create, no failures: three clients write and read.
SPECIFICATION FairSpec
CONSTANTS
  Clients = {c1, c2, c3}
  NoClient = NoClient
  Cells = {x, y}
  NumServers = 3
  Ops = {"write", "read"}
  Added = FALSE
  MaxCalls = 4
  MaxCrash = 0
  MaxRestart = 0
  MaxSlow = 0
  Word = 8
CHECK_DEADLOCK FALSE
INVARIANT ReplicasAgree
PROPERTIES AtomicSpec CallsReturn
