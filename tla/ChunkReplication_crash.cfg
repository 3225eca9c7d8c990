\* One chunkserver crashes for good, one is timed out while it runs; the file may
\* be deleted meanwhile.
SPECIFICATION Spec
CONSTANTS
  Clients = {c1, c2, c3}
  NoClient = NoClient
  Cells = {x, y}
  NumServers = 3
  Ops = {"write", "read", "delete"}
  Added = FALSE
  MaxCalls = 3
  MaxCrash = 1
  MaxRestart = 0
  MaxSlow = 1
  Word = 8
SYMMETRY Perms
CHECK_DEADLOCK FALSE
INVARIANTS TypeOK NoLostWrite VersionsTracked DeletedChunksGone
