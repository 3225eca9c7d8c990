\* One master is killed, and files are created.
SPECIFICATION Spec
CONSTANTS
  c1 = c1
  f1 = f1
  NumMasters = 3
  Callers <- OneCaller
  Files <- OneFile
  Ops = {"create"}
  MaxCalls = 3
  MaxFaults = 1
  MaxLost = 0
  MaxRestart = 0
CHECK_DEADLOCK FALSE
INVARIANT OneKillSurvived
