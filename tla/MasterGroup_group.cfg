\* All calls on one file, one master killed or expired, one restarted, one failed
\* request of an election.
SPECIFICATION FairSpec
CONSTANTS
  c1 = c1
  f1 = f1
  NumMasters = 3
  Callers <- OneCaller
  Files <- OneFile
  Ops = {"create", "add", "update", "delete"}
  MaxCalls = 2
  MaxFaults = 1
  MaxLost = 1
  MaxRestart = 1
CHECK_DEADLOCK FALSE
INVARIANTS TypeOK OneLeader AnsweredEverywhere
PROPERTY LeaderElected
