\* Workers are goroutines, one quits after two connections, one is killed.
SPECIFICATION FairSpec
CONSTANTS
  w1 = w1
  w2 = w2
  Workers <- TwoWorkers
  Limit <- OneQuits
  NoWorker = NoWorker
  NMap = 2
  NReduce = 2
  Process = FALSE
  MaxCrash = 1
CHECK_DEADLOCK FALSE
INVARIANTS TypeOK OneTaskPerWorker NoLostRecord ExactOutput
PROPERTY JobCompletes
