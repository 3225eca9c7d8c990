\* Three callers, a failed request and a session expiration.
SPECIFICATION FairSpec
CONSTANTS
  Procs = {p1, p2, p3}
  NoProc = NoProc
  MaxExpiry = 1
  MaxFault = 1
CHECK_DEADLOCK FALSE
INVARIANTS TypeOK MutualExclusion NoOrphanedLock
PROPERTIES MutexSpec LockProgress
