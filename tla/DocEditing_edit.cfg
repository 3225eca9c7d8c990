\* Two pages edit a cell of a document and roll back; one of them is reloaded.
CONSTANTS
  a1 = a1
  b1 = b1
  alice = alice
  bob = bob
  k1 = k1
  Conns = {a1, b1}
  Users = {alice, bob}
  UserOf <- MCUserOf
  Cells = {k1}
  MaxJoins = 3
  MaxAsks = 2
  MaxQueue = 3
  WideCells = TRUE
SPECIFICATION Spec
CHECK_DEADLOCK FALSE
INVARIANTS
  TypeOK
  UpdateUnderLock
  HolderKnown
PROPERTY
  EditEnds
