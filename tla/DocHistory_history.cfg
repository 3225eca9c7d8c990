\* Alice and Bob write into a document and roll back.
SPECIFICATION Spec
CONSTANTS
  a1 = a1
  b1 = b1
  alice = alice
  bob = bob
  k1 = k1
  k2 = k2
  Conns = {a1, b1}
  Users = {alice, bob}
  UserOf <- MCUserOf
  Cells = {k1, k2}
  Values <- MCValues
  Width = 3
  MaxOps = 4
  MaxCrashes = 1
SYMMETRY Sym
CHECK_DEADLOCK FALSE
INVARIANTS
  TypeOK
  LogComplete
  RollbackExact
  
