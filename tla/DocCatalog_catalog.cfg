\* Two pages create, trash, recover, clear and open documents; one crash.
CONSTANTS
  c1 = c1
  c2 = c2
  d1 = d1
  d2 = d2
  Conns = {c1, c2}
  Names = {d1, d2}
  Inside <- MCInside
  Short = {d1}
  Requests = {"create", "mtt", "recover", "ct", "open"}
  MaxCalls = 4
  MaxCrashes = 1
SPECIFICATION Spec
SYMMETRY Sym
CHECK_DEADLOCK FALSE
INVARIANTS
  TypeOK
  
  MapsAgree
  OpenNotTrashed
  NoHang
