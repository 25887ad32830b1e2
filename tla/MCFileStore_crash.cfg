CONSTANTS
  c1 = c1
  c2 = c2
  c3 = c3
  p1 = p1
  p2 = p2
  Calls = {c1, c2, c3}
  Owner <- TwoProcesses
SPECIFICATION Spec
INVARIANTS
  TypeOK
  Leftovers
PROPERTIES
  ImplementsRecordStore
CHECK_DEADLOCK FALSE
