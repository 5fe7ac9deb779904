SPECIFICATION Spec
CONSTANTS
  A = A
  B = B
  a1 = a1
  a2 = a2
  b1 = b1
  NoWriter = NoWriter
  NoDict = NoDict
  Dicts <- MCDicts
  Writers <- MCWriters
  Owner <- MCOwner
  TTL = 11
  MaxDelay = 1
  Staggered = TRUE
  Faults <- NoFaults
INVARIANT TypeOK
INVARIANT Exclusive
