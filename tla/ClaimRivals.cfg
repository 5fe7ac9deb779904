SPECIFICATION FairSpec
CONSTANTS
  A = A
  B = B
  a1 = a1
  a2 = a2
  b1 = b1
  NoWriter = NoWriter
  NoDict = NoDict
  Dicts <- Pair
  Writers <- MCWriters
  Owner <- PairOwner
  TTL = 9
  MaxDelay = 1
  Staggered = FALSE
  Faults <- AllFaults
INVARIANT KeeperSurvives
PROPERTY RivalsConverge
