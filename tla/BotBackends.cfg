SPECIFICATION MCSpec
CONSTANTS
  c1 = c1
  r1 = r1
  r2 = r2
  x1 = x1
  x2 = x2
  q1 = q1
  q2 = q2
  q3 = q3
  Calls <- MCCalls
  Receipts <- MCReceipts
  Txos <- MCTxos
  MaxPolls = 2
  MaxTries = 3
  Quantity = 1
  Interfaces <- MCInterfaces
  Queries <- MCQueries
  On <- MCOn
  PoolSize = 3
  MaxVersion = 4
INVARIANTS Types TakenOnce VerdictIsTrue AckedIsKept PoolMoves
PROPERTIES PaymentsEnd QueriesEnd BackedUp
CHECK_DEADLOCK FALSE
