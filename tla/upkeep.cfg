SPECIFICATION FairSpec
CONSTANTS
  A = A
  B = B
  C = C
  p = p
  Runs = {A, B}
  Prunes = {p}
  Sweeper = p
  Strategies = {"rollback"}
  MaxWrites = 2
  MaxExpiries = 1
  MaxTrouble = 1
PROPERTY KeepsHistoryContract
INVARIANT DeletedLeavesNothing
PROPERTY ExpiredCollected
CHECK_DEADLOCK FALSE
