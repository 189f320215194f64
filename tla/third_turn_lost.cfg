SPECIFICATION Spec
CONSTANTS
  A = A
  B = B
  C = C
  p = p
  Runs = {A, B, C}
  Prunes = {p}
  Sweeper = p
  Strategies = {"enqueue", "rollback"}
  MaxWrites = 2
  MaxExpiries = 0
  MaxTrouble = 0
PROPERTY KeepsHistoryContract
CHECK_DEADLOCK FALSE
