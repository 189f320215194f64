SPECIFICATION Spec
CONSTANTS
  A = A
  B = B
  C = C
  p = p
  Runs = {A}
  Prunes = {p}
  Sweeper = p
  Strategies = {"enqueue", "rollback"}
  MaxWrites = 1
  MaxExpiries = 1
  MaxTrouble = 1
INVARIANT AbortedRunsSweep
CHECK_DEADLOCK FALSE
