SPECIFICATION Spec
CONSTANTS
  A = A
  B = B
  C = C
  i1 = i1
  i2 = i2
  Runs = {A, B}
  Native = {A, B}
  Background = {A, B}
  Webhook = {}
  Timed = {}
  Instances = {i1}
  Strategies = {"rollback"}
  Cancellable = {}
  CancelModes = {}
  Deletable = {}
  Faulty = FALSE
  MaxCrashes = 0
INVARIANT RollbackErasesDisplaced
CHECK_DEADLOCK FALSE
