SPECIFICATION Spec
CONSTANTS
  A = A
  B = B
  C = C
  i1 = i1
  i2 = i2
  Runs = {A, B}
  Native = {A, B}
  Background = {A, B}
  Webhook = {}
  Timed = {}
  Instances = {i1, i2}
  Strategies = {"reject", "enqueue"}
  Cancellable = {A}
  CancelModes = {"wait"}
  Deletable = {}
  Faulty = FALSE
  MaxCrashes = 1
INVARIANT WaitedCancelMeansStopped
INVARIANT ExclusiveExecution
PROPERTY FirstTerminalWins
SYMMETRY AlikeInstances
CHECK_DEADLOCK FALSE
