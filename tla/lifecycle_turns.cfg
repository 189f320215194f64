SPECIFICATION Spec
CONSTANTS
  A = A
  B = B
  C = C
  i1 = i1
  i2 = i2
  Runs = {A, B, C}
  Native = {A, B, C}
  Background = {A, B, C}
  Webhook = {}
  Timed = {}
  Instances = {i1}
  Strategies = {"enqueue", "interrupt", "rollback"}
  Cancellable = {}
  CancelModes = {}
  Deletable = {}
  Faulty = FALSE
  MaxCrashes = 0
INVARIANT NotBusyAtRest
INVARIANT DisplacedWritesGone
SYMMETRY Alike
CHECK_DEADLOCK FALSE
