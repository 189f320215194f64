SPECIFICATION Spec
CONSTANTS
  A = A
  B = B
  C = C
  i1 = i1
  i2 = i2
  Runs = {A, B}
  Native = {A, B}
  Background = {A, B}
  Webhook = {A, B}
  Timed = {A}
  Instances = {i1}
  Strategies = {"reject", "interrupt", "rollback"}
  Cancellable = {A}
  CancelModes = {"rollback"}
  Deletable = {}
  Faulty = FALSE
  MaxCrashes = 0
INVARIANT OneActiveRun
INVARIANT NotBusyAtRest
INVARIANT DisplacedWritesGone
PROPERTY KeepsContract
PROPERTY OnlyRolledBackWritesRemoved
CHECK_DEADLOCK FALSE
