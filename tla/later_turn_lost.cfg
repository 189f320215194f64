SPECIFICATION Spec
CONSTANTS
  A = A
  B = B
  C = C
  i1 = i1
  i2 = i2
  Runs = {A, B}
  Native = {}
  Background = {B}
  Webhook = {}
  Timed = {}
  Instances = {i1}
  Strategies = {"reject"}
  Cancellable = {A}
  CancelModes = {"rollback"}
  Deletable = {}
  Faulty = FALSE
  MaxCrashes = 0
PROPERTY OnlyRolledBackWritesRemoved
CHECK_DEADLOCK FALSE
