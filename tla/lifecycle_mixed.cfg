SPECIFICATION Spec
CONSTANTS
  A = A
  B = B
  C = C
  i1 = i1
  i2 = i2
  Runs = {A, B}
  Native = {B}
  Background = {B}
  Webhook = {A, B}
  Timed = {}
  Instances = {i1}
  Strategies = {"rollback"}
  Cancellable = {A}
  CancelModes = {"wait"}
  Deletable = {A}
  Faulty = TRUE
  MaxCrashes = 0
INVARIANT TypeOK
INVARIANT OneCallback
PROPERTY DeletedStaysDeleted
CHECK_DEADLOCK FALSE
