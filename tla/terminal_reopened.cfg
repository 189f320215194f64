SPECIFICATION Spec
CONSTANTS
  A = A
  B = B
  C = C
  i1 = i1
  i2 = i2
  Runs = {A}
  Native = {}
  Background = {}
  Webhook = {}
  Timed = {}
  Instances = {i1}
  Strategies = {"reject"}
  Cancellable = {A}
  CancelModes = {"cancel"}
  Deletable = {}
  Faulty = FALSE
  MaxCrashes = 0
PROPERTY FirstTerminalWins
CHECK_DEADLOCK FALSE
