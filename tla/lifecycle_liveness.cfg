SPECIFICATION FairSpec
CONSTANTS
  A = A
  B = B
  C = C
  i1 = i1
  i2 = i2
  Runs = {A, B}
  Native = {}
  Background = {B}
  Webhook = {}
  Timed = {}
  Instances = {i1}
  Strategies = {"interrupt"}
  Cancellable = {A}
  CancelModes = {"rollback"}
  Deletable = {}
  Faulty = FALSE
  MaxCrashes = 0
INVARIANT CancelRollbackDiscards
PROPERTY EveryRunSettles
PROPERTY TerminalClosesBus
PROPERTY CancelReturns
CHECK_DEADLOCK FALSE
