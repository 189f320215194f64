SPECIFICATION FairSpec
CONSTANTS
  D = D
  E = E
  u = u
  v = v
  Deliveries = {D, E}
  Disallowed = {E}
  Workers = {u, v}
  BatchSize = 2
  MaxAttempts = 2
  Replayed = {"dead"}
  Pauses = FALSE
  MaxTrouble = 1
INVARIANT TypeOK
INVARIANT NothingEmptySent
INVARIANT DeadSpentBudget
INVARIANT OneAttemptAtATime
PROPERTY DeliveredIsFinal
PROPERTY EveryDeliverySettles
CHECK_DEADLOCK FALSE
