SPECIFICATION Spec
CONSTANTS
  D = D
  E = E
  u = u
  v = v
  Deliveries = {D}
  Disallowed = {}
  Workers = {u}
  BatchSize = 2
  MaxAttempts = 2
  Replayed = {"dead"}
  Pauses = TRUE
  MaxTrouble = 0
PROPERTY DeliveredIsFinal
CHECK_DEADLOCK FALSE
