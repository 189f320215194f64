SPECIFICATION Spec
CONSTANTS
  H = H
  S1 = S1
  S2 = S2
  Q1 = Q1
  W1 = W1
  Runs = {1, 2}
  Homes = {H}
  Slots = {S1, S2}
  Requests = {Q1}
  MaxTrouble = 1
  Sweepers = {W1}
  Retried = {1}
  Attempts = 2
PROPERTY OnlyParkedPromoted
CHECK_DEADLOCK FALSE
