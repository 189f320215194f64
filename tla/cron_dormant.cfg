SPECIFICATION Spec
CONSTANTS
  H = H
  S1 = S1
  Q1 = Q1
  E1 = E1
  E2 = E2
  Runs = {1}
  Homes = {H}
  Slots = {S1}
  Requests = {Q1}
  MaxTrouble = 3
  Crons = {1}
  Ticks = {1}
  BatchSize = 1
  Grace = 1
  EndTime = 2
  Editors = {E1, E2}
  PatchKinds = {"enable", "disable", "schedule"}
  MaxNow = 2
INVARIANT DormantIsOver
CHECK_DEADLOCK FALSE
