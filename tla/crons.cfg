SPECIFICATION FairSpec
CONSTANTS
  H = H
  S1 = S1
  Q1 = Q1
  E1 = E1
  E2 = E2
  Runs = {1, 2, 3}
  Homes = {H}
  Slots = {S1}
  Requests = {Q1}
  MaxTrouble = 1
  Crons = {1}
  Ticks = {1, 2}
  BatchSize = 1
  Grace = 1
  EndTime = 2
  Editors = {E1}
  PatchKinds = {"disable", "schedule"}
  MaxNow = 2
PROPERTY Coalesced
INVARIANT StraysAccounted
INVARIANT InlineNotQueued
INVARIANT StartedOnce
PROPERTY CronsKeepUp
CHECK_DEADLOCK FALSE
