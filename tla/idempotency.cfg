SPECIFICATION FairSpec
CONSTANTS
  P1 = P1
  P2 = P2
  P3 = P3
  A = A
  B = B
  Requests = {P1, P2}
  Bodies = {A, B}
  Natives = {TRUE, FALSE}
  InFlight = 1
  Retention = 2
  LastSent = 1
  MaxNow = 4
  MaxTrouble = 1
PROPERTY NoSecondRun
INVARIANT ReplaysOriginal
PROPERTY RetriesAnswered
CHECK_DEADLOCK FALSE
