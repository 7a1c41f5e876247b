SPECIFICATION Spec
CONSTANTS
  Finish = 4
  Last = 5
  Kind <- SecondInTxn
  Fallible = {2, 3}
  MaxDay = 1
  MaxTriggers = 1
  MaxCrashes = 0
  MaxLost = 0
  MaxSlow = 0
  Burst = FALSE
CHECK_DEADLOCK FALSE
INVARIANT RunningIsCarried
