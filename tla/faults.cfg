SPECIFICATION FairSpec
CONSTANTS
  Finish = 4
  Last = 5
  Kind <- SecondInTxn
  Fallible = {1, 2, 5}
  MaxDay = 2
  MaxTriggers = 2
  MaxCrashes = 1
  MaxLost = 1
  MaxSlow = 1
  Burst = TRUE
INVARIANTS GuardsAgree RunningIsCarried
PROPERTIES RunEnds QueueDrains
CHECK_DEADLOCK FALSE
