SPECIFICATION Spec
CONSTANTS
  Finish = 4
  Last = 5
  Kind <- AllDirect
  Fallible = {2, 3}
  MaxDay = 1
  MaxTriggers = 2
  MaxCrashes = 0
  MaxLost = 0
  MaxSlow = 0
  Burst = TRUE
CHECK_DEADLOCK FALSE
INVARIANT OneChainPerRun
