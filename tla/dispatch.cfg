SPECIFICATION LiveSpec
CONSTANTS
  w1 = w1
  Workers = {w1}
  Settings <- MCSettings
  MaxSent <- MCSent
  MaxRequeues = 1  MaxPoison = 1  MaxCrashes = 1
INVARIANTS  ResidentNearlyBounded
 
CHECK_DEADLOCK FALSE
