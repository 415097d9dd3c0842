SPECIFICATION LiveSpec
CONSTANTS
  j1 = j1  j2 = j2  j3 = j3  r1 = r1  r2 = r2
  Jobs = {j1, j2, j3}
  Replicas = {r1, r2}
  At <- MCAt
  MAX_PAGES = 2  HIGH = 3  LOW = 1  RETRY_CAP = 3
  Uploads = {j1}
  Sizes <- MCSizes
  MaxFaults = 1   MaxTwins = 1
INVARIANTS DepthBounded RefusedLeavesNothing StateBeforeWork DocumentWhileNeeded TripsExplainShedding
PROPERTIES DocumentsReclaimed
CHECK_DEADLOCK FALSE
