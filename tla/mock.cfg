\* Three concurrent requests over two keys, a store that remembers one result.
SPECIFICATION LiveSpec
CONSTANTS
  q1 = q1  q2 = q2  q3 = q3  k1 = k1  k2 = k2
  NoKey = NoKey  NoRequest = NoRequest
  Requests = {q1, q2, q3}
  Keys = {k1, k2}
  MAX_ENTRIES = 1  BURST = 2  MaxResets = 1
INVARIANTS SingleFlight RunsOnceWhileRemembered
PROPERTIES FollowersReleased
CHECK_DEADLOCK FALSE
