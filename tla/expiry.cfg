\* The shortest ttl with room for a pause of one tick and a sweep late by one.
SPECIFICATION KeysLiveSpec
CONSTANTS
  p1 = p1  p2 = p2  w1 = w1  w2 = w2
  Pages = {p1, p2}
  Movers = {w1, w2}
  RESULT_TTL = 5  GAP = 1  DELAY = 1
INVARIANTS ActiveJobKept
PROPERTIES KeysReclaimed
