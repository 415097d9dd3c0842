SPECIFICATION LiveSpec
CONSTANTS
  p1 = p1  p2 = p2  s1 = s1  s2 = s2
  Pages = {p1, p2}
  Clients = {s1, s2}
  LIMIT = 2  MAXLEN = 2  HISTORY = 2  BATCH = 1
  Partials = {p1}
  Ends = {"full"}
  KeepUp = TRUE  MaxConnects = 3  MaxDrops = 1  MaxFaults = 1
INVARIANTS NoSilentLoss CompletionIsTrue SlotsExact
PROPERTIES StreamEnds
CHECK_DEADLOCK FALSE
