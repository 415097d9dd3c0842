\* Two workers, two attempts, an exit or a torn flush; one outcome that
\* is terminal and one that is not.
SPECIFICATION Spec
CONSTANTS
  w1 = w1  w2 = w2
  Workers = {w1, w2}
  Outcomes = {"handoff", "resumed"}
  Bounds <- MCBounds
  Durations = {2}
  INTERVAL = 1  TTL = 3
  MaxAttempts = 2  MaxFaults = 1
CHECK_DEADLOCK FALSE
INVARIANTS NothingCountedTwice LiveWorkersVisible
