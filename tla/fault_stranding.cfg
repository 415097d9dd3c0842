\* One Redis command raises.
SPECIFICATION Spec
CONSTANTS
    p1 = p1  p2 = p2  w1 = w1  w2 = w2  s1 = s1  maint = maint
    Maintenance = maint  New = New  Absent = Absent  Gone = Gone  NoEntry = NoEntry
    Pages = {p1}
    Workers = {w1, w2}
    Slots = {s1}
    Handoff = TRUE
    MaxRequeues = 2
    ReaperBatch = 1
    LeaseMayLapse = FALSE
    MaxAge = 0
    MaxEntries = 3
    MaxCrashes = 0
    MaxFaults = 1
SYMMETRY WorkerSymmetry
CHECK_DEADLOCK FALSE
INVARIANTS NoStrandedPage
