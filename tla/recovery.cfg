\* One crash, followed or not by a restart, with attempts to spare.
SPECIFICATION LiveSpec
CONSTANTS
    p1 = p1  p2 = p2  w1 = w1  w2 = w2  s1 = s1  maint = maint
    Maintenance = maint  New = New  Absent = Absent  Gone = Gone  NoEntry = NoEntry
    Pages = {p1}
    Workers = {w1, w2}
    Slots = {s1}
    Handoff = TRUE
    MaxRequeues = 3
    ReaperBatch = 1
    LeaseMayLapse = FALSE
    MaxAge = 0
    MaxEntries = 7
    MaxCrashes = 1
    MaxFaults = 0
CHECK_DEADLOCK FALSE
INVARIANTS NoDropBeforeLastAttempt
PROPERTIES QueueDrains
