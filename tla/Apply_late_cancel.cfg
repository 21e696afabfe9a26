SPECIFICATION ApplySpec
CONSTANTS
    Jobs = {j1}
    Runs = {r1}
    Cancels = {c1}
    None = None
    Threaded = TRUE
    Overlap = FALSE
CHECK_DEADLOCK FALSE
INVARIANT CancelledRunsNeverComplete
