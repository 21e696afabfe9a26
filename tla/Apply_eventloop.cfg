SPECIFICATION ApplySpec
CONSTANTS
    Jobs = {j1}
    Runs = {r1, r2, r3}
    Cancels = {c1, c2}
    None = None
    Threaded = FALSE
    Overlap = TRUE
CHECK_DEADLOCK FALSE
INVARIANT ApplyTypeOK
INVARIANT OneEndPerRun
PROPERTY ImplementsJobContract
INVARIANT AcceptedRunsDoNotSucceed
