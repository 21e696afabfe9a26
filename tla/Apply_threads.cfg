SPECIFICATION FairApplySpec
CONSTANTS
    Jobs = {j1, j2}
    Runs = {r1, r2}
    Cancels = {c1}
    None = None
    Threaded = TRUE
    Overlap = FALSE
CHECK_DEADLOCK FALSE
INVARIANT RecordsOnlyCompletedRuns
INVARIANT ViewMatchesOutcome
PROPERTY StartedRunsReportAnEnd
