SPECIFICATION RegSpec
CONSTANTS
    Jobs = {j1, j2}
    Runs = {r1, r2, r3}
    Cancels = {c1, c2}
    None = None
    Threaded = TRUE
    Overlap = FALSE
SYMMETRY Symmetry
CHECK_DEADLOCK FALSE
INVARIANT LiveRunsCancellable
INVARIANT RetryGetsFreshToken
INVARIANT TokensAreOwned
INVARIANT DoomedNeverSucceed
