\* Three blocks on two pages, one or two buffers, two transactions, two crashes.
SPECIFICATION Spec
CONSTANTS
    Size = 3
    PageSize = 2
    Val = {0, 1}
    NoTrans = NoTrans
    NoTrunc = NoTrunc
    BufferCounts = {1, 2}
    TruncTo = {2}
    TornWrites = TRUE
    SyncErrors = FALSE
    MaxOps = 2
    MaxTrans = 2
    MaxEpoch = 2
    MaxCrashes = 2
INVARIANT ReplayedLogIsWhole
