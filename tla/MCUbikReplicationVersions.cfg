SPECIFICATION InterruptedSpec
CONSTANTS
    Server = {s1, s2, s3}
    None = None
    First = s1
    NoTrans = NoTrans
    CommitsOutlive = FALSE
    MaxElections = 3
    MaxTrans = 3
    MaxFaults = 1
SYMMETRY Symmetry
INVARIANT VersionsNameContents
CHECK_DEADLOCK FALSE
