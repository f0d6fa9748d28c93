SPECIFICATION LaterSpec
CONSTANTS
    Server = {s1, s2, s3}
    None = None
    First = s1
    NoTrans = NoTrans
    CommitsOutlive = FALSE
    MaxElections = 3
    MaxTrans = 2
    MaxFaults = 1
SYMMETRY Symmetry
INVARIANT TypeOK
INVARIANT CommittedSurvives
INVARIANT CommitsAreWhole
CHECK_DEADLOCK FALSE
