SPECIFICATION SettledSpec
CONSTANTS
    Server = {s1, s2, s3}
    None = None
    First = s1
    NoTrans = NoTrans
    CommitsOutlive = TRUE
    MaxElections = 3
    MaxTrans = 2
    MaxFaults = 1
SYMMETRY Symmetry
INVARIANT CommittedSurvives
CHECK_DEADLOCK FALSE
