SPECIFICATION Spec
CONSTANTS
    Server = {1, 2, 3}
    Clone = {}
    BIGTIME = 2
    SMALLTIME = 2
    MAXSKEW = 1
    Skews <- FirstBehind
    POLLTIME = 1
    RPCTIMEOUT = 1
    MaxDelay = 1
    BootAge = {3}
    NoAddr = 99
    Forever = 1000
    MaxTime = 6
    MaxCrashes = 1
    MaxRounds = 2
INVARIANT TypeOK
INVARIANT AtMostOneSyncSite
INVARIANT PromisesBackTerms
PROPERTY EpochsOrdered
PROPERTY AdvertisedWhenTold
PROPERTY ElectsSite
CHECK_DEADLOCK FALSE
