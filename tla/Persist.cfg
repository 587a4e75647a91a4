CONSTANTS
    j1 = j1
    t1 = t1
    t2 = t2
    r1 = r1
    Nobody = Nobody
    Jobs <- OneJob
    Tools <- TwoTools
    JobOf <- BothOfJ1
    Readers <- OneReader
    ChanCap = 2
    MaxUpdates = 2
    MaxFaults = 1
SPECIFICATION FairSpec
INVARIANTS TypeOK VolumeFollowsMemory LinesBeforeStatus
PROPERTIES VersionsOnlyAdvance ReadsNeverGoBack  ScansReachVolume ReadersAreServed
CHECK_DEADLOCK FALSE
