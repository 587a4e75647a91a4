CONSTANTS
    j1 = j1
    t1 = t1
    t2 = t2
    r1 = r1
    Nobody = Nobody
    Jobs <- OneJob
    Tools <- TwoTools
    JobOf <- BothOfJ1
    Readers <- OneReader
    ChanCap = 1
    MaxUpdates = 1
    MaxFaults = 0
SPECIFICATION Spec
INVARIANTS NoReaderWaitsForDisk
