SPECIFICATION FairSpec
CONSTANTS
    i1 = i1
    i2 = i2
    Ids = {i1, i2}
    Mixes <- Several
    Interval = 2
    Ats = {1}
    MaxTime = 2
    MaxQueue = 1
    MaxRemovals = 1
    MaxFaults = 1
    None = None
INVARIANTS
    LiveScheduleIsReplay
    ExtraTurnsAreFaults
PROPERTIES
    OwedIsRun
