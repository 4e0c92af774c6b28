SPECIFICATION FairSpec
CONSTANTS
    Doubled = {4, 6}
    maxMmapStep = 4
    maxMapSize = 13
    pageSize = 1
    Handles = {"a1", "b1"}
    Owner <- MCOwner
    Platforms = {"unix", "windows"}
    Counts = {1, 3}
    AllocSize = 7
    InitialMmapSize = 0
    MaxInt = 13
    MaxOpens = 3
    MaxFaults = 1
INVARIANTS TypeOK ExclusiveWriter PagesBacked Reopens
PROPERTIES CommittedKept TimedOpenReturns
