CONSTANTS
    Kind = "Workload"
    Mapping = "hostgroup"
    Ids = {p1}
    Notes = {m1}
    NoNotes = NoNotes
    OtherSpecs = {}
    None = None
    InitObjs <- MCInitObjs
    InitCRs <- MCInitCRs
    MaxChanges = 2
    MaxEdits = 1
    MaxFaults = 1
    MaxCrashes = 1
SPECIFICATION FairSpec
INVARIANTS TypeOK QuietUnmonitored
PROPERTIES EventuallyMonitored EventuallyExcluded EventuallyNoOrphans CondemnedWithReason
