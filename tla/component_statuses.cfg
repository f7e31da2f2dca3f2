CONSTANTS
    Kind = "Node"
    Mapping = "hostgroup"
    Ids = {x}
    Notes = {}
    NoNotes = NoNotes
    StatusSpec = StatusSpec
    OtherSpecs = {StatusSpec}
    None = None
    InitObjs <- MCInitObjs
    InitCRs <- MCInitCRs
    MaxChanges = 1
    MaxEdits = 1
    MaxFaults = 1
    MaxCrashes = 1
SPECIFICATION StatusFairSpec
INVARIANTS StatusTypeOK
PROPERTIES EventuallyRefreshed StatusKept EventuallyNoOrphans
