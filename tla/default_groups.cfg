CONSTANTS
    Kind = "Namespace"
    Mapping = "hostgroup"
    Ids = {nodes}
    Group = nodes
    Notes = {}
    NoNotes = NoNotes
    DefaultSpec = DefaultSpec
    OtherSpecs = {DefaultSpec, Renamed}
    None = None
    InitObjs <- MCInitObjs
    InitCRs <- MCInitCRs
    MaxChanges = 2
    MaxEdits = 1
    MaxFaults = 1
    MaxCrashes = 1
SPECIFICATION GroupFairSpec
INVARIANTS GroupTypeOK
PROPERTIES EventuallyGrouped EventuallyMonitored
CHECK_DEADLOCK FALSE
