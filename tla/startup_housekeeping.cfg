CONSTANTS
    Kind = "Workload"
    Mapping = "hostgroup"
    Ids = {p1}
    Notes = {}
    NoNotes = NoNotes
    OtherSpecs = {}
    None = None
    InitObjs <- MCInitObjs
    InitCRs <- MCInitCRs
    MaxChanges = 0
    MaxEdits = 0
    MaxFaults = 0
    MaxCrashes = 0
SPECIFICATION Spec
PROPERTIES RemovedWithReason
