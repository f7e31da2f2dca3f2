CONSTANTS
    Kind = "Workload"
    Mapping = "host"
    Ids = {p1}
    Notes = {m1}
    NoNotes = NoNotes
    OtherSpecs = {}
    None = None
    InitObjs <- MCInitObjs
    InitCRs <- MCInitCRs
    InitIcinga <- MCInitIcinga
    MaxChanges = 2
    MaxEdits = 0
    MaxFaults = 0
    MaxCrashes = 1
SPECIFICATION PipelineFairSpec
INVARIANTS QuietShown QuietMonitored
PROPERTIES HiddenWithReason RemovedWithReason EventuallyShown EventuallyHidden
CHECK_DEADLOCK FALSE
