CONSTANTS
    HostKey = h
    CheckKey = c
    HostName = hn
    ServiceName = sn
    Vars = {v1}
    OldVars = {v0}
    Commands = {c1}
    None = None
    MaxChanges = 2
    MaxFaults = 1
SPECIFICATION FairSpec
INVARIANTS TypeOK
PROPERTIES EventuallyShown EventuallyClean ServiceKept
