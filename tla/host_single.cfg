CONSTANTS
    Kind = "Host"
    v1 = v1 c1 = c1 g1 = g1
    Keys = {k1}
    Names = {n1, n2}
    Vars = {v1}
    Commands = {c1}
    Groups = {g1}
    Tag = Tag
    OtherTag = OtherTag
    NoOwner = NoOwner
    NoCommand = NoCommand
    None = None
    InitSpecs <- MCInitSpecs
    InitObjects <- MCInitObjects
    MaxChanges = 2
    MaxOthers = 0
    MaxFaults = 1
    MaxCrashes = 1
SPECIFICATION HFairSpec
INVARIANTS IInv NothingLost QuietInSync
PROPERTIES ImplementsMirror EventuallyInSync EventuallyNoOrphans
