CONSTANTS
    Kind = "Check"
    v1 = v1 c1 = c1 g1 = g1
    Keys = {k1, k2}
    Names = {n1}
    Vars = {v1}
    Commands = {}
    Groups = {g1}
    Tag = Tag
    OtherTag = OtherTag
    NoOwner = NoOwner
    NoCommand = NoCommand
    None = None
    InitSpecs <- MCInitSpecs
    InitObjects <- MCInitObjects
    MaxChanges = 2
    MaxOthers = 1
    MaxFaults = 1
    MaxCrashes = 1
SPECIFICATION HFairSpec
INVARIANTS IInv
PROPERTIES ImplementsMirror EventuallyInSync EventuallyNoOrphans
