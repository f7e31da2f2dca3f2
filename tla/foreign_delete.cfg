CONSTANTS
    Kind = "HostGroup"
    v1 = v1 c1 = c1 g1 = g1
    Keys = {k1}
    Names = {n1}
    Vars = {v1}
    Commands = {}
    Groups = {g1}
    Tag = Tag
    OtherTag = OtherTag
    NoOwner = NoOwner
    NoCommand = NoCommand
    None = None
    InitSpecs <- MCInitSpecs
    InitObjects <- MCInitObjects
    MaxChanges = 1
    MaxOthers = 0
    MaxFaults = 0
    MaxCrashes = 0
SYMMETRY Symmetry
SPECIFICATION HSpec
PROPERTIES ForeignLeftAlone
