\* Three names, so that the chain reaches MAX_SNAPSHOTS and names are reused.
CONSTANTS
    Id = {s1, s2, s3}
    MaxSnapshots = 3
    MaxCreate = 4
    MaxError = 2
    MaxCrash = 2
    TornCrash = FALSE
    Top = Top
    Absent = Absent
    Empty = Empty
    Garbage = Garbage
SYMMETRY MCSymmetry
SPECIFICATION Spec
INVARIANTS TypeOK WalkFollowsChain WalkFinds ChainWhole PointerNeedsDir
PROPERTY ImplementsList
