\* The process may also end between open(O_TRUNC) and pwrite of snapshots/.hid.
CONSTANTS
    Id = {s1, s2, s3}
    MaxSnapshots = 3
    MaxCreate = 4
    MaxError = 0
    MaxCrash = 1
    TornCrash = TRUE
    Top = Top
    Absent = Absent
    Empty = Empty
    Garbage = Garbage
SYMMETRY MCSymmetry
SPECIFICATION Spec
INVARIANT LatestPointer
CHECK_DEADLOCK FALSE
