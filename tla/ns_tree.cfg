\* Two threads and a reader, a directory with two files, two snapshots.
SPECIFICATION Spec
CONSTANTS
    t1 = t1
    t2 = t2
    d = d
    f = f
    g = g
    Thread <- Threads
    Path <- Paths
    FilePath <- Files
    DirPath <- Dirs
    Attr = {0, 1}
    NewAttr = {1}
    RWXU = 0
    MaxSnap = 2
    MaxRemove = 1
    MaxRequest = 3
    MaxEarly = 1
SYMMETRY Symmetry
INVARIANTS TypeOK AttributesIntact GetattrRight ListingRight
PROPERTY MkpathResilient
CHECK_DEADLOCK FALSE
