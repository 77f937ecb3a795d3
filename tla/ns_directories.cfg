\* One thread removes a directory after a snapshot was taken.
SPECIFICATION Spec
CONSTANTS
    t1 = t1
    t2 = t2
    d = d
    f = f
    g = g
    Thread = {t1}
    Path <- Paths
    FilePath <- Files
    DirPath <- Dirs
    Attr = {0, 1}
    NewAttr = {1}
    RWXU = 0
    MaxSnap = 1
    MaxRemove = 0
    MaxRequest = 1
    MaxEarly = 0
INVARIANT DirectoriesKept
CHECK_DEADLOCK FALSE
