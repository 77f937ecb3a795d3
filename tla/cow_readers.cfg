\* The file is read in a snapshot while it is changed.
SPECIFICATION Spec
CONSTANTS
    Thread = {t1}
    Reader = {r1}
    NoThread = NoThread
    Value = {0, 1}
    Zero = 0
    Quiet = TRUE
    MaxSize = 1
    MaxSnap = 2
    MaxRemove = 0
    MaxCrash = 0
    MaxError = 0
INVARIANT ReadsSnapshot
