\* The process dies between any two steps and is started again, or a system call fails.
SPECIFICATION FairSpec
CONSTANTS
    Thread = {t1}
    Reader = {}
    NoThread = NoThread
    Value = {0, 1}
    Zero = 0
    Quiet = TRUE
    MaxSize = 1
    MaxSnap = 2
    MaxRemove = 0
    MaxCrash = 1
    MaxError = 1
INVARIANTS IntactDespiteFaults SavedDespiteFaults
PROPERTIES SavedForever RequestsEnd
