\* Files of two blocks and two snapshots: blocks are found in either, or in the main file.
SPECIFICATION Spec
CONSTANTS
    Thread = {t1}
    Reader = {}
    NoThread = NoThread
    Value = {0, 1}
    Zero = 0
    Quiet = TRUE
    MaxSize = 2
    MaxSnap = 2
    MaxRemove = 0
    MaxCrash = 0
    MaxError = 0
INVARIANTS SnapshotIntact ValidMeansLatest
