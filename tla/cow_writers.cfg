\* Two threads change the file in parallel; its snapshot may be removed meanwhile.
SPECIFICATION Spec
CONSTANTS
    Thread = {t1, t2}
    Reader = {}
    NoThread = NoThread
    Value = {0, 1}
    Zero = 0
    Quiet = TRUE
    MaxSize = 1
    MaxSnap = 1
    MaxRemove = 1
    MaxCrash = 0
    MaxError = 0
SYMMETRY MCSymmetry
INVARIANTS TypeOK SnapshotIntact SavedOnce OldBlockThere CacheCoherent
PROPERTY SavedForever
