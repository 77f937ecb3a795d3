\* A snapshot is created while a truncation is being served.
SPECIFICATION Spec
CONSTANTS
    Thread = {t1}
    Reader = {}
    NoThread = NoThread
    Value = {0, 1}
    Zero = 0
    Quiet = FALSE
    MaxSize = 1
    MaxSnap = 1
    MaxRemove = 0
    MaxCrash = 0
    MaxError = 0
INVARIANT SavedBeforeChange
