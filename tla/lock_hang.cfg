\* Two threads that want the same lock, and more slots than labels.
SPECIFICATION FairSpec
CONSTANTS
    t1 = t1
    t2 = t2
    Thread = {t1, t2}
    Label = {1}
    LockNum = 2
    WantMod = 4
    NoThread = NoThread
PROPERTY LockGranted
CHECK_DEADLOCK FALSE
