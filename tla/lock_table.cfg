\* Three threads, two labels with MOD mutexes of their own, two slots: one thread can meet
\* the middle of a handover between the other two.  want wraps around at 2.
SPECIFICATION Spec
CONSTANTS
    Thread = {t1, t2, t3}
    t1 = t1
    t2 = t2
    t3 = t3
    Label = {1, 2}
    LockNum = 2
    WantMod = 2
    NoThread = NoThread
SYMMETRY MCSymmetry
INVARIANTS TypeOK MutualExclusion LabelsUnique
PROPERTIES LabelledUnderMutexes ImplementsLockSpec
CHECK_DEADLOCK FALSE
