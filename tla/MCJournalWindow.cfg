SPECIFICATION Spec
CONSTANTS
    Threads = {t1, t2}
    Databases = {d1}
    NoThread = NoThread
    NoFile = NoFile
    Torn = Torn
    HasDbFile = TRUE
    MaxOps = 2
    MaxCrashes = 1
INVARIANT
    AckedRecoverable
