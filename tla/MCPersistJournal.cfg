SPECIFICATION Spec
CONSTANTS
    Threads = {t1, t2}
    Databases = {d1, d2}
    NoThread = NoThread
    NoFile = NoFile
    Torn = Torn
    HasDbFile = TRUE
    MaxOps = 2
    MaxCrashes = 2
INVARIANTS
    NoDoubleApply
    AckedDurable
    RecoveryInOrder
    SnapshotNeverLost
    JournalProtocol
PROPERTIES
    CleanStopSavesAll
    DurabilityIsMonotonic
