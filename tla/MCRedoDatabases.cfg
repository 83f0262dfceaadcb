CONSTANTS
    Keys = {k1}
    Values <- MCValues
    NumDatabases = 2
    MaxTime = 2
    MaxInt = 2
SPECIFICATION FairSpec
INVARIANTS ExpiryOnLiveKeys RedoRebuilds
PROPERTIES ExpiredPurged
