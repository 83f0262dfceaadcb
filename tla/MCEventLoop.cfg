\* Two workers; fairness of the scheduler.
CONSTANTS
    Workers = {w1, w2}
    Main = w1
    Poll = poll
    Repeat = repeat
    Signal = signal
    MaxRequests = 2
    MaxSignals = 1
    MaxQueue = 1
SPECIFICATION FairSpec
INVARIANTS HandshakeInv NoLostWakeup CleanExit
PROPERTIES RequestsServed ExitsUnlessHandshake
CHECK_DEADLOCK FALSE
