CONSTANTS
    Functors = {f1, f2}
    Threads = {t1, t2}
    Channels = {c1}
    Wakeup = wakeup
    NoFunctor = none
    MaxCount = 2
SPECIFICATION FairSpec
INVARIANTS FlagsExact NothingLost
PROPERTIES IsTaskQueue RequestsServed DoPendingFunctorsReturns
