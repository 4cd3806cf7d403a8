CONSTANTS
    Functors = {f1, f2}
    Threads = {main, user}
    Channels = {c1}
    Wakeup = wakeup
    NoFunctor = none
    MaxCount = 2
    Owner = main
SPECIFICATION FairThreadSpec
CHECK_DEADLOCK FALSE
INVARIANTS DanglesOnlyInQuit NoThreadLeftLooping
PROPERTY JoinReturnsOnceLooping
