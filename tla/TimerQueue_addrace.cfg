CONSTANTS
    Threads = {t1}
    Addrs = {1, 2}
    Intervals = {0, 1}
    MaxTime = 2
    MaxSeq = 2
    ClockSteps = 0
    Null = null
SPECIFICATION Spec
CHECK_DEADLOCK FALSE
INVARIANT AddTimerReadsItsTimer
