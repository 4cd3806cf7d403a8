CONSTANTS
    kCheapPrepend = 2
    kInitialSize = 2
    extrabuf = 2
    Base = 2
    CR = 0
    LF = 1
    Widths = {1, 2}
    MaxLen = 2
    MaxSize = 6
    rollSize = 2
    flushInterval = 1
    checkEveryN = 2
    kRollPerSeconds = 4
    Sizes = {1, 3}
    MaxAppends = 4
    MaxTime = 4
    SIZE = 26
    kMaxNumericSize = 12
    MaxPieces = 4
    kBufferSize = 3
    MaxFile = 7
SPECIFICATION MCSpec
VIEW View
CHECK_DEADLOCK FALSE
INVARIANTS BufferAsserts IntegersSurvive LogKept RolledInTime TextRight ReadsWhole
PROPERTIES IsByteQueue SpaceManaged
