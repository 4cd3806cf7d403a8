CONSTANTS
    BufferLines = 2
    MaxBuffers = 3
    MaxLines = 7
    Null = Null
CHECK_DEADLOCK FALSE
SPECIFICATION FairSpec
INVARIANTS AssertsHold FullBufferNotifies LinesAccounted
PROPERTY LogServed
