CONSTANTS
    MaxSize = 4
    BufferSize = 3
    SizeofN = 2
    MaxReads = 3
    BlockingThreshold = 2
    IntHalf = 3
    nonBlockingSocket = TRUE
    Data <- MCData
SPECIFICATION TransferSpec
INVARIANTS
    ChunkedChecksum
    NextByteChecksum
PROPERTIES
    WriteCountExact
    ReadKeepsBytes
    LargeWriteIsWhole
    CountNeverOverstates
