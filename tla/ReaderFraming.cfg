\* Frames of every class split arbitrarily by receive_data.
CONSTANTS
    BufferSize = 10
    FrameSizes <- MCFrameSizes
    Bytes2 <- MCBytes2
    MaxFrames = 2
    HoldTag = 15
    ReplyTag = 17
    ErrorTag = 18
    MagicHi = 240
    \* 2^32 - 1 exceeds TLC integers; any value above 65535 behaves alike
    UIntMax = 2147483640
SPECIFICATION Spec
INVARIANT TypeOK
INVARIANT BufferBound
INVARIANT FrameIntegrity
INVARIANT OversizeRejectedUnread
\* The stream is finite: the reader stops when it is consumed or failed.
CHECK_DEADLOCK FALSE
