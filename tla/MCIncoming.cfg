SPECIFICATION IncomingSpec
CONSTANTS
    MessageMax = 3
    MaxTagLength = 2
    MaxReadPerMessage = 4
    BufferSize = 3
    NoBatch = NoBatch
    Rate = 2
    Burst = 3
    Points = {1, 2, 5}
    Word = 16
    MaxIdle = 3
    Streams <- MCStreams
    MaxReplies = 3
CHECK_DEADLOCK FALSE
INVARIANTS
    ReaderBounded
    LinesHandledInOrder
    RefusedForCause
    LabelledResponse
    RateBounded
PROPERTIES
    InputConsumed
