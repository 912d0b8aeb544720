SPECIFICATION Spec
CONSTANTS
    MSG_QUEUE_MAX = 3
    MISS_LIMIT <- MCShortMissLimit
    Msgs = {key, other}
    Repeating = {key}
    Indexes <- MCIndexes
    NullMsg = NullMsg
    MaxPosts = 4
INVARIANTS TypeOK AtMostOnce BoundedDelay
PROPERTIES LostOnlyByLapping ImplementsMailbox
