CONSTANTS
    ToolCall = {0, 1}
    MaxFrames = 4
SPECIFICATION Spec
INVARIANTS TypeOK FailsExactlyBeforeContent NoCallIsLost BlocksInSequence MessageEndsOnce
           ChunksAreOneMessage
CHECK_DEADLOCK FALSE
