CONSTANTS
    ToolCall = {0, 1}
    MaxFrames = 4
SPECIFICATION Spec
INVARIANT EndsAsItsPortSays
CHECK_DEADLOCK FALSE
