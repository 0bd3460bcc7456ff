CONSTANTS
    ServerTool = {"srv", "cli"}
    ClientTool = {"cli"}
    Batches <- MCBatches
    Orders <- MCOrders
    Clients = {"openai", "anthropic"}
    MaxIterations = 2
    MaxTurns = 3
    MaxCalls = 3
SPECIFICATION Spec
INVARIANTS TypeOK ToolTurnsAreWhole RunsOnceOrHandsOver WorkIsPassedOn ReasoningGoesBack AnswersAreReadAsAsked
PROPERTY EveryRequestEnds
CHECK_DEADLOCK FALSE
