CONSTANTS
    ServerTool = {"srv", "cli"}
    ClientTool = {"cli"}
    Batches <- MCBatches
    Orders <- MCOrders
    Clients = {"openai", "anthropic"}
    MaxIterations = 2
    MaxTurns = 3
    MaxCalls = 4
SPECIFICATION Spec
INVARIANT ResultsLinkToTheirCalls
CHECK_DEADLOCK FALSE
