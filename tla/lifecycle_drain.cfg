CONSTANTS
    Servers = 2
    SSEServer = {2}
    Tool = {echo, x}
    LocalTool = {echo}
    Request = {r1, r2}
    Absent = Absent
    Local = Local
    NoTool = NoTool
    Main = Main
    MaxID = 5
    MaxMessages = 2
SPECIFICATION Spec
INVARIANT ShutdownDrains
CHECK_DEADLOCK FALSE
