SPECIFICATION Spec
CONSTANTS
    Tools = {a, b}
    NoTool = NoTool
    MaxCalls = 2
    Iterations = 1
    Nudges = 1
    Feedbacks = 1
    ErrorCap = 2
    SoftAt = 2
    HardAt = 3
    Servers = 1
INVARIANTS
    TypeOK
    EveryCallAnswered
    StreamIsExact
    
PROPERTIES
    RunUnwinds
CHECK_DEADLOCK FALSE
