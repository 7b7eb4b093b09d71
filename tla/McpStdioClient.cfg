SPECIFICATION Spec
CONSTANTS
    Callers = {c1, c2}
    Turns = {t1}
    Cycle = Cycle
    Children = {p1, p2, p3}
    NoChild = NoChild
    Stillborn = Stillborn
    MaxReconnectAttempts = 2
INVARIANTS
    TypeOK
    ServerAccountedFor
PROPERTIES
    SuccessorsSurvive
    EveryCallSettles
