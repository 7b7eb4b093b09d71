SPECIFICATION Spec
CONSTANTS
    k1 = k1
    k2 = k2
    Entries <- TwoKeys
    NoKey = NoKey
    Clients = {c1, c2}
    Cancellers = {c1}
    Strategies = {"round_robin", "any"}
    Cooldown = 2
    Hints = {1}
    MaxWait = 1
    MaxTimeouts = 2
    BreakerRest = 1
    MaxAttempts = 2
INVARIANTS
    TypeOK
    NoKeyIsPassedTwice
PROPERTIES
    ExhaustedMeansResting
    
