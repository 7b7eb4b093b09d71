SPECIFICATION FairSpec
CONSTANTS
    c1 = c1
    c2 = c2
    c3 = c3
    u = u
    x = x
    y = y
    s1 = s1
    s2 = s2
    s3 = s3
    su = su
    Callers = {c1, c2, c3, u}
    Ids = {x, y}
    IdOf <- MCIdOf
    Uncached = {u}
    Stores = {s1, s2, s3, su}
    StoreOf <- OwnStores
    MaxAgents = 1
    None = None
INVARIANTS
    TypeOK
    
    WritesUnderLease
PROPERTIES
    SessionComesFree
CHECK_DEADLOCK FALSE
