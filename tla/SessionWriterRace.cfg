SPECIFICATION Spec
CONSTANTS
    p1 = p1
    p2 = p2
    p3 = p3
    home = home
    away = away
    Procs = {p1, p2, p3}
    HostOf <- MCHostOf
    Window = 1
INVARIANTS
    Exclusive
CHECK_DEADLOCK FALSE
