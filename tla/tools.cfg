\* Two servers of two tools, one full name in common, every narrowing by flags.
SPECIFICATION Spec
CONSTANTS
    s1 = s1
    s2 = s2
    t1 = t1
    t2 = t2
    n11 = n11
    n12 = n12
    n22 = n22
    Servers = {s1, s2}
    Tools = {t1, t2}
    McpNames = {n11, n12, n22}
    FullName <- OneShared
    Narrowings <- Flagged
INVARIANTS
    TypeOK
    RoutesLive
    RanAsAllowed
    OffersAnswered
    OffersReachOwner
    NoneLeftOpen
CHECK_DEADLOCK FALSE
