\* A server connects and does not list its tools, and no other does.
SPECIFICATION Spec
CONSTANTS
    s1 = s1
    s2 = s2
    t1 = t1
    t2 = t2
    n11 = n11
    n12 = n12
    n22 = n22
    Servers = {s1, s2}
    Tools = {t1, t2}
    McpNames = {n11, n12, n22}
    FullName <- OneShared
    Narrowings <- Flagged
INVARIANTS
    NeverToolless
CHECK_DEADLOCK FALSE
