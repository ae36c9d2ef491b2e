CONSTANTS
    t1 = t1
    t2 = t2
    t3 = t3
    p1 = p1
    p2 = p2
    Threads = {t1, t2, t3}
    Processes = {p1, p2}
    ProcessOf <- const_ProcessOf
    None = None
    MaxNumber = 2
    MaxDirectories = 3
    Attempts = 2
SPECIFICATION Spec
INVARIANTS
    IdentitiesAreKept
