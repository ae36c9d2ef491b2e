CONSTANTS
    c1 = c1
    c2 = c2
    c3 = c3
    Callers = {c1, c2, c3}
    NoOne = NoOne
    MaxInodes = 4
SPECIFICATION LockSpec
SYMMETRY Symmetric
INVARIANTS
    HeldIsNamed
    NeverFreshAndFree
