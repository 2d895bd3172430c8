SPECIFICATION Spec
CONSTANTS
    Actors = {a1, a2}
    Tokens = {k1, k2}
    Tools = {t1, t2}
    Callers = {c1, c2}
    None = None
    RefreshTTL = 1
    Grace = 3
    Patience = 1
    MaxKills = 2
SYMMETRY Symmetric
INVARIANTS
    StalenessIsBounded
    ShownIsListed
CHECK_DEADLOCK FALSE
