SPECIFICATION Spec
CONSTANTS
    Mids = {m1, m2, m3}
    NoId = noid
    Accounts = {a1, a2}
    Configured = {a1}
    Recipients = {r1, r2}
    Jobs = {j1}
    Workers = {w1, w2}
    None = None
    Limit = 1
    MaxUids = 3
    MaxFaults = 2
SYMMETRY Symmetry
INVARIANTS
    ListIsFaithful
    DetailIsThread
    CopiesAreConfirmed
CHECK_DEADLOCK FALSE
