SPECIFICATION Spec
CONSTANTS
    Mids = {m1, m2}
    NoId = noid
    Accounts = {a1}
    Configured = {a1}
    Recipients = {r1}
    Jobs = {}
    Workers = {}
    None = None
    Limit = 1
    MaxUids = 3
    MaxFaults = 1
INVARIANT
    DetailBelongs
CHECK_DEADLOCK FALSE
