SPECIFICATION Spec
CONSTANTS
    Drafts = {d1}
    EmailDrafts = {}
    Bodies = {empty, b1}
    EmptyBody = empty
    Mids = {m1, m2}
    Patchers = {p1}
    None = None
    MaxAttempts = 2
    FaultKinds = {}
    RedisTries = 2
    MaxFaults = 1
PROPERTIES
    ReapprovalIsQuiet
CHECK_DEADLOCK FALSE
