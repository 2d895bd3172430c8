SPECIFICATION FairSpec
CONSTANTS
    Drafts = {d1}
    EmailDrafts = {}
    Bodies = {empty, b1}
    EmptyBody = empty
    Mids = {m1, m2}
    Patchers = {p1}
    None = None
    MaxAttempts = 2
    FaultKinds = {"bridge", "redis", "link", "relay", "net", "protocol", "sqlite"}
    RedisTries = 2
    MaxFaults = 2
INVARIANTS
    AtMostOncePerDispatch
    ApprovedIsAccountedFor
PROPERTIES
    ImplementsLifecycle
    ApprovedSettles
CHECK_DEADLOCK FALSE
