SPECIFICATION CliSpec
CONSTANTS
    Drafts = {d1}
    EmailDrafts = {}
    Bodies = {empty, b1}
    EmptyBody = empty
    Mids = {m1, m2, m3}
    Patchers = {p1, p2}
    None = None
    MaxAttempts = 2
    FaultKinds = {"bridge", "redis", "link", "relay", "net", "protocol", "sqlite"}
    RedisTries = 2
    MaxFaults = 1
    Operators = {o1, o2}
    ListLimit = 1
    MaxCommands = 2
    MaxCutOffs = 1
SYMMETRY Symmetry
INVARIANTS
    SentMeansDelivered
    ApprovedBodyIsDispatched
    OneMessagePerCommand
    ExitIsTruthful
PROPERTIES
    ReleasedAsShown
CHECK_DEADLOCK FALSE
