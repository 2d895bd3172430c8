SPECIFICATION CallsSpec
CONSTANTS
    Keys = {k1, k2}
    Bodies = {"create", "append", "complete"}
    Requests = {q1, q2}
    Runs = {x1, x2, x3}
    None = None
    TTL = 1
    MaxFaults = 1
    Scopes = {"vault", "llm"}
    Unit = 3
    Burst = 1
    Refill = 2
    Slack = 1
    MaxJump = 1
    NoBucket = NoBucket
    Callers = {c1, c2}
    MaxRetries = 2
    RetryCap = 30
    MaxCalls = 2
    MaxUpsets = 1
SYMMETRY Symmetric
INVARIANTS
    AnswersAreHonest
    SecondRunHasExcuse
    BudgetHolds
    CallRunsOnce
    BilledIsRecorded
CHECK_DEADLOCK FALSE
