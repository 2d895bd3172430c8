SPECIFICATION FairSpec
CONSTANTS
    NoFile = NoFile
    MaxRows = 2
    MaxAttempts = 2
    FaultKinds = {"unreadable", "disk", "relay", "bridge", "redis", "brain", "net", "protocol", "link", "state"}
    MaxFaults = 2
INVARIANTS
    NothingSkipped
    DuplicatesAreBounded
    EventsAreAccountedFor
    OneDraftPerEvent
PROPERTIES
    MessageReachesBus
    EventSettles
CHECK_DEADLOCK FALSE
