SPECIFICATION FairTreeSpec
CONSTANTS
    Files <- MCFiles
    Script <- MCScript
    MaxKills = 3
    Probed = {"keychain", "apple_bridge", "openrouter"}
    Critical = {"keychain", "apple_bridge"}
    NoClient = NoClient
    MaxVersions = 2
    MaxIllness = 2
INVARIANTS
    SchemaIsComplete
    BusLossIsExplained
    HealthIsTrue
PROPERTIES
    TreeComesUp
CHECK_DEADLOCK FALSE
