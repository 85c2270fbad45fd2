SPECIFICATION FairSpec
CONSTANTS
    Providers = {"google", "azure"}
    Backends = {"google"}
    Default = "google"
    None = "none"
    Rules <- MCRules
    Languages = {"coded"}
    TTL = 1
    Day = 3
    MaxWork = 1
    MaxChanges = 1
    MaxFaults = 1
INVARIANTS  DownIsEarned
PROPERTY FailsOver
