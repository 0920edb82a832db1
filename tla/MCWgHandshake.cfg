SPECIFICATION Spec
CONSTANTS
    FirstRetry = 1
    RekeyTimeout = 2
    MaxRetries = 2
    HandBackoff = 3
    FreshAfter = 1
    RekeyAfter = 3
    StaleAfter = 2
    Cooldown = 0
    KeepaliveEvery = 1
    Faults = {"loss", "late", "restart", "path", "hold", "build", "advert", "ring",
              "abort", "endpoint", "relogin", "doubt"}
    MaxFaults = 1
INVARIANTS PlanExact RetryBounded
PROPERTIES InstallsLive Recovers
