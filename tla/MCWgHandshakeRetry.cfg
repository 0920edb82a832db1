SPECIFICATION Spec
CONSTANTS
    FirstRetry = 1
    RekeyTimeout = 3
    MaxRetries = 2
    HandBackoff = 3
    FreshAfter = 1
    RekeyAfter = 4
    StaleAfter = 3
    Cooldown = 1
    KeepaliveEvery = 4
    Faults = {"relogin"}
    MaxFaults = 1
INVARIANT FirstRetryOnTime
