CONSTANTS
    None = None
    Candidate = {a}
    RetryLimit = 2
    MaxTargets = 2
    MaxFaults = 2
    MaxCrashes = 1
    Inputs = {"turn", "click", "event_error", "bind_error", "adapter_restart", "sandbox_end", "delete"}
SPECIFICATION FairSpec
CHECK_DEADLOCK FALSE
INVARIANTS BarrierHolds
PROPERTIES IntentsEnd
