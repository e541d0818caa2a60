CONSTANTS
    None = None
    Candidate = {a, b}
    RetryLimit = 2
    MaxTargets = 2
    MaxFaults = 1
    MaxCrashes = 1
    Inputs = {"click", "event_error", "bind_error", "delete"}
SPECIFICATION Spec
CHECK_DEADLOCK FALSE
SYMMETRY Symmetry
INVARIANTS IntentInvariant
PROPERTIES OnlyTheBindingIsRetried
