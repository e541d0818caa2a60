CONSTANTS
    None = None
    Response = {r1, r2}
    MaxExecutions = 2
    MaxFaults = 1
    Inputs = {"cancel", "delete", "disconnect"}
SPECIFICATION FairSpec
CHECK_DEADLOCK FALSE
INVARIANTS AdapterInvariant TurnFollowsPrevious StreamIsWhole
PROPERTIES ExecutionsEnd
