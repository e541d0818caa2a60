CONSTANTS
    Publish = {p}
    Checkout = {c}
    Artifact = {1}
    Message = {1}
    Files = 2
    MaxVersion = 2
    MaxSandbox = 1
    MaxFaults = 1
    MaxCrashes = 2
    Inputs = {"capture_first", "end"}
SPECIFICATION FairSpec
CHECK_DEADLOCK FALSE
INVARIANTS FileInvariant StableCopyIsKept AllOrNothing
PROPERTIES OperationsEnd
