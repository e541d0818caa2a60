CONSTANTS
    None = None
    Request = {r}
    Elicitation = {r}
    Rpc = {c}
    MaxHistory = 2
    MaxSent = 2
    MaxDrops = 1
    Faults = {"exit", "close", "lease", "deadline", "long_line", "timeout", "lost_reply"}
SPECIFICATION FairSpec
CHECK_DEADLOCK FALSE
INVARIANTS StreamInvariant
PROPERTIES ImplementsSequence RequestsAreAnswered TurnEnds RpcFailsWithProcess
