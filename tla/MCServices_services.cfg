CONSTANTS
    Grant <- Issued
    Request = {p, q, r}
    Skew = 1
    MaxLifetime = 3
    MaxTime = 4
    MaxCrashes = 1
    None = None
    NoItem = NoItem
    Ticket <- Contending
    art = art
    x = x
    y = y
    m = m
    n = n
    Nothing = Nothing
    Artifact = {art}
    Bytes = {x, y}
    Meta = {m, n}
    Transfer = {t, u, v}
    MaxFaults = 2
    Call = {c, d}
    AppCall = {c}
    Message = {msg, reply}
    Word = {hello, world}
    MaxWords = 1
    Faults = {"deadline", "cancel"}
SYMMETRY Alike
SPECIFICATION ServicesSpec
CHECK_DEADLOCK FALSE
INVARIANTS OnceBeforeExpiry StoreInvariant BuilderInvariant StreamTellsRecord
PROPERTIES ImplementsMap
