CONSTANTS
    None = None
    Partial = Partial
    Workspace = {w}
    Ephemeral = {}
    Sandbox = {s1, s2}
    Revision = {0, 1, 2, Partial}
    Client = {c}
    MaxWrites = 2
    MaxCrashes = 1
    Inputs = {"terminate", "retention", "restore"}
SPECIFICATION Spec
ACTION_CONSTRAINT CleanupAvoidsCreations
SYMMETRY Symmetry
INVARIANTS LatestIsKept WorkerSeesLatest
