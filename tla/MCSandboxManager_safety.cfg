CONSTANTS
    None = None
    Partial = Partial
    Workspace = {w}
    Ephemeral = {}
    Sandbox = {s1, s2}
    Revision = {0, 1, Partial}
    Client = {c}
    MaxWrites = 1
    MaxCrashes = 1
    Inputs = {"lease", "terminate", "renew", "worker dies", "release", "grace", "checkpoint"}
SPECIFICATION Spec
SYMMETRY Symmetry
INVARIANTS Consistent SingleWriter ContainersAreActive StorageStepsAreQuiescent HeadIsStored DirtyIsNotReportedSaved
PROPERTIES ImplementsStore DeletingIsFinal
