CONSTANTS
    None = None
    Partial = Partial
    Workspace = {w}
    Ephemeral = {}
    Sandbox = {s1}
    Revision = {0, Partial}
    Client = {c}
    MaxWrites = 0
    MaxCrashes = 1
    Inputs = {"release", "grace", "retention", "restore"}
SPECIFICATION OneUseSpec
PROPERTIES DirtyIsSaved DueIsRetired OperationsEnd
