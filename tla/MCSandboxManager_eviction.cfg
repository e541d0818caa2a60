CONSTANTS
    None = None
    Partial = Partial
    Workspace = {w}
    Ephemeral = {}
    Sandbox = {s1, s2}
    Revision = {0, 1, Partial}
    Client = {c}
    MaxWrites = 1
    MaxCrashes = 0
    Inputs = {"terminate", "retention"}
SPECIFICATION Spec
SYMMETRY Symmetry
PROPERTIES OnlyCopyIsKept
