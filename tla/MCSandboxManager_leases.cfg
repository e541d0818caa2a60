CONSTANTS
    None = None
    Partial = Partial
    Workspace = {e, f}
    Ephemeral = {e, f}
    Sandbox = {s1, s2}
    Revision = {0, Partial}
    Client = {c}
    MaxWrites = 0
    MaxCrashes = 1
    Inputs = {"lease"}
SPECIFICATION FairSpec
PROPERTIES UnusedEphemeralIsRemoved ExpiredIsReaped
