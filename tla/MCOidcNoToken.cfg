SPECIFICATION Spec
CONSTANTS
    Keys = {secret}
    Secret = secret
    Absent = Absent
    Worker = worker
    Handlers = {}
    Contents <- Token
    MaxCalls = 1
    MaxClients = 2
    MaxEdits = 1
    MaxFaults = 1
    Prompt = TRUE
INVARIANT AuthorizedAsGiven
CHECK_DEADLOCK FALSE
