SPECIFICATION Spec
CONSTANTS
    Keys = {secret}
    Secret = secret
    Absent = Absent
    Worker = worker
    Handlers = {}
    Contents <- NoData
    MaxCalls = 1
    MaxClients = 3
    MaxEdits = 1
    MaxFaults = 0
    Prompt = TRUE
INVARIANT NoNeedlessClient
CHECK_DEADLOCK FALSE
