SPECIFICATION FairSpec
CONSTANTS
    Keys = {secret}
    Secret = secret
    Absent = Absent
    Worker = worker
    Handlers = {h1, h2}
    Contents <- Kinds
    MaxCalls = 3
    MaxClients = 3
    MaxEdits = 3
    MaxFaults = 1
    Prompt = FALSE
INVARIANT TypeOK
PROPERTIES StoredClientStays ImplementsCredentials TakenOutStaysOut CredentialsArrive
CHECK_DEADLOCK FALSE
