SPECIFICATION Spec
CONSTANTS
    Lists <- Keyless
    Sidecars <- NoSidecars
    MergeBelow <- MergeTrees
    KeysBelow <- KeysOfTree
    Nil = Nil
    NoKey = NoKey
    Endpoint = Endpoint
    Client = Client
    x = x
    y = y
    idp = idp
INVARIANT NoKeyMissing
CHECK_DEADLOCK FALSE
