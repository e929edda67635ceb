SPECIFICATION Spec
CONSTANTS
    Lists <- OneProvider
    Sidecars <- NoSidecars
    MergeBelow <- MergeTrees
    KeysBelow <- KeysOfTree
    Nil = Nil
    NoKey = NoKey
    Endpoint = Endpoint
    Client = Client
    x = x
    y = y
    idp = idp
INVARIANT OnlyOidcProvider
CHECK_DEADLOCK FALSE
