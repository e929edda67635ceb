SPECIFICATION Spec
CONSTANTS
    Lists <- ThreeSources
    Sidecars <- NoSidecars
    MergeBelow <- MergeTrees
    KeysBelow <- KeysOfTree
    Nil = Nil
    NoKey = NoKey
    Endpoint = Endpoint
    Client = Client
    x = x
    y = y
    idp = idp
INVARIANT MergesWhatSourcesSay
CHECK_DEADLOCK FALSE
