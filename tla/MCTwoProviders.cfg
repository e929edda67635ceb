SPECIFICATION Spec
CONSTANTS
    Lists <- TwoProviders
    Sidecars <- NoSidecars
    MergeBelow <- MergeTrees
    KeysBelow <- KeysOfTree
    Nil = Nil
    NoKey = NoKey
    Endpoint = Endpoint
    Client = Client
    x = x
    y = y
    idp = idp
INVARIANT OidcSettingsStay
CHECK_DEADLOCK FALSE
