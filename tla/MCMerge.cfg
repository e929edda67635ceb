SPECIFICATION Spec
CONSTANTS
    Lists <- AllLists
    Sidecars <- AllSidecars
    MergeBelow <- MergeTrees
    KeysBelow <- KeysOfTree
    Nil = Nil
    NoKey = NoKey
    Endpoint = Endpoint
    Client = Client
    x = x
    y = y
    idp = idp
INVARIANTS MergesWhatSourcesSay RegisteredClientWins LastSourceWins HighestOrderWins
INVARIANT TopLevelKept
CHECK_DEADLOCK FALSE
