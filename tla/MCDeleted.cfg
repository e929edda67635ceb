SPECIFICATION FairSpec
CONSTANTS
    Keys <- MCKeys
    Absent = Absent
    Gateways = {g1}
    SourceMaps = {m1}
    Specs <- Edited
    Panicking = {l3}
    Data = {d1}
    Leader = leader
    MaxMaps = 2
    UserActions = {"create", "edit", "mixedEdit", "delete", "deleteMap", "restart", "resync"}
    MaxUser = 3
    MaxFaults = 1
    Patient = FALSE
    Prompt = FALSE
    g1 = g1
    g2 = g2
    m1 = m1
    o1 = o1
    o2 = o2
    l1 = l1
    l2 = l2
    l3 = l3
    d1 = d1
    d2 = d2
    leader = leader
PROPERTY DeletedGatewayLeavesNothing
CHECK_DEADLOCK FALSE
