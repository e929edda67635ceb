SPECIFICATION ToldSpec
CONSTANTS
    Keys <- MCKeys
    Absent = Absent
    Gateways = {g1}
    SourceMaps = {m1}
    Specs <- Plain
    Panicking = {}
    Data = {d1}
    Leader = leader
    MaxMaps = 2
    UserActions = {"create", "edit"}
    MaxUser = 2
    MaxFaults = 0
    Patient = FALSE
    Prompt = FALSE
    g1 = g1
    g2 = g2
    m1 = m1
    o1 = o1
    o2 = o2
    l1 = l1
    l2 = l2
    l3 = l3
    d1 = d1
    d2 = d2
    leader = leader
INVARIANT NeverForgotten
CHECK_DEADLOCK FALSE
