SPECIFICATION Spec
CONSTANTS
    Keys <- MCKeys
    Absent = Absent
    Unset = Unset
    Apps = {a1, a2}
    Slots = {r1, r2}
    Asks <- Mixed
    MaxNames = 5
    MaxRequests = 4
    MaxFaults = 0
    UserActions = {"create", "update", "touch", "delete"}
    Prompt = TRUE
    a1 = a1
    a2 = a2
    r1 = r1
    r2 = r2
    i1 = i1
    i2 = i2
    e1 = e1
    p1 = p1
    p2 = p2
CONSTRAINT OneAtATime
SYMMETRY Alike
INVARIANTS ServiceAsAsked ConfigAsAsked
CHECK_DEADLOCK FALSE
