SPECIFICATION Spec
CONSTANTS
    Keys <- MCKeys
    Absent = Absent
    Unset = Unset
    Apps = {a1}
    Slots = {r1}
    Asks <- Simple
    MaxNames = 2
    MaxRequests = 1
    MaxFaults = 0
    UserActions = {"dryRun"}
    Prompt = TRUE
    a1 = a1
    a2 = a2
    r1 = r1
    r2 = r2
    i1 = i1
    i2 = i2
    e1 = e1
    p1 = p1
    p2 = p2
PROPERTY DryRunChangesNothing
CHECK_DEADLOCK FALSE
