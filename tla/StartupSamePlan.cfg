\* The plan of the process start is also in the queue.
SPECIFICATION Spec
CONSTANTS
    j1 = j1
    j2 = j2
    j3 = j3
    p1 = p1
    p2 = p2
    p3 = p3
    p4 = p4
    c1 = c1
    c2 = c2
    c3 = c3
    None = None
    Jobs = {j1}
    Plans = {p1}
    Changes = {c1}
    PlanOf <- OnePlanOf
    Actions <- OneChange
    DependsOn <- Alone
    StartupPlan = p1
    Unauthorised = {}
    Outliving = {}
    Refused = {}
    Unbound = {}
    LegacyPlans = {}
    MaxAttempts = 1
    MaxSubmits = 1
    MaxCrashes = 0
    MaxCorrupt = 0
INVARIANTS
    AtMostOneWrite
CHECK_DEADLOCK FALSE
