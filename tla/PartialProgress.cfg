\* A comment of processJob against the runner's failed result.
SPECIFICATION Spec
CONSTANTS
    j1 = j1
    j2 = j2
    j3 = j3
    p1 = p1
    p2 = p2
    p3 = p3
    p4 = p4
    c1 = c1
    c2 = c2
    c3 = c3
    None = None
    Jobs = {j1}
    Plans = {p1}
    Changes = {c1, c2}
    PlanOf <- OnePlanOf
    Actions <- TwoChanges
    DependsOn <- Alone
    StartupPlan = None
    Unauthorised = {}
    Outliving = {}
    Refused = {}
    Unbound = {}
    LegacyPlans = {}
    MaxAttempts = 2
    MaxSubmits = 1
    MaxCrashes = 1
    MaxCorrupt = 0
INVARIANTS
    PartialProgressReported
CHECK_DEADLOCK FALSE
