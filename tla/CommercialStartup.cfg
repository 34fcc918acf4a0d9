\* The worker and the plan of the process start write concurrently and share a change id.
SPECIFICATION FairWorker
CONSTANTS
    j1 = j1
    j2 = j2
    j3 = j3
    p1 = p1
    p2 = p2
    p3 = p3
    p4 = p4
    c1 = c1
    c2 = c2
    c3 = c3
    None = None
    Jobs = {j1, j2, j3}
    Plans = {p1, p2, p3, p4}
    Changes = {c1, c2}
    PlanOf <- OneAndRefused
    Actions <- SharedChange
    DependsOn <- AllIndependent
    StartupPlan = p3
    Unauthorised = {}
    Outliving = {j1}
    Refused = {p2}
    Unbound = {p4}
    LegacyPlans = {}
    MaxAttempts = 2
    MaxSubmits = 1
    MaxCrashes = 1
    MaxCorrupt = 0
INVARIANTS
    VerifiedPrefix
PROPERTIES
    LedgerSpec
    HangsOnlyInUnboundedCall
CHECK_DEADLOCK FALSE
