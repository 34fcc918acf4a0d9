\* A job that waits for another one, with crashes and expiring grants, under fair timers alone.
SPECIFICATION FairQueue
CONSTANTS
    j1 = j1
    j2 = j2
    j3 = j3
    p1 = p1
    p2 = p2
    p3 = p3
    p4 = p4
    c1 = c1
    c2 = c2
    c3 = c3
    None = None
    Jobs = {j1, j2}
    Plans = {p1, p2}
    Changes = {c1, c2, c3}
    PlanOf <- ChainPlanOf
    Actions <- ChainActions
    DependsOn <- SecondAfterFirst
    StartupPlan = None
    Unauthorised = {}
    Outliving = {j1}
    Refused = {}
    Unbound = {}
    LegacyPlans = {}
    MaxAttempts = 1
    MaxSubmits = 2
    MaxCrashes = 1
    MaxCorrupt = 0
INVARIANTS
    DoneIsLive
    DependencyInEffect
PROPERTIES
    HandoffSettled
CHECK_DEADLOCK FALSE
