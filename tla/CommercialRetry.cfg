\* One plan handed off twice, under the same or another id: retries, crashes, damaged files.
SPECIFICATION Spec
CONSTANTS
    j1 = j1
    j2 = j2
    j3 = j3
    p1 = p1
    p2 = p2
    p3 = p3
    p4 = p4
    c1 = c1
    c2 = c2
    c3 = c3
    None = None
    Jobs = {j1, j2}
    Plans = {p1}
    Changes = {c1, c2}
    PlanOf <- SamePlanOf
    Actions <- TwoChanges
    DependsOn <- Independent
    StartupPlan = None
    Unauthorised = {}
    Outliving = {}
    Refused = {}
    Unbound = {}
    LegacyPlans = {p1}
    MaxAttempts = 2
    MaxSubmits = 2
    MaxCrashes = 1
    MaxCorrupt = 1
INVARIANTS
    IInv
    AtMostOneWrite
    NoHiddenWrite
    ArchivedHasResult
    GuardsPartOnLegacy
PROPERTIES
    FailedSafeIsSafe
CHECK_DEADLOCK FALSE
