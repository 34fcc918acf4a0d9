\* An answer that arrives behind a blocked task of the same objective.
SPECIFICATION Spec
CONSTANTS
    o1 = o1
    o2 = o2
    plan0 = plan0
    read = read
    plan1 = plan1
    propose = propose
    a = a
    b = b
    h = h
    w1 = w1
    w2 = w2
    None = None
    Ids = {o1}
    Tasks = {a, h}
    Workers = {w1, w2}
    Template <- BlockedBeside
    DependsOn <- NoDependency
    Key <- OwnKey
    Stages <- NoStages
    PlannerAfter <- NoStages
    Planners = {}
    Human = {h}
    MaxAttempts = 2
    MaxCrashes = 0
    MaxSlow = 0
    MaxBusy = 0
    MaxResumes = 0
    MaxSwitches = 0
INVARIANTS
    BlockedIsTerminal
CHECK_DEADLOCK FALSE
