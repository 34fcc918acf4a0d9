\* A planned cycle of two stages under two processes that overlap: lapsed leases, a death, a lost answer, an operator.
SPECIFICATION Spec
CONSTANTS
    o1 = o1
    o2 = o2
    plan0 = plan0
    read = read
    plan1 = plan1
    propose = propose
    a = a
    b = b
    h = h
    w1 = w1
    w2 = w2
    None = None
    Ids = {o1}
    Tasks = {plan0, read, plan1, propose}
    Workers = {w1, w2}
    Template <- Cycle
    DependsOn <- Dependencies
    Key <- OwnKey
    Stages <- TwoStages
    PlannerAfter <- PlannerBehind
    Planners = {plan0, plan1}
    Human = {}
    MaxAttempts = 2
    MaxCrashes = 1
    MaxSlow = 1
    MaxBusy = 1
    MaxResumes = 1
    MaxSwitches = 0
INVARIANTS
    IInv
    DependenciesHeld
    DoneObjectiveComplete
    LeaseExcludes
    AttemptsExplained
PROPERTIES
    DoneIsFinal
SYMMETRY EitherWorker
CHECK_DEADLOCK FALSE
