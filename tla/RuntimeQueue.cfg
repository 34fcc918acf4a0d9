\* Two objectives, one key, one human task and the kill switch, under fair timers and handlers that return.
SPECIFICATION FairSpec
CONSTANTS
    o1 = o1
    o2 = o2
    plan0 = plan0
    read = read
    plan1 = plan1
    propose = propose
    a = a
    b = b
    h = h
    w1 = w1
    w2 = w2
    None = None
    Ids = {o1, o2}
    Tasks = {a, b, h}
    Workers = {w1, w2}
    Template <- TwoObjectives
    DependsOn <- SecondAfterFirst
    Key <- SharedKey
    Stages <- NoStages
    PlannerAfter <- NoStages
    Planners = {}
    Human = {h}
    MaxAttempts = 2
    MaxCrashes = 1
    MaxSlow = 1
    MaxBusy = 1
    MaxResumes = 1
    MaxSwitches = 1
PROPERTIES
    QueueDrains
CHECK_DEADLOCK FALSE
