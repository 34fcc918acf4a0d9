SPECIFICATION Spec
CONSTANTS
    time1 = time1
    time2 = time2
    nonce1 = nonce1
    nonce2 = nonce2
    flow1 = flow1
    flow2 = flow2
    read1 = read1
    read2 = read2
    slot1 = slot1
    slot2 = slot2
    slot3 = slot3
    call1 = call1
    call2 = call2
    objective = objective
    run1 = run1
    run2 = run2
    Requests = {request1, request2}
    Seeded = {request1}
    IssueTimes = {time1, time2}
    Nonces = {nonce1, nonce2}
    Outcomes = {done}
    Objectives = {goal}
    Deploys = 2
    MaxEnvelopes = 2
    Flows = {flow1, flow2}
    MaxPairs = 3
    Reads = {read1, read2}
    MaxReads = 1
    Slots = {slot1, slot2, slot3}
    LocalTime <- AutumnTimes
    LastMinute = 4
    MaxRecovery = 2
    MaxUnsaved = 1
    Calls = {call1, call2}
    ObjectiveOf <- OneObjective
    Attempt <- OwnRuns
    LastHour = 2
    MaxSchedules = 2
    MaxPublishCalls = 2
    testA = testA
    testB = testB
    testC = testC
    testD = testD
    metaA = metaA
    metaB = metaB
    Tests = {testA, testB, testC, testD}
    TestInput <- SomeTests
    Policy <- TwoAtATime
    MetaTests = {metaA, metaB}
    MaxThrows = 1
INVARIANTS
    StoresIInv
    OneTaskOneResult
    OnePairPerFamily
    TakenOnce
    ScheduledOncePublishedOnce
    ExperimentsCaged
SYMMETRY Alike
CHECK_DEADLOCK FALSE
