SPECIFICATION Spec
CONSTANTS
    create1 = create1
    create2 = create2
    lunch1 = lunch1
    lunch2 = lunch2
    worker1 = worker1
    worker2 = worker2
    raise1 = raise1
    raise2 = raise2
    ad1 = ad1
    ad2 = ad2
    start1 = start1
    start2 = start2
    MaxCanaryRuns = 2
    Creators = {create1, create2}
    Campaigns = {lunch1, lunch2}
    Threshold = 3
    DailyCeiling = 2
    TotalCap = 5
    LunchDays = 3
    Workers = {worker1, worker2}
    BudgetJobs = {raise1, raise2}
    AdCampaigns = {ad1, ad2}
    NewBudget <- TwoBudgets
    TrustedCampaigns = {ad1, ad2}
    BudgetCap = 3
    EditedAmounts = {1, 2}
    FirstBudgets <- OneEach
    MaxPeople = 1
    MaxRequests = 2
    StartTimes = {start1, start2}
    mutator1 = mutator1
    mutator2 = mutator2
    Mutators = {mutator1, mutator2}
    AdCampaign = ad1
    AdExperiment = raise1
    MaxMutations = 2
    CostCap = 0
    SpendPolicy <- SpendAllowed
    Authorized <- AuthorizedHere
    own = own
    foreign = foreign
    search1 = search1
    search2 = search2
    Accounts = {own, foreign}
    OwnAccount = own
    CampaignIds = {search1, search2}
    WriteGates = {"writes", "execution", "spend", "activation", "economic"}
    MutationRequests <- SomeMutations
INVARIANTS
    ProvidersIInv
    NoSilentLeftover
    RemovesItsOwn
    OneLunchActive
    LunchCapHeld
    EnabledBudgetCage
    OneRequestOpen
    StageMadeOnce
    WritesCaged
CHECK_DEADLOCK FALSE
