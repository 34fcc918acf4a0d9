\* A raise and its revert: lost answers, crashes, edits, damaged files, a second handoff, an unreadable provider.
SPECIFICATION FairSpec
CONSTANTS
    j1 = j1
    j2 = j2
    r1 = r1
    r2 = r2
    None = None
    Jobs = {j1, j2}
    Resources = {r1, r2}
    Amounts = {4, 8}
    PlanOf <- RaiseThenRevert
    Rank <- Rank2
    AuthorityBudget = 8
    AuthorityIncrement = 4
    MaxSubmits = 3
    MaxCrashes = 1
    MaxEdits = 1
    MaxCorrupt = 1
INVARIANTS
    IInv
    AtMostOneWrite
    SentIsPending
PROPERTIES
    ResultIsFinal
    AppliedAsChecked
    EveryJobAnswered
CHECK_DEADLOCK FALSE
