\* The header on ambiguous writes against the ways a job with a write in doubt is closed.
SPECIFICATION Spec
CONSTANTS
    j1 = j1
    j2 = j2
    r1 = r1
    r2 = r2
    None = None
    Jobs = {j1}
    Resources = {r1, r2}
    Amounts = {4, 8}
    PlanOf <- RaisePlan
    Rank <- Rank1
    AuthorityBudget = 8
    AuthorityIncrement = 4
    MaxSubmits = 1
    MaxCrashes = 1
    MaxEdits = 0
    MaxCorrupt = 0
INVARIANTS
    NoWriteClosedUnread
CHECK_DEADLOCK FALSE
