SPECIFICATION FairSpec
CONSTANTS
    Requests = {r1, r2}
    Views = {v1}
    Threshold = 2
    Aging = FALSE
    MaxEpoch = 3
    MaxTokens = 2
    MaxRestarts = 1
    Free = Free
INVARIANTS TypeOK StaleViewsOwed
PROPERTIES OneLogin LogoutByOwner ReplacedViewsClose
CHECK_DEADLOCK FALSE
