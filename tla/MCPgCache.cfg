SPECIFICATION FairSpec
CONSTANTS
    Rows = {r1, r2}
    MaxCommits = 4
INVARIANTS
    TypeOK
    OneContinuation
PROPERTIES
    RefinesView
    EventuallyFresh
