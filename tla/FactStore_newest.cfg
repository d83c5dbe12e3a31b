CONSTANTS
    n1 = n1
    n2 = n2
    k = k
    Note <- TwoNotes
    Compaction = {}
    Run = {r1}
    Key <- Keys
    StaleAfter <- Expiries
    Tainted = {}
    Tier <- Tiers
    None = None
    TTL = 2
    Lookback = 3
    Batch = 2
    CapNum = 1
    CapDen = 1
    MaxTime = 2
    MaxRewrites = 1
SPECIFICATION Spec
PROPERTY MostRecentIsKept
CHECK_DEADLOCK FALSE
