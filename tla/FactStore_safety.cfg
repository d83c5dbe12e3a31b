CONSTANTS
    n1 = n1
    n2 = n2
    k = k
    Note <- TwoNotes
    Compaction = {c1, c2}
    Run = {r1, r2}
    Key <- Keys
    StaleAfter <- Expiries
    Tainted = {n2}
    Tier <- Tiers
    None = None
    TTL = 2
    Lookback = 3
    Batch = 2
    CapNum = 1
    CapDen = 2
    MaxTime = 2
    MaxRewrites = 1
SYMMETRY Sym
SPECIFICATION Spec
INVARIANTS DeletionsAreAudited CapHolds CompactedIsReachable SummaryClaimsNoMore
CHECK_DEADLOCK FALSE
