CONSTANTS
    note = note
    read = read
    shell = shell
    rm = rm
    Tool <- AllTools
    Note = note
    Terminal = shell
    LastResort = rm
    TierOf <- Tiering
    Irreversible = {}
    MaxTools = 4
    TaintCeiling = 1
    Task = {t1, t2}
    Ask <- Asks
    Deployment <- Deployments
    Budget <- Budgets
    TaskCap <- Caps
    TimeoutCharge = 1
    Price = {1}
    JudgePrice = {1}
    MaxTimeouts = 1
    MaxErrors = 0
    MaxTurns = 1
    Rows <- JudgeSays
    Lines = 2
    MaxRuns = 1
    Answer = {a1, a2}
    Tick = {d1, d2}
    Page = 1
    MaxDrafts = 1
    MaxCards = 2
    MaxBoardFaults = 2
    Script <- TaskScript
    MaxRestarts = 1
    MaxHistoryFaults = 1
    Run = {r1, r2}
    Embedded = {r1, r2}
    NoRun = NoRun
    Manifest <- Manifests
    RegistryMax = 2
    MaxOnbFaults = 1
    MaxWeight = 3
    MaxShown = 2
    Principal = {p1, p2}
    Conn = {c1, c2}
    Size = {1, 2}
    IdleAfter = 0
    MaxTurnRows = 3
    MaxThreads = 2
    MaxThreadHours = 1
    Sender = {q1, q2}
    TalkSize = {1, 2}
    Window = 2
    MaxTalk = 3
    MaxTalkHours = 2
    Migrator = {g1, g2, g3}
    Files = 3
    MaxMigrateFaults = 1
    Memory = {i1, i2}
    Filler = {b1, b2}
    Plain = {b2}
    Empty = {}
    Unusable = {}
    PageSize = 1
    MaxFillFaults = 1
    k1 = k1
    k2 = k2
    EvalCase = {k1, k2}
    Suite <- Suites
    MaxEdits = 1
    SuiteDrop = 2
    DimensionDrop = 2
    ObsThread = {x1, x2}
    Span = {s1, s2, s3}
    BufferMax = 1
    MaxObsFaults = 3
    Update = {u1}
    WebThread = {w1, w2}
    Wired = {"transcriber"}
    MaxSends = 3
    MaxMediaFaults = 2
SPECIFICATION EstateSpec
INVARIANTS
    KeepsItsAccount  WorkIsPaidFor HistoryIsTold OnboardedWhole
     SchemaIsSound BridgeIsComplete PassIsEarned SpansAreAccountedFor
    MediaIsTidy EstateTypeOK
PROPERTIES
    EvidenceStands  SensibleIsHeard
CHECK_DEADLOCK FALSE
