CONSTANTS
    so = so
    notSo = notSo
    judged = judged
    Task = {t1, t2}
    Claim = {so, notSo, judged}
    True = {so}
    Judged = {judged}
    Package <- AllPackages
    Strict = {t1}
    Deadline = 1
    MaxTime = 3
    MaxNonces = 2
    MaxVerdicts = 2
    MaxRestarts = 1
SPECIFICATION FairSpec
INVARIANTS CompletedHasItsVerdict CompletedIsTrue OneRecordPerNonce
PROPERTY NobodyWaitsForEver
CHECK_DEADLOCK FALSE
