CONSTANTS
    so = so
    notSo = notSo
    judged = judged
    Task = {t1, t2}
    Claim = {so, notSo, judged}
    True = {so}
    Judged = {judged}
    Package <- TwoPackages
    Strict = {t1}
    Deadline = 1
    MaxTime = 3
    MaxNonces = 1
    MaxVerdicts = 3
    MaxRestarts = 0
SPECIFICATION Spec
INVARIANT CompletedIsAnnounced
CHECK_DEADLOCK FALSE
