CONSTANTS
    Task = {t1, t2}
    Worker = {w1, w2}
    Envelope <- AnsweredKinds
    Batch = 2
    MaxFaults = 1
    MaxEdits = 0
    SlowAnswers = FALSE
SPECIFICATION Spec
INVARIANT AnsweredIsRecorded
CHECK_DEADLOCK FALSE
