CONSTANTS
    Task = {t1, t2}
    Worker = {w1, w2}
    Envelope <- AllKinds
    Batch = 2
    MaxFaults = 2
    MaxEdits = 1
    SlowAnswers = TRUE
SYMMETRY Sym
SPECIFICATION Spec
INVARIANTS AckedIsServed PullableIsAnswered RepeatsArePaidFor 
PROPERTIES  KeepsTheContract
CHECK_DEADLOCK FALSE
