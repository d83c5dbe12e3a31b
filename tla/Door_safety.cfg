CONSTANTS
    Message = {m1, m2}
    Credential = {good, misfit}
    Fits = {good}
    NoOne = NoOne
    MaxDeliveries = 2
    MaxFaults = 2
    MaxEdits = 1
SYMMETRY Sym
SPECIFICATION Spec
INVARIANTS AcceptedIsStored  OnlyTheVouchedFor 
CHECK_DEADLOCK FALSE
