CONSTANTS
    Message = {m1, m2}
    Credential = {good, misfit}
    Fits = {good}
    NoOne = NoOne
    MaxDeliveries = 1
    MaxFaults = 0
    MaxEdits = 0
SPECIFICATION Spec
PROPERTY RefusalHasACause
CHECK_DEADLOCK FALSE
