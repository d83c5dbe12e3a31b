CONSTANTS
    Event = {e1, e2}
    Relay = {r1, r2}
    NoRow = NoRow
    MaxAborts = 1
    MaxFaults = 3
    MaxForgets = 2
SYMMETRY Sym
SPECIFICATION Spec
INVARIANTS NothingLostOrInvented CleanRunOnce StoredOnce
PROPERTY KeepsOutboxContract
