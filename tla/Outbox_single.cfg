CONSTANTS
    Event = {e1, e2, e3}
    Relay = {r1}
    NoRow = NoRow
    MaxAborts = 1
    MaxFaults = 1
    MaxForgets = 1
SPECIFICATION FairSpec
INVARIANT DrainsInOrder
PROPERTY EventuallyPublished
