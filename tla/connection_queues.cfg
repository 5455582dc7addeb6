SPECIFICATION Spec
CONSTANTS
    Uids = {u1, u2, u3}
    NoUid = NoUid
    Protocol = 3
    ScrapeResults = {"large"}
    Tight = FALSE
    ControlCap = 1
    BulkCap = 1
    BusyCap = 1
    PostMax = 1
SYMMETRY Symmetry
INVARIANTS
    NoRequestLost
    Backpressure
PROPERTIES
    NoOvertaking
