SPECIFICATION Spec
CONSTANTS
    Uids = {u1, u2}
    NoUid = NoUid
    Protocol = 2
    ScrapeResults = {"small", "large"}
    Tight = TRUE
    ControlCap = 2
    BulkCap = 1
    BusyCap = 1
    PostMax = 1
INVARIANTS
    FarewellWritten
