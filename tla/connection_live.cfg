SPECIFICATION LiveSpec
CONSTANTS
    Uids = {u1, u2, u3}
    NoUid = NoUid
    Protocol = 3
    ScrapeResults = {"large"}
    Tight = FALSE
    ControlCap = 1
    BulkCap = 1
    BusyCap = 1
    PostMax = 2
PROPERTIES
    ShutdownCompletes
    ReaderResumes
    ServedUnlessFlooded
