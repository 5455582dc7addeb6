\* A response over the WebSocket alone, and requests enough to fill every
\* place that holds one. The classes of body only matter to a POST.
SPECIFICATION Spec
CONSTANTS
    Uids = {u1, u2, u3, u4, u5}
    NoUid = NoUid
    Protocol = 2
    ScrapeResults = {"large"}
    Tight = TRUE
    ControlCap = 2
    BulkCap = 1
    BusyCap = 1
    PostMax = 1
SYMMETRY Symmetry
INVARIANTS
    OneScrape
    NoRequestLost
    RegisterFirst
    Backpressure
PROPERTIES
    Delivers
    FarewellFirst
