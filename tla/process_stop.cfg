\* Two workers, shortened times: the order of the farewell, the connect, the
\* deadline and an upload is kept.
CONSTANTS
    ReconnectDelay = 1
    MaxReconnectDelay = 2
    Throughput = 1
    Parallel = 2
    ConnectTimeout = 2
    Stable = 1
    CloseTimeout = 1
    MaxBlocked = 5
    Deadline = 4
    LongestRow = 0
    Configurations <- MCOnEc2
    Services <- MCServices
    Ids = {"i-1"}
    LongInstances = {}
    LongResources = {}
SPECIFICATION FairSpec
INVARIANTS StopsPromptly ForcedOnlyWhenStalled NoneLeft
PROPERTY ExitsOnSignal
\* The process may have exited.
CHECK_DEADLOCK FALSE
