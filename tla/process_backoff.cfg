\* One worker, in units of half a second, with the delays of the code.
CONSTANTS
    ReconnectDelay = 2
    MaxReconnectDelay = 60
    Throughput = 1
    Parallel = 1
    ConnectTimeout = 20
    Stable = 120
    CloseTimeout = 2
    MaxBlocked = 1
    Deadline = 1
    LongestRow = 61
    Configurations <- MCNamed
    Services <- MCServices
    Ids = {"i-1"}
    LongInstances = {}
    LongResources = {}
SPECIFICATION Spec
INVARIANT Paced
CHECK_DEADLOCK FALSE
