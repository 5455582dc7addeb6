\* Units of 5 seconds. The reader waits for as long as MAX_BULK_SEND_TIMEOUT
\* lets two uploads take: the one in progress and, when the busy actor waits
\* before it, the next.
CONSTANTS
    Interval = 4
    Timeout = 9
    ServerGap = 3
    MaxBlocked = 18
SPECIFICATION Spec
INVARIANTS DeadServerNoticed OnlyAWaitDeceives
\* The connection may have ended.
CHECK_DEADLOCK FALSE
