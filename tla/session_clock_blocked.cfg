\* Units of 5 seconds. The reader waits for as long as MAX_BULK_SEND_TIMEOUT
\* lets one upload take.
CONSTANTS
    Interval = 4
    Timeout = 9
    ServerGap = 3
    MaxBlocked = 9
SPECIFICATION Spec
INVARIANT LiveServerKept
CHECK_DEADLOCK FALSE
