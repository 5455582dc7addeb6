\* Three jobs whose bodies and encodings do not fit the budget together, and an
\* allocator that may add a byte.
CONSTANTS
    Jobs = {j1, j2, j3}
    Limit = 7
    Uid = 1
    NotFound = 1
    MaxBody = 2
    MaxMessage = 4
    Envelope = 1
    Expansion = 2
    Slack = 1
SPECIFICATION Spec
SYMMETRY JobSymmetry
INVARIANTS TypeOK Accounted NeverPanics Covered MemoryCounted
PROPERTY LostOnlyWhenShared
