SPECIFICATION Spec
CONSTANTS
    Owners = {o1, o2}
    NoOwner = none
    Durations = {1, 2}
    MaxTime = 4
    MaxFence = 3
    MaxRevision = 3
INVARIANT OneOwnerPerFence
PROPERTIES RowsStayTogether Fenced
CHECK_DEADLOCK FALSE
