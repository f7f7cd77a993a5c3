SPECIFICATION Spec
CONSTANTS
    p1 = p1 p2 = p2 o1 = o1 o2 = o2 k1 = k1 k2 = k2 k3 = k3 e1 = e1 e2 = e2 none = none
    Procs = {p1, p2}
    Owners = {o1, o2}
    OwnerOf <- TwoOwners
    Effects = {"ENTRY"}
    After <- EntryOnly
    Keys = {k1, k2}
    NoOne = none
    Answers <- AnyAnswer
    MaxFence = 3
    MaxRetries = 1
INVARIANTS RetryRequiresReconciliation
SYMMETRY KeySymmetry
CHECK_DEADLOCK FALSE
