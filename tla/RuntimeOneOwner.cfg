SPECIFICATION Spec
CONSTANTS
    p1 = p1 p2 = p2 o1 = o1 o2 = o2 k1 = k1 k2 = k2 k3 = k3 e1 = e1 e2 = e2 none = none
    Procs = {p1, p2}
    Owners = {o1, o2}
    OwnerOf <- OneOwner
    Effects = {e1, e2}
    After <- Independent
    Keys = {k1, k2}
    NoOne = none
    Answers <- AnyAnswer
    MaxFence = 2
    MaxRetries = 1
INVARIANTS CallBudget OutcomesAreTrue RowsAgree Bootable
SYMMETRY AllSymmetry
CHECK_DEADLOCK FALSE
