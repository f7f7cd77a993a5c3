SPECIFICATION Spec
CONSTANTS
    p1 = p1 p2 = p2 o1 = o1 o2 = o2 k1 = k1 k2 = k2 k3 = k3 e1 = e1 e2 = e2 none = none
    Procs = {p1, p2}
    Owners = {o1, o2}
    OwnerOf <- TwoOwners
    Effects = {"ENTRY"}
    After <- EntryOnly
    Keys = {k1, k2, k3}
    NoOne = none
    Answers <- AnyAnswer
    MaxFence = 4
    MaxRetries = 2
INVARIANTS NotSubmittedIsTrue Bootable
PROPERTIES FencedCommits
SYMMETRY KeySymmetry
CHECK_DEADLOCK FALSE
