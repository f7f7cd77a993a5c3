SPECIFICATION LSpec
CONSTANTS
    Fingerprints = {f1, f2}
    NoOne = nobody
    OrderIds = {id1, id2}
    NoOrder = none
    MaxTime = 3
    MaxRetries = 3
INVARIANTS OneSubmissionPerPermit
PROPERTIES FactsOnlyGrow
CHECK_DEADLOCK FALSE
