SPECIFICATION ESpec
CONSTANTS
    Callers = {c1, c2, c3}
    Requests = {f1, f2}
    NoRequest = nobody
    MaxPermits = 2
INVARIANTS NoUnmarkedCall OneRequestPerKey VerdictIsTrue
CHECK_DEADLOCK FALSE
