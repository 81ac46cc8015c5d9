SPECIFICATION Spec
CONSTANTS
    good = good
    other = other
    virus = virus
    odd = odd
    o1 = o1
    o2 = o2
    r1 = r1
    r2 = r2
    u1 = u1
    u2 = u2
    Idle = Idle
    Contents = {good, other, virus, odd}
    Infected = {virus}
    Invalid = {odd}
    Scanner = TRUE
    FailClosed = TRUE
    Uploads = {u1, u2}
    Owners = {o1, o2}
    Runners = {r1, r2}
    MaxAttempts = 2
    MaxRequests = 3
SYMMETRY AnyCaller
INVARIANTS
    ResultMatchesJob
    StuckOnlyIfDropped
    OnlyValidIsShown
