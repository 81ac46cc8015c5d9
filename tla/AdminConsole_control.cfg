SPECIFICATION Spec
CONSTANTS
    a1 = a1
    b1 = b1
    b2 = b2
    Idle = Idle
    Nobody = Nobody
    Admins = {a1}
    Browsers = {b1, b2}
    MaxAttempts = 3
INVARIANTS
    CountedUnlessLost
PROPERTIES
    LockHolds
