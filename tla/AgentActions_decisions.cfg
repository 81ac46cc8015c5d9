SPECIFICATION FairSpec
CONSTANTS
    m1 = m1
    m2 = m2
    c1 = c1
    c2 = c2
    r1 = r1
    r2 = r2
    Idle = Idle
    Events = {m1, m2}
    Confirmers = {c1, c2}
    Relays = {r1, r2}
    MaxPublishing = 3
    MaxTries = 2
INVARIANTS
    RequestsFollowDecisions
    CopiesAreCounted
    LostOnlyByCrash
PROPERTIES
    EventsAreDecided
