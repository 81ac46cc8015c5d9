SPECIFICATION FairSpec
CONSTANTS
    a1 = a1
    a2 = a2
    m1 = m1
    m2 = m2
    w1 = w1
    w2 = w2
    Workers = {w1, w2}
    NoClaim = NoClaim
    Events <- TwoEvents
    Poison = {}
    Flaky <- Second
    Confirms <- First
    IdemKey <- TextPerMessage
    EnqueueAccepted = TRUE
    MaxAttempts = 2
    BatchLimit = 2
    MaxCrashes = 1
PROPERTIES
    Settles
    
