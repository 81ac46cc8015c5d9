SPECIFICATION Spec
CONSTANTS
    a1 = a1
    a2 = a2
    m1 = m1
    m2 = m2
    w1 = w1
    w2 = w2
    Workers = {w1, w2}
    NoClaim = NoClaim
    Events <- ThreeEvents
    Poison = {}
    Flaky <- First
    Confirms <- First
    IdemKey <- OneText
    EnqueueAccepted = TRUE
    MaxAttempts = 2
    BatchLimit = 2
    MaxCrashes = 1
SYMMETRY AnyWorker
INVARIANTS
    AtMostOnce
    ProcessedWasHandled
    ReplyMatchesCommand
    AbandonedOnlyByCrash
PROPERTIES
    ImplementsHandling
