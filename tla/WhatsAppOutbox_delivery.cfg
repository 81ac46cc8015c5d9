SPECIFICATION FairSpec
CONSTANTS
    m1 = m1
    m2 = m2
    m3 = m3
    durable = durable
    legacy = legacy
    NoMessage = NoMessage
    NoId = NoId
    Workers <- BothPrograms
    Legacy <- LegacyProgram
    Messages <- ThreeMessages
    Flaky <- TwoMessages
    Reported = {"delivered", "read"}
    MaxSends = 2
    BatchLimit = 2
    MaxCrashes = 1
INVARIANTS
    SendsAreBounded
    ClaimsAreExclusive
    StrandedOnlyByCrash
    ReceiptIsOfThisSend
PROPERTIES
    DecidedIsFinal
    DecidedUnlessCrash
CHECK_DEADLOCK FALSE
