SPECIFICATION PaymentsSpec
CONSTANTS
    ordered = ordered
    requested = requested
    e1 = e1
    e2 = e2
    e3 = e3
    x1 = x1
    r1 = r1
    r2 = r2
    NoRefund = NoRefund
    NoRef = NoRef
    Foreign = Foreign
    Payments <- TwoPayments
    Amount <- TwoCents
    Events <- ThreeEvents
    PaymentOf <- TwiceRequested
    Sessions = {x1}
    OpenedFor <- SessionOfRequested
    ForOrder <- OrderedOnly
    ForRequest <- OnePayment
    Refunds = {r1, r2}
SYMMETRY AnyEventOrRefund
INVARIANTS
    PostedOnce
    EarningNeedsWebhook
    ProcessedIsPosted
    OrderFollowsLedger
    RefundsAreCounted
    PaidBefore
CHECK_DEADLOCK FALSE
