SPECIFICATION PaymentsSpec
CONSTANTS
    ordered = ordered
    requested = requested
    e1 = e1
    e2 = e2
    e3 = e3
    x1 = x1
    r1 = r1
    r2 = r2
    NoRefund = NoRefund
    NoRef = NoRef
    Foreign = Foreign
    Payments <- OnePayment
    Amount <- TwoCentsOnce
    Events <- OneEvent
    PaymentOf <- OnceRequested
    Sessions = {x1}
    OpenedFor <- SessionOfRequested
    ForOrder = {}
    ForRequest <- OnePayment
    Refunds = {r1, r2}
INVARIANTS
    RefundsWithinPayment
CHECK_DEADLOCK FALSE
