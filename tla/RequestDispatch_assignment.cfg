SPECIFICATION Spec
CONSTANTS
    p1 = p1
    p2 = p2
    p3 = p3
    s1 = s1
    s2 = s2
    s3 = s3
    Request = Request
    Nobody = Nobody
    NoProvider = NoProvider
    Providers = {p1, p2, p3}
    Sessions = {s1, s2, s3}
    LeaseOwners = {s1, s2, s3}
    Limit = 2
    TransitionAccepted = TRUE
SYMMETRY AnybodyElse

    
PROPERTIES
    OfferIsFinal
    ImplementsAssignment
