SPECIFICATION Spec
CONSTANTS
    i1 = i1
    k1 = k1
    k2 = k2
    x1 = x1
    x2 = x2
    x3 = x3
    e1 = e1
    Idle = Idle
    Replaced = Replaced
    Invites = {i1}
    Connectors = {k1, k2}
    InviteOf <- OneInvite
    DomainOf <- OneDomain
    Clients = {x1, x2, x3}
    Events = {e1}
    ConnectorOf <- OfFirstRow
SYMMETRY AnyClient
INVARIANTS
    UntestedOnlyBySlip
    OneActivePerDomain
PROPERTIES
    VerifiedWhileActive
CHECK_DEADLOCK FALSE
