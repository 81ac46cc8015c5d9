SPECIFICATION Spec
CONSTANTS
    c1 = c1
    c2 = c2
    k1 = k1
    k2 = k2
    NoProduct = NoProduct
    NoCourier = NoCourier
    Products = {p1}
    Carts <- TwoCarts
    CustomerOf <- OneEach
    MaxStock = 2
    Located <- FirstCart
    Couriers = {k1, k2}
    WaveSize = 2
SYMMETRY AnyCourier
INVARIANTS
    StockIsCounted
    DeliveryAgrees
PROPERTIES
    ImplementsOrderLife
    ImplementsAssignment
