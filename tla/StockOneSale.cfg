CONSTANTS
    shoe = shoe
    phone = phone
    u1 = u1
    u2 = u2
    s1 = s1
    s2 = s2
    a1 = a1
    manual = manual
    Products = {shoe}
    Mode <- QuantityMode
    Batches = {1, 2}
    Units = {}
    Sales = {s1}
    Agreements = {a1}
    Times = {1}
    MaxQuantity = 2
    MaxLoose = 1
    Manuals = {}
    TradedIn = {}
    Spares = {shoe}
    None = None
SPECIFICATION Spec
SYMMETRY Symmetry
CHECK_DEADLOCK FALSE
INVARIANTS
    TypeOK
    ProductLedger
    BatchLedger
    DraftsHoldNoStock
    AllocationsMatchLines
    ReturnsStayWithinTheSale
    BatchNeverOverfull
PROPERTY
    ReturnedSaleIsFrozen
