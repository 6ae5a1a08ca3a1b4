CONSTANTS
    shoe = shoe
    phone = phone
    u1 = u1
    u2 = u2
    s1 = s1
    s2 = s2
    a1 = a1
    manual = manual
    Products = {shoe}
    Mode <- QuantityMode
    Batches = {1}
    Units = {}
    Sales = {s1}
    Agreements = {}
    Times = {1}
    MaxQuantity = 1
    MaxLoose = 0
    Manuals = {}
    TradedIn = {}
    Spares = {}
    None = None
SPECIFICATION Spec
SYMMETRY Symmetry
CHECK_DEADLOCK FALSE
INVARIANTS
    StockComesBackOnce
