CONSTANTS
    p1 = p1  p2 = p2
    e1 = e1  e2 = e2
    i1 = i1  i2 = i2
    c1 = c1  c2 = c2
    j1 = j1  j2 = j2
    ProductOf <- ItemProduct
    Quantity <- OneUnit
    Products = {p1, p2}
    InitialStock <- PartBalance
    MaxQuantity = 2
    MaxRows = 3
    ManualTypes = {"STOCK_IN"}
    Quantities = {1}
    Purchases = {e1, e2}
    LinesOf <- OppositeLines
    Callers = {c1, c2}
    OrderItems = {i1}
    Jobs = {j1}
SPECIFICATION Spec
SYMMETRY CallerSymmetry
\* When both purchases are settled and MaxRows is reached, nothing is left to do.
CHECK_DEADLOCK FALSE
INVARIANTS
    TypeOK
    LedgerExplainsBalance
    ReferenceOnce
    OpeningOnce
    PurchaseAllOrNothing
PROPERTIES
    KeepsJournal
