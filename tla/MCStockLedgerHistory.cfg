CONSTANTS
    p1 = p1  p2 = p2
    e1 = e1  e2 = e2
    i1 = i1  i2 = i2
    c1 = c1  c2 = c2
    j1 = j1  j2 = j2
    ProductOf <- ItemProduct
    Quantity <- ItemQuantity
    Products = {p1, p2}
    InitialStock <- SomeBalance
    MaxQuantity = 3
    MaxRows = 2
    ManualTypes = {"STOCK_IN", "STOCK_OUT"}
    Quantities = {1}
    Purchases = {}
    LinesOf <- NoLines
    Callers = {}
    OrderItems = {}
    Jobs = {j1, j2}
SPECIFICATION Spec
PROPERTY ConvertsOnlyWithoutHistory
