CONSTANTS
    c1 = c1  c2 = c2
    p1 = p1  p2 = p2
    s1 = s1  s2 = s2
    r1 = r1  r2 = r2
    Customers = {c1}
    Products = {p1, p2}
    StoreOf <- TwoStores
    InitialStock <- StockTwo
    Prices = {1}
    Quantities = {1}
    MaxStock = 2
    Requests = {r1}
    MaxTokens = 1
    MaxLines = 2
SPECIFICATION Spec
PROPERTIES
    ClearsOnlyOrderedLines
