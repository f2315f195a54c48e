CONSTANTS
    c1 = c1  c2 = c2
    p1 = p1  p2 = p2
    s1 = s1  s2 = s2
    r1 = r1  r2 = r2
    Customers = {c1, c2}
    Products = {p1}
    StoreOf <- OneStore
    InitialStock <- StockOne
    Prices = {1, 2}
    Quantities = {1, 2}
    MaxStock = 2
    Requests = {r1, r2}
    MaxTokens = 2
    MaxLines = 2
SPECIFICATION Spec
VIEW Relevant
SYMMETRY RivalSymmetry
INVARIANTS
    TypeOK
    OneOrderPerToken
    OrderedOnce
PROPERTIES
    OrderedAsOffered
    RetryAnswered
