CONSTANTS
    o1 = o1  o2 = o2
    x1 = x1  x2 = x2  x3 = x3
    i1 = i1  i2 = i2  i3 = i3  i4 = i4
    p1 = p1  p2 = p2  p3 = p3
    s1 = s1  s2 = s2  s3 = s3
    Orders = {o1}
    StoreOrders = {x1, x2, x3}
    Items = {i1, i2, i3}
    Products = {p1, p2, p3}
    Stores = {s1, s2, s3}
    OrderOf <- WideOrderOf
    StoreOf <- WideStoreOf
    StoreOrderOf <- WideStoreOrderOf
    ProductOf <- WideProductOf
    Quantity <- WideQuantity
    InitialStock <- WideStock
SPECIFICATION Spec
PROPERTY SuspendedStoreCannotProcess
