CONSTANTS
    p1 = p1
    f1 = f1
    f2 = f2
    editor = editor
    approver = approver
    c1 = c1
    p2 = p2
    f3 = f3
    NoPrice = NoPrice
    NoProduct = NoProduct
    NoPhoto = NoPhoto
    NoUser = NoUser
    Products = {p1}
    Photos = {f1}
    Staff = {approver}
    Can <- ReviewerCan
    Contents = {c1}
    StorePrices = {10, 101, 500}
    Margins <- FrozenMargins
    Discounts <- FrozenDiscounts
    MaxImages = 2
SPECIFICATION Spec
PROPERTY PricesKeptUntilReview
