CONSTANTS
    p1 = p1
    f1 = f1
    f2 = f2
    editor = editor
    approver = approver
    c1 = c1
    p2 = p2
    f3 = f3
    NoPrice = NoPrice
    NoProduct = NoProduct
    NoPhoto = NoPhoto
    NoUser = NoUser
    Products = {p1, p2}
    Photos = {f1, f2, f3}
    Staff = {editor, approver}
    Can <- MCCan
    Contents = {c1}
    StorePrices = {10, 101}
    Margins <- MCMargins
    Discounts <- MCDiscounts
    MaxImages = 2
SPECIFICATION Spec
SYMMETRY PhotoSymmetry
INVARIANTS TypeOK PhotosConsistent PublishedComplete PublishedReviewed PublishedByApprover HistoryCurrent
