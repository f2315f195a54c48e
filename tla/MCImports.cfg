CONSTANTS
    s1 = s1  s2 = s2  k1 = k1  k2 = k2  d1 = d1  d2 = d2
    np1 = np1  np2 = np2  np3 = np3  soap = soap  oil = oil
    None = None
    Stores = {s1, s2}
    Skus <- MCSkus
    Names = {soap, oil}
    Items = {k1, k2}
    Pictures = {d1, d2}
    Files = {f1, f2}
    Folders <- MCFolders
    DetailsForms <- MCDetailsForms
    MaxListing = 1
    MaxStaged = 2
    Pages = {c1}
    Rows = 3
    RowSku <- MCRowSku
    RowName <- MCRowName
    WithImage = {1, 2}
    Workers = {w1, w2}
SPECIFICATION Spec
INVARIANTS FilesKept ImportedInBatchStore ImportedReviewed NamesOnce ReportsTrue
PROPERTY RunsEnd
CHECK_DEADLOCK FALSE
