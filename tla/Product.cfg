\* The deployed behaviour: a failing extrinsic is rolled back.  Three
\* products against a list of two fill the index; prices 1 and 2 let an
\* update lower the original below the current price; MaxU32 = 2 lets a
\* purchase empty the stock and saturate the sales.
CONSTANTS
    Account = {a1, a2}
    ProductCode = {p1, p2, p3}
    InstitutionCode = {i1}
    NoProduct = NoProduct
    None = None
    InstitutionProductsCap = 2
    Price = {1, 2}
    MaxU32 = 2
    StorageLayer = TRUE
SYMMETRY Symmetry
SPECIFICATION Spec
INVARIANT InstitutionProductsExact
INVARIANT CurrentNotAboveOriginal
