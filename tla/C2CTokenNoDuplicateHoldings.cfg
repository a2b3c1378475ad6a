\* The deployed behaviour, checking that no list holds a pair twice: a
\* buyer whose stale pair survived a delete creates the token again.
CONSTANTS
    Account = {a1, a2}
    TokenCode = {t1, t2}
    InstitutionCode = {i1}
    NoToken = NoToken
    InstitutionTokensCap = 2
    UserTokensCap = 2
    MaxU32 = 2
    MaxPrice = 1
    StorageLayer = TRUE
SYMMETRY Symmetry
SPECIFICATION Spec
INVARIANT NoDuplicateHoldings
