\* The deployed behaviour, checking that no list keeps a pair whose token
\* was deleted: a buyer of a Buy token keeps it after the creator deletes it.
CONSTANTS
    Account = {a1, a2}
    TokenCode = {t1, t2}
    InstitutionCode = {i1}
    NoToken = NoToken
    InstitutionTokensCap = 2
    UserTokensCap = 2
    MaxU32 = 2
    MaxPrice = 1
    StorageLayer = TRUE
SYMMETRY Symmetry
SPECIFICATION Spec
INVARIANT HoldingsReferToTokens
