\* The deployed behaviour: a failing extrinsic is rolled back.  Two token
\* codes at one institution give an account two tokens sharing the
\* institution; lists of two fill with an account's own two tokens, or
\* with a bought pair and a created one; MaxU32 = 2 lets a trade saturate;
\* prices 0..2 give every price handler a refused zero and a real change.
CONSTANTS
    Account = {a1, a2}
    TokenCode = {t1, t2}
    InstitutionCode = {i1}
    NoToken = NoToken
    InstitutionTokensCap = 2
    UserTokensCap = 2
    MaxU32 = 2
    MaxPrice = 2
    StorageLayer = TRUE
SYMMETRY Symmetry
SPECIFICATION Spec
INVARIANT InstitutionIndexExact
INVARIANT CreatorHoldsToken
INVARIANT PricePositive
