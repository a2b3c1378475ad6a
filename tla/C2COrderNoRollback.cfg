\* What the handlers' own write order leaves when a failing extrinsic is
\* not rolled back: Orders::insert and the retain out of the old status
\* bucket happen before the push that can fail.
CONSTANTS
    Account = {a1, a2}
    OrderCode = {o1, o2, o3}
    MemberCode = {m1, m2}
    InstitutionCode = {i1, i2}
    NoOrder = NoOrder
    UserOrdersCap = 2
    InstitutionOrdersCap = 2
    StatusOrdersCap = 2
    StorageLayer = FALSE
SYMMETRY Symmetry
SPECIFICATION Spec
INVARIANT IndexesMatchStore
