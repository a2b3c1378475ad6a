\* The deployed behaviour: a failing extrinsic is rolled back.
\* Three orders against buckets of two, so that each family of buckets
\* can be full when create_order or a status change pushes into it.
CONSTANTS
    Account = {a1, a2}
    OrderCode = {o1, o2, o3}
    MemberCode = {m1, m2}
    InstitutionCode = {i1, i2}
    NoOrder = NoOrder
    UserOrdersCap = 2
    InstitutionOrdersCap = 2
    StatusOrdersCap = 2
    StorageLayer = TRUE
SYMMETRY Symmetry
SPECIFICATION Spec
INVARIANT IndexesMatchStore
PROPERTY LifecycleRefined
