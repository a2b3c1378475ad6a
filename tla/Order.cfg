\* The deployed behaviour: a failing extrinsic is rolled back.  Three
\* orders against lists of two fill both index families; one item list
\* keeps the state space on the indexes and the status machine.
CONSTANTS
    Account = {a1, a2}
    OrderCode = {o1, o2, o3}
    MemberCode = {m1, m2}
    InstitutionCode = {i1, i2}
    NoOrder = NoOrder
    UserOrdersCap = 2
    InstitutionOrdersCap = 2
    MaxOrderItems = 1
    Amount = {1}
    Freight = {0}
    Express = {e0, e1}
    EmptyExpress = e0
    MaxU32 = 3
    StorageLayer = TRUE
SYMMETRY Symmetry
SPECIFICATION Spec
INVARIANT OrderIndexesMatchStore
PROPERTY LifecycleRefined
