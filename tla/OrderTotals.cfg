\* The totals of create_order: one order code, lists of one or two items
\* with quantities, prices and weights in 0..2 and freights 0 and 2, with
\* u32::MAX scaled down to 3 so that products, sums and the freight
\* addition each overflow in some order.
CONSTANTS
    Account = {a1}
    OrderCode = {o1}
    MemberCode = {m1}
    InstitutionCode = {i1}
    NoOrder = NoOrder
    UserOrdersCap = 1
    InstitutionOrdersCap = 1
    MaxOrderItems = 2
    Amount = {0, 1, 2}
    Freight = {0, 2}
    Express = {e0}
    EmptyExpress = e0
    MaxU32 = 3
    StorageLayer = TRUE
SPECIFICATION Spec
INVARIANT TotalsClamped
