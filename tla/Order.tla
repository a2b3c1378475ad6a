------------------------------- MODULE Order --------------------------------
(***************************************************************************)
(* The order pallet (src/pallets/order/src/lib.rs): a primary map Orders   *)
(* indexed by UserOrders (member code) and InstitutionOrders, guarded by   *)
(* the plain order state machine (with Refunded, without Notarizing).      *)
(*                                                                         *)
(* An order keeps member, institution, status, creator, its items, freight *)
(* and the two totals create_order computes in u32 saturating arithmetic   *)
(* (MaxU32 stands for u32::MAX).  Contact information                  *)
(* and block numbers are written but never read by any handler and are    *)
(* left out; the express company and number are one abstract value,       *)
(* written by create_order (empty) and update_express_info.  Early returns *)
(* before any write, and errors inside try_mutate, are not steps.          *)
(***************************************************************************)
EXTENDS Naturals, Sequences, FiniteSets, FrameStorage

CONSTANTS
    Account,                \* signed origins
    OrderCode,              \* order codes
    MemberCode,             \* member codes (UserOrders keys)
    InstitutionCode,        \* institution codes (InstitutionOrders keys)
    NoOrder,                \* Orders::get returning None
    UserOrdersCap,          \* ConstU32<1000> of UserOrders
    InstitutionOrdersCap,   \* ConstU32<10000> of InstitutionOrders
    MaxOrderItems,          \* T::MaxOrderItems
    Amount,                 \* the u32 quantities, prices and weights tried
    Freight,                \* the u32 freights tried
    Express,                \* express company and number pairs tried
    EmptyExpress,           \* the pair of two empty BoundedVecs
    MaxU32                  \* u32::MAX

VARIABLES
    orders,             \* Orders
    userOrders,         \* UserOrders
    institutionOrders   \* InstitutionOrders

vars == <<orders, userOrders, institutionOrders>>

\* OrderStatus (lines 48-58).
OrderStatus == {"Pending", "Paid", "Delivered", "Cancelled", "Completed", "Refunded"}

\* The u8 status code of update_order_status (lines 313-321).
StatusCodes == <<"Pending", "Paid", "Delivered", "Cancelled", "Completed", "Refunded">>

U32 == 0..MaxU32

\* OrderItem (lines 68-75) without its product code.
OrderItem == [quantity: Amount, price: Amount, weight: Amount]

\* The item lists create_order accepts: non-empty (EmptyOrderItems) and at
\* most MaxOrderItems long (TooManyOrderItems).
ItemLists == UNION {[1..n -> OrderItem] : n \in 1..MaxOrderItems}

\* u32::saturating_add and u32::saturating_mul.
SatAdd(a, b) == IF a + b > MaxU32 THEN MaxU32 ELSE a + b
SatMul(a, b) == IF a * b > MaxU32 THEN MaxU32 ELSE a * b

\* Mutant: the totals in wrapping u32 arithmetic.
OrderTotalsWrapping(items, freight) ==
    LET t[n \in 0..Len(items)] ==
          IF n = 0 THEN [amount |-> 0, weight |-> 0]
          ELSE [amount |-> (t[n-1].amount + items[n].price * items[n].quantity) % (MaxU32 + 1),
                weight |-> (t[n-1].weight + items[n].weight * items[n].quantity) % (MaxU32 + 1)]
    IN [t[Len(items)] EXCEPT !.amount = (@ + freight) % (MaxU32 + 1)]

\* The totals loop of create_order and the freight added after it.
OrderTotals(items, freight) ==
    LET t[n \in 0..Len(items)] ==
          IF n = 0 THEN [amount |-> 0, weight |-> 0]
          ELSE [amount |-> SatAdd(t[n-1].amount, SatMul(items[n].price, items[n].quantity)),
                weight |-> SatAdd(t[n-1].weight, SatMul(items[n].weight, items[n].quantity))]
    IN [t[Len(items)] EXCEPT !.amount = SatAdd(@, freight)]

\* The totals create_order can compute, and the orders it can store.
Totals == {OrderTotals(it, f) : it \in ItemLists, f \in Freight}

Stored == [member: MemberCode, institution: InstitutionCode,
           status: OrderStatus, creator: Account, items: ItemLists,
           freight: Freight, totalAmount: {t.amount : t \in Totals},
           totalWeight: {t.weight : t \in Totals}, express: Express]

\* Orders::get's None is neither a stored order nor a status and creator
\* (RecordLifecycle).
ASSUME NoOrderAssumption ==
    /\ NoOrder \notin Stored
    /\ NoOrder \notin [status: OrderStatus, creator: Account]

ASSUME OrderBoundAssumption ==
    /\ UserOrdersCap \in Nat \ {0}
    /\ InstitutionOrdersCap \in Nat \ {0}
    /\ MaxOrderItems \in Nat \ {0}
    /\ MaxU32 \in Nat \ {0}
    /\ Amount \subseteq U32
    /\ Freight \subseteq U32
    /\ EmptyExpress \in Express

\* validate_status_transition (lines 459-477).
ValidTransition(from, to) ==
    <<from, to>> \in { <<"Pending", "Paid">>, <<"Pending", "Cancelled">>,
                       <<"Paid", "Delivered">>, <<"Paid", "Refunded">>,
                       <<"Paid", "Cancelled">>, <<"Delivered", "Completed">>,
                       <<"Completed", "Refunded">> }

-----------------------------------------------------------------------------
Init ==
    /\ orders = [c \in OrderCode |-> NoOrder]
    /\ userOrders = [m \in MemberCode |-> [c \in OrderCode |-> 0]]
    /\ institutionOrders = [i \in InstitutionCode |-> [c \in OrderCode |-> 0]]

\* create_order: insert the order with its totals, then push the code to
\* the member's and the institution's list, each failing on a full list.
CreateOrder(who, code, m, i, items, freight) ==
    /\ orders[code] = NoOrder
    /\ LET tot == OrderTotals(items, freight)
           okU == HasRoom(userOrders[m], UserOrdersCap)
           okI == okU /\ HasRoom(institutionOrders[i], InstitutionOrdersCap)
       IN Dispatch(okI,
            /\ orders' = [orders EXCEPT ![code] =
                  [member |-> m, institution |-> i, status |-> "Pending",
                   creator |-> who, items |-> items, freight |-> freight,
                   totalAmount |-> tot.amount, totalWeight |-> tot.weight,
                   express |-> EmptyExpress]]
            /\ userOrders' = IF okU THEN [userOrders EXCEPT ![m] = Push(@, code)]
                                    ELSE userOrders
            /\ institutionOrders' = IF okI THEN [institutionOrders EXCEPT ![i] = Push(@, code)]
                                           ELSE institutionOrders,
            vars)

\* The caller created the existing order (the check of every handler).
Owns(who, code) == orders[code] # NoOrder /\ orders[code].creator = who

\* update_order_status with a status code that decodes.
UpdateOrderStatus(who, code, n) ==
    /\ Owns(who, code)
    /\ ValidTransition(orders[code].status, StatusCodes[n + 1])
    /\ orders' = [orders EXCEPT ![code].status = StatusCodes[n + 1]]
    /\ UNCHANGED <<userOrders, institutionOrders>>

\* update_express_info: the creator overwrites the express company and
\* number, in any status.
UpdateExpressInfo(who, code, e) ==
    /\ Owns(who, code)
    /\ orders' = [orders EXCEPT ![code].express = e]
    /\ UNCHANGED <<userOrders, institutionOrders>>

\* Mutant: cancel_order also accepting a Delivered order.
CancelOrderFromDelivered(who, code) ==
    /\ Owns(who, code)
    /\ orders[code].status \in {"Pending", "Paid", "Delivered"}
    /\ orders' = [orders EXCEPT ![code].status = "Cancelled"]
    /\ UNCHANGED <<userOrders, institutionOrders>>

\* cancel_order: only a Pending or Paid order, without the transition table.
CancelOrder(who, code) ==
    /\ Owns(who, code)
    /\ orders[code].status \in {"Pending", "Paid"}
    /\ orders' = [orders EXCEPT ![code].status = "Cancelled"]
    /\ UNCHANGED <<userOrders, institutionOrders>>

\* Mutant: delete_order forgetting the institution's list.
DeleteOrderKeepsInstitution(who, code) ==
    /\ Owns(who, code)
    /\ userOrders' = [userOrders EXCEPT ![orders[code].member] = Retain(@, code)]
    /\ orders' = [orders EXCEPT ![code] = NoOrder]
    /\ UNCHANGED institutionOrders

\* delete_order: drop the code from the member's and the institution's
\* lists the stored order names, then remove the order.
DeleteOrder(who, code) ==
    LET o == orders[code]
    IN /\ Owns(who, code)
       /\ userOrders' = [userOrders EXCEPT ![o.member] = Retain(@, code)]
       /\ institutionOrders' = [institutionOrders EXCEPT ![o.institution] = Retain(@, code)]
       /\ orders' = [orders EXCEPT ![code] = NoOrder]

Next ==
    \E who \in Account, code \in OrderCode :
        \/ \E m \in MemberCode, i \in InstitutionCode, items \in ItemLists, f \in Freight :
              CreateOrder(who, code, m, i, items, f)
        \/ \E n \in 0..5 : UpdateOrderStatus(who, code, n)
        \/ \E e \in Express : UpdateExpressInfo(who, code, e)
        \/ CancelOrder(who, code)
        \/ DeleteOrder(who, code)

Spec == Init /\ [][Next]_vars

-----------------------------------------------------------------------------
(* Properties.                                                             *)

TypeOK ==
    /\ orders \in [OrderCode -> Stored \cup {NoOrder}]
    /\ userOrders \in [MemberCode -> [OrderCode -> Nat]]
    /\ institutionOrders \in [InstitutionCode -> [OrderCode -> Nat]]

\* Spec I1-I3 for UserOrders and InstitutionOrders: each list holds exactly
\* the codes of the stored orders with its key, each once, across creates
\* that fail on a full list and deletes.
OrderIndexesMatchStore ==
    \A c \in OrderCode :
        /\ \A m \in MemberCode :
              userOrders[m][c] = IF orders[c] # NoOrder /\ orders[c].member = m THEN 1 ELSE 0
        /\ \A i \in InstitutionCode :
              institutionOrders[i][c] = IF orders[c] # NoOrder /\ orders[c].institution = i THEN 1 ELSE 0

-----------------------------------------------------------------------------
(* Refinement: the pallet implements RecordLifecycle, a record being an    *)
(* order's status and creator, with this pallet's transition table.        *)

Lifecycle == INSTANCE RecordLifecycle WITH
    Key <- OrderCode, Status <- OrderStatus, Owner <- Account,
    Initial <- "Pending", Absent <- NoOrder,
    Edge <- {e \in OrderStatus \X OrderStatus : ValidTransition(e[1], e[2])},
    records <- [c \in OrderCode |->
                  IF orders[c] = NoOrder THEN NoOrder
                  ELSE [status |-> orders[c].status, creator |-> orders[c].creator]]

\* Spec section 8 (uniqueness, transition closure) and the lifecycle of
\* section 4.5: create_order only fills an empty code and starts it
\* Pending, update_order_status and cancel_order (with its own status
\* list) move it along the table, update_express_info leaves status and
\* creator alone, and delete_order removes it.
LifecycleRefined == Lifecycle!Spec

\* Every change of a stored order's status, by update_order_status or by
\* cancel_order (which checks its own status list), is an edge of
\* validate_status_transition's table.
StatusFollowsGraph ==
    [][\A c \in OrderCode :
         (/\ orders[c] # NoOrder /\ orders'[c] # NoOrder
          /\ orders'[c].status # orders[c].status)
           => ValidTransition(orders[c].status, orders'[c].status)]_vars

\* The mathematical sum of field f times quantity over the items.
ExactSum(items, f) ==
    LET s[n \in 0..Len(items)] ==
          IF n = 0 THEN 0 ELSE s[n-1] + items[n][f] * items[n].quantity
    IN s[Len(items)]

\* The totals a stored order carries are the exact sums (plus freight for
\* the amount) cut off at u32::MAX: composing saturating products and sums
\* item by item, in create_order's loop order, loses nothing below the
\* bound and never wraps above it.
TotalsClamped ==
    \A c \in OrderCode : orders[c] # NoOrder =>
        LET o == orders[c]
            Clamp(x) == IF x > MaxU32 THEN MaxU32 ELSE x
        IN /\ o.totalAmount = Clamp(ExactSum(o.items, "price") + o.freight)
           /\ o.totalWeight = Clamp(ExactSum(o.items, "weight"))

=============================================================================
