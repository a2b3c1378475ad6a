------------------------------ MODULE C2COrder ------------------------------
(***************************************************************************)
(* The c2c-order pallet (src/pallets/c2c-order/src/lib.rs): a primary map  *)
(* Orders from order code to order, kept in step with three secondary      *)
(* indexes (UserOrders by member code, InstitutionOrders by institution    *)
(* code, OrdersByStatus by status) and guarded by the order state machine. *)
(*                                                                         *)
(* Each extrinsic is one atomic step: the runtime serialises them.  An     *)
(* index bucket, a BoundedVec of order codes, is abstracted to the number  *)
(* of times each code occurs in it: the pallet reads a bucket only through *)
(* its length (try_push against the bound) and removes with retain, which  *)
(* drops every occurrence; insertion order is never read.                  *)
(*                                                                         *)
(* A failing extrinsic is dispatched through FrameStorage's Dispatch.     *)
(* Early returns taken before any write (bad string length, bad amount,    *)
(* bad direction, bad status code, not found, not authorised, invalid      *)
(* transition) leave the state unchanged either way and are not steps.     *)
(***************************************************************************)
EXTENDS Naturals, FiniteSets, FrameStorage

CONSTANTS
    Account,                \* signed origins
    OrderCode,              \* order codes (primary keys)
    MemberCode,             \* member codes (UserOrders keys)
    InstitutionCode,        \* institution codes (InstitutionOrders keys)
    NoOrder,                \* Orders::get returning None
    UserOrdersCap,          \* ConstU32<1000> of UserOrders
    InstitutionOrdersCap,   \* ConstU32<10000> of InstitutionOrders
    StatusOrdersCap         \* ConstU32<10000> of OrdersByStatus

VARIABLES
    orders,             \* Orders
    userOrders,         \* UserOrders
    institutionOrders,  \* InstitutionOrders
    ordersByStatus      \* OrdersByStatus

vars == <<orders, userOrders, institutionOrders, ordersByStatus>>

\* OrderStatus (lines 40-47).
OrderStatus == {"Pending", "Paid", "Delivered", "Notarizing", "Cancelled", "Completed"}

\* The u8 status code accepted by update_order_status (lines 284-292):
\* code n decodes to StatusCodes[n + 1]; any other code is InvalidStatus.
StatusCodes == <<"Pending", "Paid", "Delivered", "Notarizing", "Cancelled", "Completed">>

Order == [member: MemberCode, institution: InstitutionCode,
          status: OrderStatus, creator: Account]

\* A bucket: how often each order code occurs in the BoundedVec.
Bucket == [OrderCode -> Nat]

ASSUME NoOrderAssumption == NoOrder \notin Order
\* Orders::get's None is not a status and creator either (RecordLifecycle).
ASSUME NoRecordAssumption == NoOrder \notin [status: OrderStatus, creator: Account]
ASSUME CapAssumption ==
    /\ UserOrdersCap \in Nat \ {0}
    /\ InstitutionOrdersCap \in Nat \ {0}
    /\ StatusOrdersCap \in Nat \ {0}

\* An empty BoundedVec (ValueQuery default).
EmptyBucket == [c \in OrderCode |-> 0]

-----------------------------------------------------------------------------
(* validate_status_transition (lines 482-500).                            *)
ValidTransition(from, to) ==
    <<from, to>> \in { <<"Pending", "Paid">>, <<"Pending", "Cancelled">>,
                       <<"Pending", "Notarizing">>,
                       <<"Paid", "Delivered">>, <<"Paid", "Cancelled">>,
                       <<"Paid", "Notarizing">>,
                       <<"Delivered", "Completed">>, <<"Delivered", "Notarizing">>,
                       <<"Notarizing", "Completed">>, <<"Notarizing", "Cancelled">> }

-----------------------------------------------------------------------------
Init ==
    /\ orders = [c \in OrderCode |-> NoOrder]
    /\ userOrders = [m \in MemberCode |-> EmptyBucket]
    /\ institutionOrders = [i \in InstitutionCode |-> EmptyBucket]
    /\ ordersByStatus = [s \in OrderStatus |-> EmptyBucket]

\* create_order: insert the order, then push its code to the member's, the
\* institution's and the Pending bucket, each push failing on a full bucket.
CreateOrder(who, code, m, i) ==
    /\ orders[code] = NoOrder
    /\ LET okU == HasRoom(userOrders[m], UserOrdersCap)
           okI == okU /\ HasRoom(institutionOrders[i], InstitutionOrdersCap)
           okS == okI /\ HasRoom(ordersByStatus["Pending"], StatusOrdersCap)
       IN Dispatch(okS,
            /\ orders' = [orders EXCEPT ![code] =
                  [member |-> m, institution |-> i, status |-> "Pending", creator |-> who]]
            /\ userOrders' = IF okU THEN [userOrders EXCEPT ![m] = Push(@, code)]
                                    ELSE userOrders
            /\ institutionOrders' = IF okI THEN [institutionOrders EXCEPT ![i] = Push(@, code)]
                                           ELSE institutionOrders
            /\ ordersByStatus' = IF okS THEN [ordersByStatus EXCEPT !["Pending"] = Push(@, code)]
                                        ELSE ordersByStatus,
            vars)

\* Mutant: the retain out of the old status bucket forgotten.
ChangeStatusKeepsOld(code, new) ==
    LET ok == HasRoom(ordersByStatus[new], StatusOrdersCap)
    IN Dispatch(ok,
         /\ orders' = IF ok THEN [orders EXCEPT ![code].status = new] ELSE orders
         /\ ordersByStatus' = IF ok THEN [ordersByStatus EXCEPT ![new] = Push(@, code)]
                                    ELSE ordersByStatus
         /\ UNCHANGED <<userOrders, institutionOrders>>,
         vars)

\* The tail shared by update_order_status, cancel_order and complete_order
\* inside Orders::try_mutate: retain the code out of the old status bucket,
\* push it to the new one; the order itself is written only if the closure
\* returns Ok, the bucket writes happen as they go.
ChangeStatus(code, new) ==
    LET old     == orders[code].status
        removed == [ordersByStatus EXCEPT ![old] = Retain(@, code)]
        ok      == HasRoom(removed[new], StatusOrdersCap)
    IN Dispatch(ok,
         /\ orders' = IF ok THEN [orders EXCEPT ![code].status = new] ELSE orders
         /\ ordersByStatus' = IF ok THEN [removed EXCEPT ![new] = Push(@, code)]
                                    ELSE removed
         /\ UNCHANGED <<userOrders, institutionOrders>>,
         vars)

\* The caller owns an existing order.
Owns(who, code) ==
    /\ orders[code] # NoOrder
    /\ orders[code].creator = who

\* update_order_status with a status code that decodes.
UpdateOrderStatus(who, code, n) ==
    /\ Owns(who, code)
    /\ ValidTransition(orders[code].status, StatusCodes[n + 1])
    /\ ChangeStatus(code, StatusCodes[n + 1])

\* Mutant: cancel_order also accepting a Delivered order.
CancelOrderFromDelivered(who, code) ==
    /\ Owns(who, code)
    /\ orders[code].status \in {"Pending", "Paid", "Delivered"}
    /\ ChangeStatus(code, "Cancelled")

\* cancel_order: only Pending or Paid orders.
CancelOrder(who, code) ==
    /\ Owns(who, code)
    /\ orders[code].status \in {"Pending", "Paid"}
    /\ ChangeStatus(code, "Cancelled")

\* complete_order: only Delivered or Notarizing orders.
CompleteOrder(who, code) ==
    /\ Owns(who, code)
    /\ orders[code].status \in {"Delivered", "Notarizing"}
    /\ ChangeStatus(code, "Completed")

\* delete_order: drop the code from the three buckets the stored order names,
\* then remove the order.
DeleteOrder(who, code) ==
    LET o == orders[code]
    IN /\ Owns(who, code)
       /\ userOrders' = [userOrders EXCEPT ![o.member] = Retain(@, code)]
       /\ institutionOrders' = [institutionOrders EXCEPT ![o.institution] = Retain(@, code)]
       /\ ordersByStatus' = [ordersByStatus EXCEPT ![o.status] = Retain(@, code)]
       /\ orders' = [orders EXCEPT ![code] = NoOrder]

Next ==
    \E who \in Account, code \in OrderCode :
        \/ \E m \in MemberCode, i \in InstitutionCode : CreateOrder(who, code, m, i)
        \/ \E n \in 0..5 : UpdateOrderStatus(who, code, n)
        \/ CancelOrder(who, code)
        \/ CompleteOrder(who, code)
        \/ DeleteOrder(who, code)

Spec == Init /\ [][Next]_vars

-----------------------------------------------------------------------------
(* Properties.                                                             *)

TypeOK ==
    /\ orders \in [OrderCode -> Order \cup {NoOrder}]
    /\ userOrders \in [MemberCode -> Bucket]
    /\ institutionOrders \in [InstitutionCode -> Bucket]
    /\ ordersByStatus \in [OrderStatus -> Bucket]

\* How often code c should occur in the bucket of key k of an index whose
\* key of an order is field f: once if the stored order has k there, else 0.
Expected(c, f, k) == IF orders[c] # NoOrder /\ orders[c][f] = k THEN 1 ELSE 0

\* Spec invariants I1-I3 for the three indexes of the pallet: each bucket
\* holds exactly the codes of the stored orders with its key, each once.
\* It fails if an extrinsic that writes the store and an index stops half
\* way (create_order hitting a full bucket after Orders::insert, a status
\* change hitting a full bucket after the retain), if delete_order misses a
\* bucket, or if a status change leaves the code in its old bucket.
IndexesMatchStore ==
    \A c \in OrderCode :
        /\ \A m \in MemberCode : userOrders[m][c] = Expected(c, "member", m)
        /\ \A i \in InstitutionCode : institutionOrders[i][c] = Expected(c, "institution", i)
        /\ \A s \in OrderStatus : ordersByStatus[s][c] = Expected(c, "status", s)

\* Every change of a stored order's status, by any of update_order_status,
\* cancel_order or complete_order, is an edge of validate_status_transition's
\* graph: cancel_order and complete_order check their own status lists and
\* never call the validator, so the two must agree.
StatusFollowsGraph ==
    [][\A c \in OrderCode :
         (/\ orders[c] # NoOrder /\ orders'[c] # NoOrder
          /\ orders'[c].status # orders[c].status)
           => ValidTransition(orders[c].status, orders'[c].status)]_vars

-----------------------------------------------------------------------------
(* Refinement: the pallet implements RecordLifecycle, a record being an    *)
(* order's status and creator, with validate_status_transition's graph.    *)

Lifecycle == INSTANCE RecordLifecycle WITH
    Key <- OrderCode, Status <- OrderStatus, Owner <- Account,
    Initial <- "Pending", Absent <- NoOrder,
    Edge <- {e \in OrderStatus \X OrderStatus : ValidTransition(e[1], e[2])},
    records <- [c \in OrderCode |->
                  IF orders[c] = NoOrder THEN NoOrder
                  ELSE [status |-> orders[c].status, creator |-> orders[c].creator]]

\* Spec section 8 (uniqueness, transition closure) and the lifecycle of
\* section 4.5 for the whole pallet: create_order only fills an empty code
\* and starts it Pending, the three status handlers move it along the
\* graph, delete_order removes it, and no handler changes an order's
\* creator or touches a second order.
LifecycleRefined == Lifecycle!Spec

=============================================================================
