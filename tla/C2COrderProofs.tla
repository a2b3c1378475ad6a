--------------------------- MODULE C2COrderProofs ---------------------------
(***************************************************************************)
(* Proofs about C2COrder for every value of its constants.                 *)
(***************************************************************************)
EXTENDS C2COrder, TLAPS

-----------------------------------------------------------------------------
(* Lemmas about the status graph and the bucket operations.                *)

\* validate_status_transition has no self-loop, so a status change always
\* moves the code between two different buckets.
LEMMA TransitionMoves ==
    ASSUME NEW from \in OrderStatus, NEW to \in OrderStatus,
           ValidTransition(from, to)
    PROVE  from # to
  BY DEF ValidTransition

\* Push and Retain keep a bucket a bucket.
LEMMA BucketOps ==
    ASSUME NEW b \in Bucket, NEW c \in OrderCode
    PROVE  /\ Push(b, c) \in Bucket
           /\ Retain(b, c) \in Bucket
           /\ Push(b, c)[c] = b[c] + 1
           /\ Retain(b, c)[c] = 0
           /\ \A d \in OrderCode \ {c} : Push(b, c)[d] = b[d] /\ Retain(b, c)[d] = b[d]
  BY DEF Bucket, Push, Retain

-----------------------------------------------------------------------------
(* Type correctness.                                                       *)

\* The status tail of update_order_status, cancel_order and complete_order
\* keeps the types, whether or not its push fails and is rolled back.
LEMMA ChangeStatusType ==
    ASSUME TypeOK, NEW code \in OrderCode, NEW new \in OrderStatus,
           orders[code] \in Order, ChangeStatus(code, new)
    PROVE  TypeOK'
  <1> DEFINE old     == orders[code].status
             removed == [ordersByStatus EXCEPT ![old] = Retain(@, code)]
             ok      == HasRoom(removed[new], StatusOrdersCap)
  <1>1. old \in OrderStatus
    BY DEF Order
  <1>2. removed \in [OrderStatus -> Bucket]
    BY <1>1, BucketOps DEF TypeOK
  <1>3. CASE ok \/ ~StorageLayer
    <2>1. orders' \in [OrderCode -> Order \cup {NoOrder}]
      BY <1>3 DEF ChangeStatus, Dispatch, TypeOK, Order
    <2>2. ordersByStatus' \in [OrderStatus -> Bucket]
      BY <1>2, <1>3, BucketOps DEF ChangeStatus, Dispatch
    <2>3. UNCHANGED <<userOrders, institutionOrders>>
      BY <1>3 DEF ChangeStatus, Dispatch
    <2>4. QED
      BY <2>1, <2>2, <2>3 DEF TypeOK
  <1>4. CASE ~(ok \/ ~StorageLayer)
    BY <1>4 DEF ChangeStatus, Dispatch, vars, TypeOK
  <1>5. QED
    BY <1>3, <1>4

\* Every step, with or without the storage layer, keeps the types.
LEMMA TypeStep == TypeOK /\ [Next]_vars => TypeOK'
  <1> SUFFICES ASSUME TypeOK, [Next]_vars PROVE TypeOK'
    OBVIOUS
  <1>1. ASSUME NEW who \in Account, NEW code \in OrderCode,
               NEW m \in MemberCode, NEW i \in InstitutionCode,
               CreateOrder(who, code, m, i)
        PROVE  TypeOK'
    <2> DEFINE okU == HasRoom(userOrders[m], UserOrdersCap)
               okI == okU /\ HasRoom(institutionOrders[i], InstitutionOrdersCap)
               okS == okI /\ HasRoom(ordersByStatus["Pending"], StatusOrdersCap)
    <2>1. CASE okS \/ ~StorageLayer
      <3>1. orders' \in [OrderCode -> Order \cup {NoOrder}]
        BY <1>1, <2>1 DEF CreateOrder, Dispatch, TypeOK, Order, OrderStatus
      <3>2. userOrders' \in [MemberCode -> Bucket]
        <4>1. Push(userOrders[m], code) \in Bucket
          BY BucketOps DEF TypeOK
        <4>2. QED
          BY <1>1, <2>1, <4>1 DEF CreateOrder, Dispatch, TypeOK
      <3>3. institutionOrders' \in [InstitutionCode -> Bucket]
        <4>1. Push(institutionOrders[i], code) \in Bucket
          BY BucketOps DEF TypeOK
        <4>2. QED
          BY <1>1, <2>1, <4>1 DEF CreateOrder, Dispatch, TypeOK
      <3>4. ordersByStatus' \in [OrderStatus -> Bucket]
        BY <1>1, <2>1, BucketOps DEF CreateOrder, Dispatch, TypeOK, OrderStatus
      <3>5. QED
        BY <3>1, <3>2, <3>3, <3>4 DEF TypeOK
    <2>2. CASE ~(okS \/ ~StorageLayer)
      BY <1>1, <2>2 DEF CreateOrder, Dispatch, vars, TypeOK
    <2>3. QED
      BY <2>1, <2>2
  <1>2. ASSUME NEW who \in Account, NEW code \in OrderCode, NEW n \in 0..5,
               UpdateOrderStatus(who, code, n)
        PROVE  TypeOK'
    <2>1. StatusCodes[n + 1] \in OrderStatus
      BY DEF StatusCodes, OrderStatus
    <2>2. orders[code] \in Order
      BY <1>2 DEF UpdateOrderStatus, Owns, TypeOK
    <2>3. QED
      BY <1>2, <2>1, <2>2, ChangeStatusType DEF UpdateOrderStatus
  <1>3. ASSUME NEW who \in Account, NEW code \in OrderCode,
               CancelOrder(who, code)
        PROVE  TypeOK'
    BY <1>3, ChangeStatusType DEF CancelOrder, Owns, TypeOK, OrderStatus
  <1>4. ASSUME NEW who \in Account, NEW code \in OrderCode,
               CompleteOrder(who, code)
        PROVE  TypeOK'
    BY <1>4, ChangeStatusType DEF CompleteOrder, Owns, TypeOK, OrderStatus
  <1>5. ASSUME NEW who \in Account, NEW code \in OrderCode,
               DeleteOrder(who, code)
        PROVE  TypeOK'
    <2>1. orders[code] \in Order
      BY <1>5 DEF DeleteOrder, Owns, TypeOK
    <2>2. QED
      BY <1>5, <2>1, BucketOps DEF DeleteOrder, TypeOK, Order
  <1>6. CASE UNCHANGED vars
    BY <1>6 DEF vars, TypeOK
  <1>7. QED
    BY <1>1, <1>2, <1>3, <1>4, <1>5, <1>6 DEF Next

\* Every reachable state is well typed, with or without the storage layer.
THEOREM TypeCorrect == Spec => []TypeOK
  <1>1. Init => TypeOK
    BY DEF Init, TypeOK, Bucket, EmptyBucket
  <1>2. TypeOK /\ [Next]_vars => TypeOK'
    BY TypeStep
  <1>3. QED
    BY <1>1, <1>2, PTL DEF Spec

-----------------------------------------------------------------------------
(* Index consistency, with the storage layer.                              *)

\* The inductive invariant: IndexesMatchStore needs the types to be read.
IInv == TypeOK /\ IndexesMatchStore

\* create_order that passes its checks leaves the indexes matching the store:
\* the new code occurred in no bucket (the order did not exist) and is
\* pushed once into each of its three buckets; a failing push rolls back.
LEMMA CreatePreserves ==
    ASSUME StorageLayer, IInv,
           NEW who \in Account, NEW code \in OrderCode,
           NEW m \in MemberCode, NEW i \in InstitutionCode,
           CreateOrder(who, code, m, i)
    PROVE  IndexesMatchStore'
  <1> DEFINE okU == HasRoom(userOrders[m], UserOrdersCap)
             okI == okU /\ HasRoom(institutionOrders[i], InstitutionOrdersCap)
             okS == okI /\ HasRoom(ordersByStatus["Pending"], StatusOrdersCap)
             rec == [member |-> m, institution |-> i, status |-> "Pending", creator |-> who]
  <1>1. CASE ~okS
    BY <1>1 DEF CreateOrder, Dispatch, vars, IInv, IndexesMatchStore, Expected
  <1>2. CASE okS
    <2>1. /\ orders' = [orders EXCEPT ![code] = rec]
          /\ userOrders' = [userOrders EXCEPT ![m] = Push(@, code)]
          /\ institutionOrders' = [institutionOrders EXCEPT ![i] = Push(@, code)]
          /\ ordersByStatus' = [ordersByStatus EXCEPT !["Pending"] = Push(@, code)]
      BY <1>2 DEF CreateOrder, Dispatch
    <2>2. orders[code] = NoOrder
      BY DEF CreateOrder
    <2>3. /\ \A mm \in MemberCode : userOrders[mm][code] = 0
          /\ \A ii \in InstitutionCode : institutionOrders[ii][code] = 0
          /\ \A s \in OrderStatus : ordersByStatus[s][code] = 0
      BY <2>2 DEF IInv, IndexesMatchStore, Expected
    <2> SUFFICES ASSUME NEW c \in OrderCode
                 PROVE  /\ \A mm \in MemberCode : userOrders'[mm][c] = Expected(c, "member", mm)'
                        /\ \A ii \in InstitutionCode : institutionOrders'[ii][c] = Expected(c, "institution", ii)'
                        /\ \A s \in OrderStatus : ordersByStatus'[s][c] = Expected(c, "status", s)'
      BY DEF IndexesMatchStore
    <2>4. CASE c = code
      BY <2>1, <2>3, <2>4, NoOrderAssumption
         DEF IInv, TypeOK, Bucket, Push, Expected, Order, OrderStatus
    <2>5. CASE c # code
      BY <2>1, <2>5 DEF IInv, TypeOK, IndexesMatchStore, Bucket, Push, Expected, OrderStatus
    <2>6. QED
      BY <2>4, <2>5
  <1>3. QED
    BY <1>1, <1>2

\* A status change that passes its checks moves the code from the bucket of
\* the old status to that of the new one; a failing push rolls back.
LEMMA ChangeStatusPreserves ==
    ASSUME StorageLayer, IInv,
           NEW code \in OrderCode, NEW new \in OrderStatus,
           orders[code] # NoOrder, orders[code].status # new,
           ChangeStatus(code, new)
    PROVE  IndexesMatchStore'
  <1> DEFINE old     == orders[code].status
             removed == [ordersByStatus EXCEPT ![old] = Retain(@, code)]
             ok      == HasRoom(removed[new], StatusOrdersCap)
  <1>1. CASE ~ok
    BY <1>1 DEF ChangeStatus, Dispatch, vars, IInv, IndexesMatchStore, Expected
  <1>2. CASE ok
    <2>1. /\ orders' = [orders EXCEPT ![code].status = new]
          /\ ordersByStatus' = [removed EXCEPT ![new] = Push(@, code)]
          /\ UNCHANGED <<userOrders, institutionOrders>>
      BY <1>2 DEF ChangeStatus, Dispatch
    <2>2. orders[code] \in Order /\ old \in OrderStatus
      BY DEF IInv, TypeOK, Order
    <2>3. ordersByStatus[new][code] = 0
      BY <2>2 DEF IInv, IndexesMatchStore, Expected
    <2> SUFFICES ASSUME NEW c \in OrderCode
                 PROVE  /\ \A mm \in MemberCode : userOrders'[mm][c] = Expected(c, "member", mm)'
                        /\ \A ii \in InstitutionCode : institutionOrders'[ii][c] = Expected(c, "institution", ii)'
                        /\ \A s \in OrderStatus : ordersByStatus'[s][c] = Expected(c, "status", s)'
      BY DEF IndexesMatchStore
    <2>4. orders'[c] # NoOrder <=> orders[c] # NoOrder
      BY <2>1, <2>2, NoOrderAssumption DEF Order
    <2>5. orders[c] # NoOrder =>
             /\ orders'[c].member = orders[c].member
             /\ orders'[c].institution = orders[c].institution
      BY <2>1, <2>2 DEF IInv, TypeOK, Order
    <2>6. /\ \A mm \in MemberCode : userOrders'[mm][c] = Expected(c, "member", mm)'
          /\ \A ii \in InstitutionCode : institutionOrders'[ii][c] = Expected(c, "institution", ii)'
      BY <2>1, <2>4, <2>5 DEF IInv, IndexesMatchStore, Expected
    <2>7. ASSUME NEW s \in OrderStatus
          PROVE  ordersByStatus'[s][c] = Expected(c, "status", s)'
      <3>1. ordersByStatus[s] \in Bucket /\ removed[s] \in Bucket
        BY <2>2, BucketOps DEF IInv, TypeOK
      <3>2. CASE c = code
        <4>1. orders'[c].status = new /\ orders'[c] # NoOrder
          BY <2>1, <2>2, <2>4, <3>2 DEF IInv, TypeOK, Order
        <4>2. removed[s][code] = IF s = old THEN 0 ELSE ordersByStatus[s][code]
          BY <2>2, <3>1 DEF IInv, TypeOK, Bucket, Retain
        <4>3. s # old => ordersByStatus[s][code] = 0
          BY <2>2 DEF IInv, IndexesMatchStore, Expected
        <4>4. ordersByStatus'[s][code] = IF s = new THEN removed[s][code] + 1 ELSE removed[s][code]
          <5>1. removed \in [OrderStatus -> Bucket]
            BY <2>2, BucketOps DEF IInv, TypeOK
          <5>2. Push(removed[new], code)[code] = removed[new][code] + 1
            BY <5>1, BucketOps
          <5>3. QED
            BY <2>1, <5>1, <5>2
        <4>5. QED
          BY <2>3, <3>2, <4>1, <4>2, <4>3, <4>4 DEF Expected
      <3>3. CASE c # code
        <4>1. ordersByStatus'[s][c] = ordersByStatus[s][c]
          BY <2>1, <3>1, <3>3, <2>2 DEF IInv, TypeOK, Bucket, Push, Retain
        <4>2. orders'[c] = orders[c]
          BY <2>1, <3>3
        <4>3. QED
          BY <4>1, <4>2 DEF IInv, IndexesMatchStore, Expected
      <3>4. QED
        BY <3>2, <3>3
    <2>8. QED
      BY <2>6, <2>7
  <1>3. QED
    BY <1>1, <1>2

\* delete_order retains the code out of the three buckets its order names,
\* the only ones holding it.
LEMMA DeletePreserves ==
    ASSUME IInv, NEW who \in Account, NEW code \in OrderCode,
           DeleteOrder(who, code)
    PROVE  IndexesMatchStore'
  <1>1. orders[code] \in Order
    BY DEF DeleteOrder, Owns, IInv, TypeOK
  <1> SUFFICES ASSUME NEW c \in OrderCode
               PROVE  /\ \A mm \in MemberCode : userOrders'[mm][c] = Expected(c, "member", mm)'
                      /\ \A ii \in InstitutionCode : institutionOrders'[ii][c] = Expected(c, "institution", ii)'
                      /\ \A s \in OrderStatus : ordersByStatus'[s][c] = Expected(c, "status", s)'
    BY DEF IndexesMatchStore
  <1>2. CASE c = code
    BY <1>1, <1>2 DEF DeleteOrder, IInv, TypeOK, IndexesMatchStore, Bucket, Retain, Expected, Order
  <1>3. CASE c # code
    BY <1>1, <1>3 DEF DeleteOrder, IInv, TypeOK, IndexesMatchStore, Bucket, Retain, Expected, Order
  <1>4. QED
    BY <1>2, <1>3

\* Spec invariants I1-I3: with the storage layer FRAME puts around every
\* dispatchable, each bucket of UserOrders, InstitutionOrders and
\* OrdersByStatus holds exactly the codes of the stored orders with its key,
\* once each, in every reachable state and for any bucket bounds.
THEOREM IndexesConsistent == StorageLayer => (Spec => []IndexesMatchStore)
  <1> SUFFICES ASSUME StorageLayer PROVE Spec => []IndexesMatchStore
    OBVIOUS
  <1>1. Init => IInv
    BY DEF Init, IInv, TypeOK, IndexesMatchStore, Expected, Bucket, EmptyBucket
  <1>2. IInv /\ [Next]_vars => IInv'
    <2> SUFFICES ASSUME IInv, [Next]_vars PROVE IInv'
      OBVIOUS
    <2>1. TypeOK'
      BY TypeStep DEF IInv
    <2>2. ASSUME NEW who \in Account, NEW code \in OrderCode,
                 NEW m \in MemberCode, NEW i \in InstitutionCode,
                 CreateOrder(who, code, m, i)
          PROVE  IndexesMatchStore'
      BY <2>2, CreatePreserves
    <2>3. ASSUME NEW who \in Account, NEW code \in OrderCode, NEW n \in 0..5,
                 UpdateOrderStatus(who, code, n)
          PROVE  IndexesMatchStore'
      <3>1. StatusCodes[n + 1] \in OrderStatus /\ orders[code] \in Order
        BY <2>3 DEF StatusCodes, OrderStatus, UpdateOrderStatus, Owns, IInv, TypeOK
      <3>2. orders[code].status # StatusCodes[n + 1]
        BY <2>3, <3>1, TransitionMoves DEF UpdateOrderStatus, Order
      <3>3. QED
        BY <2>3, <3>1, <3>2, ChangeStatusPreserves DEF UpdateOrderStatus, Owns
    <2>4. ASSUME NEW who \in Account, NEW code \in OrderCode,
                 CancelOrder(who, code)
          PROVE  IndexesMatchStore'
      BY <2>4, ChangeStatusPreserves DEF CancelOrder, Owns, OrderStatus
    <2>5. ASSUME NEW who \in Account, NEW code \in OrderCode,
                 CompleteOrder(who, code)
          PROVE  IndexesMatchStore'
      BY <2>5, ChangeStatusPreserves DEF CompleteOrder, Owns, OrderStatus
    <2>6. ASSUME NEW who \in Account, NEW code \in OrderCode,
                 DeleteOrder(who, code)
          PROVE  IndexesMatchStore'
      BY <2>6, DeletePreserves
    <2>7. CASE UNCHANGED vars
      BY <2>7 DEF vars, IInv, TypeOK, IndexesMatchStore, Expected
    <2>8. QED
      BY <2>1, <2>2, <2>3, <2>4, <2>5, <2>6, <2>7 DEF Next, IInv
  <1>3. QED
    BY <1>1, <1>2, PTL DEF Spec, IInv


-----------------------------------------------------------------------------
(* Status changes follow the transition graph, with or without the storage *)
(* layer.                                                                  *)

\* The step StatusFollowsGraph constrains.
GraphStep ==
    \A c \in OrderCode :
        (/\ orders[c] # NoOrder /\ orders'[c] # NoOrder
         /\ orders'[c].status # orders[c].status)
          => ValidTransition(orders[c].status, orders'[c].status)

\* The status tail moves one order to a status its caller has checked, or
\* writes no order at all.
LEMMA ChangeStatusGraph ==
    ASSUME TypeOK, NEW code \in OrderCode, NEW new \in OrderStatus,
           orders[code] \in Order,
           ValidTransition(orders[code].status, new),
           ChangeStatus(code, new)
    PROVE  GraphStep
  <1> DEFINE old     == orders[code].status
             removed == [ordersByStatus EXCEPT ![old] = Retain(@, code)]
             ok      == HasRoom(removed[new], StatusOrdersCap)
  <1>1. \/ orders' = [orders EXCEPT ![code].status = new]
        \/ orders' = orders
    BY DEF ChangeStatus, Dispatch, vars
  <1>2. CASE orders' = orders
    BY <1>2 DEF GraphStep
  <1>3. CASE orders' = [orders EXCEPT ![code].status = new]
    <2> SUFFICES ASSUME NEW c \in OrderCode,
                        orders[c] # NoOrder, orders'[c] # NoOrder,
                        orders'[c].status # orders[c].status
                 PROVE  ValidTransition(orders[c].status, orders'[c].status)
      BY DEF GraphStep
    <2>1. CASE c = code
      BY <1>3, <2>1 DEF TypeOK, Order
    <2>2. CASE c # code
      BY <1>3, <2>2 DEF TypeOK
    <2>3. QED
      BY <2>1, <2>2
  <1>4. QED
    BY <1>1, <1>2, <1>3

\* Every step keeps status changes on the graph, given the types.
LEMMA GraphStepHolds == TypeOK /\ [Next]_vars => [GraphStep]_vars
  <1> SUFFICES ASSUME TypeOK, [Next]_vars PROVE [GraphStep]_vars
    OBVIOUS
  <1>1. ASSUME NEW who \in Account, NEW code \in OrderCode,
               NEW m \in MemberCode, NEW i \in InstitutionCode,
               CreateOrder(who, code, m, i)
        PROVE  GraphStep
    <2>1. \A c \in OrderCode \ {code} : orders'[c] = orders[c]
      BY <1>1 DEF CreateOrder, Dispatch, vars, TypeOK
    <2>2. orders[code] = NoOrder
      BY <1>1 DEF CreateOrder
    <2>3. QED
      BY <2>1, <2>2 DEF GraphStep
  <1>2. ASSUME NEW who \in Account, NEW code \in OrderCode, NEW n \in 0..5,
               UpdateOrderStatus(who, code, n)
        PROVE  GraphStep
    <2>1. StatusCodes[n + 1] \in OrderStatus
      BY DEF StatusCodes, OrderStatus
    <2>2. orders[code] \in Order
      BY <1>2 DEF UpdateOrderStatus, Owns, TypeOK
    <2>3. QED
      BY <1>2, <2>1, <2>2, ChangeStatusGraph DEF UpdateOrderStatus
  <1>3. ASSUME NEW who \in Account, NEW code \in OrderCode,
               CancelOrder(who, code)
        PROVE  GraphStep
    <2>1. orders[code] \in Order
      BY <1>3 DEF CancelOrder, Owns, TypeOK
    <2>2. ValidTransition(orders[code].status, "Cancelled")
      BY <1>3 DEF CancelOrder, ValidTransition
    <2>3. QED
      BY <1>3, <2>1, <2>2, ChangeStatusGraph DEF CancelOrder, OrderStatus
  <1>4. ASSUME NEW who \in Account, NEW code \in OrderCode,
               CompleteOrder(who, code)
        PROVE  GraphStep
    <2>1. orders[code] \in Order
      BY <1>4 DEF CompleteOrder, Owns, TypeOK
    <2>2. ValidTransition(orders[code].status, "Completed")
      BY <1>4 DEF CompleteOrder, ValidTransition
    <2>3. QED
      BY <1>4, <2>1, <2>2, ChangeStatusGraph DEF CompleteOrder, OrderStatus
  <1>5. ASSUME NEW who \in Account, NEW code \in OrderCode,
               DeleteOrder(who, code)
        PROVE  GraphStep
    <2>1. \A c \in OrderCode \ {code} : orders'[c] = orders[c]
      BY <1>5 DEF DeleteOrder, TypeOK
    <2>2. orders'[code] = NoOrder
      BY <1>5 DEF DeleteOrder, TypeOK
    <2>3. QED
      BY <2>1, <2>2 DEF GraphStep
  <1>6. CASE UNCHANGED vars
    BY <1>6
  <1>7. QED
    BY <1>1, <1>2, <1>3, <1>4, <1>5, <1>6 DEF Next

\* StatusFollowsGraph for every value of the constants, with or without the
\* storage layer: cancel_order's and complete_order's own status lists only
\* ever take edges of validate_status_transition.
THEOREM StatusChangesValid == Spec => StatusFollowsGraph
  <1>1. Spec => [][GraphStep]_vars
    BY TypeCorrect, GraphStepHolds, PTL DEF Spec
  <1>2. QED
    BY <1>1 DEF StatusFollowsGraph, GraphStep

-----------------------------------------------------------------------------
(* The pallet implements RecordLifecycle, with or without the storage      *)
(* layer.                                                                  *)

\* The records RecordLifecycle sees: the refinement mapping of C2COrder.
LifeOf == [c \in OrderCode |->
             IF orders[c] = NoOrder THEN NoOrder
             ELSE [status |-> orders[c].status, creator |-> orders[c].creator]]

\* The status tail is a Move of its order along the graph, or no change.
LEMMA ChangeStatusLife ==
    ASSUME TypeOK, NEW code \in OrderCode, NEW new \in OrderStatus,
           orders[code] \in Order,
           ValidTransition(orders[code].status, new),
           ChangeStatus(code, new)
    PROVE  [Lifecycle!Next]_LifeOf
  <1> DEFINE old     == orders[code].status
             removed == [ordersByStatus EXCEPT ![old] = Retain(@, code)]
             ok      == HasRoom(removed[new], StatusOrdersCap)
  <1>1. \/ orders' = [orders EXCEPT ![code].status = new]
        \/ orders' = orders
    BY DEF ChangeStatus, Dispatch, vars
  <1>2. CASE orders' = orders
    BY <1>2 DEF LifeOf
  <1>3. CASE orders' = [orders EXCEPT ![code].status = new]
    <2>1. orders[code] # NoOrder
      BY NoOrderAssumption
    <2>2. LifeOf[code] = [status |-> old, creator |-> orders[code].creator]
      BY <2>1 DEF LifeOf
    <2>3. LifeOf[code] # NoOrder
      BY <2>2, NoRecordAssumption DEF Order
    <2>4. <<LifeOf[code].status, new>>
            \in {e \in OrderStatus \X OrderStatus : ValidTransition(e[1], e[2])}
      BY <2>2 DEF Order
    <2>5. orders'[code] = [orders[code] EXCEPT !.status = new]
      BY <1>3 DEF TypeOK
    <2>6. orders'[code] \in Order /\ orders'[code] # NoOrder
      BY <2>5, NoOrderAssumption DEF Order
    <2>7. \A c \in OrderCode \ {code} : orders'[c] = orders[c]
      BY <1>3 DEF TypeOK
    <2>8. LifeOf' = [LifeOf EXCEPT ![code].status = new]
      <3>1. LifeOf'[code] = [status |-> new, creator |-> orders[code].creator]
        <4>1. orders'[code].status = new /\ orders'[code].creator = orders[code].creator
          BY <2>5 DEF Order
        <4>2. QED
          BY <2>6, <4>1 DEF LifeOf
      <3>2. \A c \in OrderCode \ {code} : LifeOf'[c] = LifeOf[c]
        BY <2>7 DEF LifeOf
      <3>3. [LifeOf EXCEPT ![code].status = new][code]
              = [status |-> new, creator |-> orders[code].creator]
        BY <2>2 DEF LifeOf
      <3>4. QED
        BY <3>1, <3>2, <3>3 DEF LifeOf
    <2>9. Lifecycle!Move(code, new)
      BY <2>3, <2>4, <2>8 DEF Lifecycle!Move, LifeOf
    <2>10. QED
      BY <2>9 DEF Lifecycle!Next
  <1>4. QED
    BY <1>1, <1>2, <1>3

\* Every step is a step of RecordLifecycle under the mapping, or leaves the
\* mapped records alone.
LEMMA LifeStep == TypeOK /\ [Next]_vars => [Lifecycle!Next]_LifeOf
  <1> SUFFICES ASSUME TypeOK, [Next]_vars PROVE [Lifecycle!Next]_LifeOf
    OBVIOUS
  <1>1. ASSUME NEW who \in Account, NEW code \in OrderCode,
               NEW m \in MemberCode, NEW i \in InstitutionCode,
               CreateOrder(who, code, m, i)
        PROVE  [Lifecycle!Next]_LifeOf
    <2> DEFINE rec == [member |-> m, institution |-> i, status |-> "Pending", creator |-> who]
    <2>1. \/ orders' = [orders EXCEPT ![code] = rec]
          \/ orders' = orders
      BY <1>1 DEF CreateOrder, Dispatch, vars
    <2>2. CASE orders' = orders
      BY <2>2 DEF LifeOf
    <2>3. CASE orders' = [orders EXCEPT ![code] = rec]
      <3>1. LifeOf[code] = NoOrder
        BY <1>1 DEF CreateOrder, LifeOf
      <3>2. rec \in Order /\ rec # NoOrder
        BY NoOrderAssumption DEF Order, OrderStatus
      <3>3. orders'[code] = rec /\ \A c \in OrderCode \ {code} : orders'[c] = orders[c]
        BY <2>3 DEF TypeOK
      <3>4. LifeOf' = [LifeOf EXCEPT ![code] = [status |-> "Pending", creator |-> who]]
        <4>1. LifeOf'[code] = [status |-> "Pending", creator |-> who]
          BY <3>2, <3>3 DEF LifeOf
        <4>2. \A c \in OrderCode \ {code} : LifeOf'[c] = LifeOf[c]
          BY <3>3 DEF LifeOf
        <4>3. QED
          BY <4>1, <4>2 DEF LifeOf
      <3>5. Lifecycle!Create(code, who)
        BY <3>1, <3>4 DEF Lifecycle!Create, LifeOf
      <3>6. QED
        BY <3>5 DEF Lifecycle!Next
    <2>4. QED
      BY <2>1, <2>2, <2>3
  <1>2. ASSUME NEW who \in Account, NEW code \in OrderCode, NEW n \in 0..5,
               UpdateOrderStatus(who, code, n)
        PROVE  [Lifecycle!Next]_LifeOf
    <2>1. StatusCodes[n + 1] \in OrderStatus
      BY DEF StatusCodes, OrderStatus
    <2>2. orders[code] \in Order
      BY <1>2 DEF UpdateOrderStatus, Owns, TypeOK
    <2>3. QED
      BY <1>2, <2>1, <2>2, ChangeStatusLife DEF UpdateOrderStatus
  <1>3. ASSUME NEW who \in Account, NEW code \in OrderCode,
               CancelOrder(who, code)
        PROVE  [Lifecycle!Next]_LifeOf
    <2>1. orders[code] \in Order
      BY <1>3 DEF CancelOrder, Owns, TypeOK
    <2>2. ValidTransition(orders[code].status, "Cancelled")
      BY <1>3 DEF CancelOrder, ValidTransition
    <2>3. QED
      BY <1>3, <2>1, <2>2, ChangeStatusLife DEF CancelOrder, OrderStatus
  <1>4. ASSUME NEW who \in Account, NEW code \in OrderCode,
               CompleteOrder(who, code)
        PROVE  [Lifecycle!Next]_LifeOf
    <2>1. orders[code] \in Order
      BY <1>4 DEF CompleteOrder, Owns, TypeOK
    <2>2. ValidTransition(orders[code].status, "Completed")
      BY <1>4 DEF CompleteOrder, ValidTransition
    <2>3. QED
      BY <1>4, <2>1, <2>2, ChangeStatusLife DEF CompleteOrder, OrderStatus
  <1>5. ASSUME NEW who \in Account, NEW code \in OrderCode,
               DeleteOrder(who, code)
        PROVE  [Lifecycle!Next]_LifeOf
    <2>1. orders[code] \in Order
      BY <1>5 DEF DeleteOrder, Owns, TypeOK
    <2>2. LifeOf[code] # NoOrder
      BY <2>1, NoRecordAssumption, NoOrderAssumption DEF LifeOf, Order
    <2>3. orders'[code] = NoOrder /\ \A c \in OrderCode \ {code} : orders'[c] = orders[c]
      BY <1>5 DEF DeleteOrder, TypeOK
    <2>4. LifeOf' = [LifeOf EXCEPT ![code] = NoOrder]
      BY <2>3 DEF LifeOf
    <2>5. Lifecycle!Remove(code)
      BY <2>2, <2>4 DEF Lifecycle!Remove, LifeOf
    <2>6. QED
      BY <2>5 DEF Lifecycle!Next
  <1>6. CASE UNCHANGED vars
    BY <1>6 DEF vars, LifeOf
  <1>7. QED
    BY <1>1, <1>2, <1>3, <1>4, <1>5, <1>6 DEF Next

\* LifecycleRefined for every value of the constants, with or without the
\* storage layer: create_order never overwrites, the three status handlers
\* only take edges of validate_status_transition, and no handler changes a
\* creator.
THEOREM Refinement == Spec => LifecycleRefined
  <1>1. Init => Lifecycle!Init
    BY DEF Init, Lifecycle!Init
  <1>2. Spec => [][Lifecycle!Next]_LifeOf
    BY TypeCorrect, LifeStep, PTL DEF Spec
  <1>3. QED
    BY <1>1, <1>2, PTL DEF Spec, LifecycleRefined, Lifecycle!Spec, LifeOf

-----------------------------------------------------------------------------
(* What the pallet inherits from RecordLifecycle through the refinement.   *)

\* RecordLifecycleProofs for the records of C2COrder, with the
\* substitutions of Lifecycle written as they are there.
LifeThm == INSTANCE RecordLifecycleProofs WITH
    Key <- OrderCode, Status <- OrderStatus, Owner <- Account,
    Initial <- "Pending", Absent <- NoOrder,
    Edge <- {e \in OrderStatus \X OrderStatus : ValidTransition(e[1], e[2])},
    records <- [c \in OrderCode |->
                  IF orders[c] = NoOrder THEN NoOrder
                  ELSE [status |-> orders[c].status, creator |-> orders[c].creator]]

\* RecordLifecycle's promises, for the stored orders of the pallet: a stored
\* order keeps its creator through every status handler, create_order
\* stores it Pending, and its status changes only along the graph.
THEOREM LifecycleSafety ==
    Spec => /\ Lifecycle!CreatorFixed
            /\ Lifecycle!CreatedInitial
            /\ Lifecycle!MovesAlongEdges
  <1>1. "Pending" \in OrderStatus
    BY DEF OrderStatus
  <1>2. Lifecycle!Spec => /\ Lifecycle!CreatorFixed
                          /\ Lifecycle!CreatedInitial
                          /\ Lifecycle!MovesAlongEdges
    BY <1>1, LifeThm!CreatorStable, LifeThm!StartsInitial, LifeThm!FollowsEdges, PTL
    DEF Lifecycle!Spec, LifeThm!Spec, Lifecycle!CreatorFixed, LifeThm!CreatorFixed,
        Lifecycle!CreatedInitial, LifeThm!CreatedInitial,
        Lifecycle!MovesAlongEdges, LifeThm!MovesAlongEdges,
        Lifecycle!Init, LifeThm!Init, Lifecycle!Next, LifeThm!Next,
        Lifecycle!Create, LifeThm!Create, Lifecycle!Move, LifeThm!Move,
        Lifecycle!Remove, LifeThm!Remove
  <1>3. QED
    BY <1>2, Refinement DEF LifecycleRefined

=============================================================================
