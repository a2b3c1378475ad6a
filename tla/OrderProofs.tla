----------------------------- MODULE OrderProofs -----------------------------
(***************************************************************************)
(* Proofs about Order for every value of its constants.  A stored order's *)
(* totals are typed by the set of totals create_order can compute          *)
(* (Totals), so no proof reasons about the totals loop itself.             *)
(***************************************************************************)
EXTENDS Order, TLAPS

\* A bucket of UserOrders or InstitutionOrders.
OBucket == [OrderCode -> Nat]

\* Push and Retain keep a bucket a bucket, and touch only their code.
LEMMA BucketOps ==
    ASSUME NEW b \in OBucket, NEW c \in OrderCode
    PROVE  /\ Push(b, c) \in OBucket
           /\ Retain(b, c) \in OBucket
           /\ Push(b, c)[c] = b[c] + 1
           /\ Retain(b, c)[c] = 0
           /\ \A d \in OrderCode \ {c} : Push(b, c)[d] = b[d] /\ Retain(b, c)[d] = b[d]
  BY DEF OBucket, Push, Retain

\* The order create_order stores.
NewOrder(who, m, i, items, freight) ==
    [member |-> m, institution |-> i, status |-> "Pending",
     creator |-> who, items |-> items, freight |-> freight,
     totalAmount |-> OrderTotals(items, freight).amount,
     totalWeight |-> OrderTotals(items, freight).weight,
     express |-> EmptyExpress]

\* create_order stores an order of the type, whatever its totals loop
\* computes.
LEMMA NewOrderStored ==
    ASSUME NEW who \in Account, NEW m \in MemberCode, NEW i \in InstitutionCode,
           NEW items \in ItemLists, NEW freight \in Freight
    PROVE  /\ NewOrder(who, m, i, items, freight) \in Stored
           /\ NewOrder(who, m, i, items, freight) # NoOrder
  <1>1. OrderTotals(items, freight) \in Totals
    BY DEF Totals
  <1>2. /\ OrderTotals(items, freight).amount \in {t.amount : t \in Totals}
        /\ OrderTotals(items, freight).weight \in {t.weight : t \in Totals}
    BY <1>1
  <1>3. NewOrder(who, m, i, items, freight) \in Stored
    BY <1>2, OrderBoundAssumption DEF NewOrder, Stored, OrderStatus
  <1>4. QED
    BY <1>3, NoOrderAssumption

\* create_order writes the new order and pushes, or (a push failing under
\* the storage layer) nothing.
LEMMA CreateCases ==
    ASSUME NEW who \in Account, NEW code \in OrderCode, NEW m \in MemberCode,
           NEW i \in InstitutionCode, NEW items \in ItemLists, NEW f \in Freight,
           CreateOrder(who, code, m, i, items, f)
    PROVE  /\ orders[code] = NoOrder
           /\ \/ /\ orders' = [orders EXCEPT ![code] = NewOrder(who, m, i, items, f)]
                 /\ userOrders' \in {userOrders, [userOrders EXCEPT ![m] = Push(@, code)]}
                 /\ institutionOrders' \in {institutionOrders,
                                            [institutionOrders EXCEPT ![i] = Push(@, code)]}
              \/ UNCHANGED vars
  BY DEF CreateOrder, Dispatch, NewOrder

-----------------------------------------------------------------------------
(* Type correctness.                                                       *)

\* Every step, with or without the storage layer, keeps the types.
LEMMA TypeStep == TypeOK /\ [Next]_vars => TypeOK'
  <1> SUFFICES ASSUME TypeOK, [Next]_vars PROVE TypeOK'
    OBVIOUS
  <1> USE DEF TypeOK
  <1>1. ASSUME NEW who \in Account, NEW code \in OrderCode, NEW m \in MemberCode,
               NEW i \in InstitutionCode, NEW items \in ItemLists, NEW f \in Freight,
               CreateOrder(who, code, m, i, items, f)
        PROVE  TypeOK'
    <2>1. NewOrder(who, m, i, items, f) \in Stored
      BY NewOrderStored
    <2>2. Push(userOrders[m], code) \in OBucket /\ Push(institutionOrders[i], code) \in OBucket
      BY BucketOps DEF OBucket
    <2>3. CASE /\ orders' = [orders EXCEPT ![code] = NewOrder(who, m, i, items, f)]
               /\ userOrders' \in {userOrders, [userOrders EXCEPT ![m] = Push(@, code)]}
               /\ institutionOrders' \in {institutionOrders,
                                          [institutionOrders EXCEPT ![i] = Push(@, code)]}
      <3>1. orders' \in [OrderCode -> Stored \cup {NoOrder}]
        BY <2>1, <2>3
      <3>2. userOrders' \in [MemberCode -> [OrderCode -> Nat]]
        BY <2>2, <2>3 DEF OBucket
      <3>3. institutionOrders' \in [InstitutionCode -> [OrderCode -> Nat]]
        BY <2>2, <2>3 DEF OBucket
      <3>4. QED
        BY <3>1, <3>2, <3>3
    <2>4. CASE UNCHANGED vars
      BY <2>4 DEF vars
    <2>5. QED
      BY <1>1, <2>3, <2>4, CreateCases
  <1>2. ASSUME NEW who \in Account, NEW code \in OrderCode, NEW n \in 0..5,
               UpdateOrderStatus(who, code, n)
        PROVE  TypeOK'
    <2>1. StatusCodes[n + 1] \in OrderStatus
      BY DEF StatusCodes, OrderStatus
    <2>2. QED
      BY <1>2, <2>1 DEF UpdateOrderStatus, Owns, Stored
  <1>3. ASSUME NEW who \in Account, NEW code \in OrderCode, NEW e \in Express,
               UpdateExpressInfo(who, code, e)
        PROVE  TypeOK'
    BY <1>3 DEF UpdateExpressInfo, Owns, Stored
  <1>4. ASSUME NEW who \in Account, NEW code \in OrderCode, CancelOrder(who, code)
        PROVE  TypeOK'
    BY <1>4 DEF CancelOrder, Owns, Stored, OrderStatus
  <1>5. ASSUME NEW who \in Account, NEW code \in OrderCode, DeleteOrder(who, code)
        PROVE  TypeOK'
    <2>1. orders[code] \in Stored
      BY <1>5 DEF DeleteOrder, Owns
    <2>2. /\ Retain(userOrders[orders[code].member], code) \in OBucket
          /\ Retain(institutionOrders[orders[code].institution], code) \in OBucket
      BY <2>1, BucketOps DEF Stored, OBucket
    <2>3. QED
      BY <1>5, <2>1, <2>2 DEF DeleteOrder, Stored, OBucket
  <1>6. CASE UNCHANGED vars
    BY <1>6 DEF vars
  <1>7. QED
    BY <1>1, <1>2, <1>3, <1>4, <1>5, <1>6 DEF Next

\* Every reachable state is well typed, with or without the storage layer.
THEOREM TypeCorrect == Spec => []TypeOK
  <1>1. Init => TypeOK
    BY DEF Init, TypeOK
  <1>2. QED
    BY <1>1, TypeStep, PTL DEF Spec


-----------------------------------------------------------------------------
(* Index consistency, with the storage layer.                              *)

\* The inductive invariant: OrderIndexesMatchStore needs the types to be
\* read.
IInv == TypeOK /\ OrderIndexesMatchStore

\* What OrderIndexesMatchStore says of one code.
IndexedAt(c) ==
    /\ \A m \in MemberCode :
          userOrders[m][c] = IF orders[c] # NoOrder /\ orders[c].member = m THEN 1 ELSE 0
    /\ \A i \in InstitutionCode :
          institutionOrders[i][c] = IF orders[c] # NoOrder /\ orders[c].institution = i THEN 1 ELSE 0

\* A step that rewrites one stored order, keeping its member and
\* institution, and leaves both indexes alone keeps them exact.
LEMMA RewriteKeeps ==
    ASSUME IInv, NEW code \in OrderCode, orders[code] \in Stored,
           orders' = [orders EXCEPT ![code] = orders'[code]],
           orders'[code] \in Stored,
           orders'[code].member = orders[code].member,
           orders'[code].institution = orders[code].institution,
           UNCHANGED <<userOrders, institutionOrders>>
    PROVE  OrderIndexesMatchStore'
  <1> SUFFICES ASSUME NEW c \in OrderCode PROVE IndexedAt(c)'
    BY DEF OrderIndexesMatchStore, IndexedAt
  <1>1. orders[code] # NoOrder /\ orders'[code] # NoOrder
    BY NoOrderAssumption
  <1>2. CASE c = code
    BY <1>1, <1>2 DEF IInv, OrderIndexesMatchStore, IndexedAt
  <1>3. CASE c # code
    <2>1. orders'[c] = orders[c]
      BY <1>3 DEF IInv, TypeOK
    <2>2. QED
      BY <2>1 DEF IInv, OrderIndexesMatchStore, IndexedAt
  <1>4. QED
    BY <1>2, <1>3

\* Writing a stored order's status keeps the indexes exact.
LEMMA StatusWriteKeeps ==
    ASSUME IInv, NEW code \in OrderCode, orders[code] \in Stored,
           NEW st \in OrderStatus, orders' = [orders EXCEPT ![code].status = st],
           UNCHANGED <<userOrders, institutionOrders>>
    PROVE  OrderIndexesMatchStore'
  <1>1. /\ orders' = [orders EXCEPT ![code] = orders'[code]]
        /\ orders'[code] \in Stored
        /\ orders'[code].member = orders[code].member
        /\ orders'[code].institution = orders[code].institution
    BY DEF IInv, TypeOK, Stored
  <1>2. QED
    BY <1>1, RewriteKeeps

\* Writing a stored order's express fields keeps the indexes exact.
LEMMA ExpressWriteKeeps ==
    ASSUME IInv, NEW code \in OrderCode, orders[code] \in Stored,
           NEW e \in Express, orders' = [orders EXCEPT ![code].express = e],
           UNCHANGED <<userOrders, institutionOrders>>
    PROVE  OrderIndexesMatchStore'
  <1>1. /\ orders' = [orders EXCEPT ![code] = orders'[code]]
        /\ orders'[code] \in Stored
        /\ orders'[code].member = orders[code].member
        /\ orders'[code].institution = orders[code].institution
    BY DEF IInv, TypeOK, Stored
  <1>2. QED
    BY <1>1, RewriteKeeps

\* create_order, when both pushes succeed, keeps the indexes exact: the
\* code was in no bucket, since the order did not exist.
LEMMA CreateKeeps ==
    ASSUME IInv, NEW who \in Account, NEW code \in OrderCode, NEW m \in MemberCode,
           NEW i \in InstitutionCode, NEW items \in ItemLists, NEW f \in Freight,
           orders[code] = NoOrder,
           orders' = [orders EXCEPT ![code] = NewOrder(who, m, i, items, f)],
           userOrders' = [userOrders EXCEPT ![m] = Push(@, code)],
           institutionOrders' = [institutionOrders EXCEPT ![i] = Push(@, code)]
    PROVE  OrderIndexesMatchStore'
  <1> DEFINE rec == NewOrder(who, m, i, items, f)
  <1>1. rec # NoOrder /\ rec.member = m /\ rec.institution = i
    BY NewOrderStored DEF NewOrder
  <1>2. userOrders[m] \in OBucket /\ institutionOrders[i] \in OBucket
    BY DEF IInv, TypeOK, OBucket
  <1>3. userOrders[m][code] = 0 /\ institutionOrders[i][code] = 0
    BY DEF IInv, OrderIndexesMatchStore
  <1> SUFFICES ASSUME NEW c \in OrderCode PROVE IndexedAt(c)'
    BY DEF OrderIndexesMatchStore, IndexedAt
  <1>4. CASE c = code
    <2>1. orders'[c] = rec
      BY <1>4 DEF IInv, TypeOK
    <2>2. \A mm \in MemberCode :
             userOrders'[mm][c] = IF rec.member = mm THEN 1 ELSE 0
      <3>1. Push(userOrders[m], code)[code] = 1
        BY <1>2, <1>3 DEF Push, OBucket
      <3>2. \A mm \in MemberCode \ {m} : userOrders[mm][code] = 0
        BY DEF IInv, OrderIndexesMatchStore
      <3>3. QED
        BY <1>1, <1>4, <3>1, <3>2 DEF IInv, TypeOK
    <2>3. \A ii \in InstitutionCode :
             institutionOrders'[ii][c] = IF rec.institution = ii THEN 1 ELSE 0
      <3>1. Push(institutionOrders[i], code)[code] = 1
        BY <1>2, <1>3 DEF Push, OBucket
      <3>2. \A ii \in InstitutionCode \ {i} : institutionOrders[ii][code] = 0
        BY DEF IInv, OrderIndexesMatchStore
      <3>3. QED
        BY <1>1, <1>4, <3>1, <3>2 DEF IInv, TypeOK
    <2>4. QED
      BY <1>1, <2>1, <2>2, <2>3 DEF IndexedAt
  <1>5. CASE c # code
    <2>1. orders'[c] = orders[c]
      BY <1>5 DEF IInv, TypeOK
    <2>2. Push(userOrders[m], code)[c] = userOrders[m][c]
      BY <1>2, <1>5 DEF Push, OBucket
    <2>3. Push(institutionOrders[i], code)[c] = institutionOrders[i][c]
      BY <1>2, <1>5 DEF Push, OBucket
    <2>4. \A mm \in MemberCode : userOrders'[mm][c] = userOrders[mm][c]
      BY <2>2 DEF IInv, TypeOK
    <2>5. \A ii \in InstitutionCode : institutionOrders'[ii][c] = institutionOrders[ii][c]
      BY <2>3 DEF IInv, TypeOK
    <2>6. QED
      BY <2>1, <2>4, <2>5 DEF IInv, OrderIndexesMatchStore, IndexedAt
  <1>6. QED
    BY <1>4, <1>5

\* delete_order retains the code out of the two buckets its order names,
\* the only ones holding it.
LEMMA DeleteKeeps ==
    ASSUME IInv, NEW who \in Account, NEW code \in OrderCode, DeleteOrder(who, code)
    PROVE  OrderIndexesMatchStore'
  <1> DEFINE o == orders[code]
  <1>1. o \in Stored /\ o.member \in MemberCode /\ o.institution \in InstitutionCode
    BY DEF DeleteOrder, Owns, IInv, TypeOK, Stored
  <1>2. userOrders[o.member] \in OBucket /\ institutionOrders[o.institution] \in OBucket
    BY <1>1 DEF IInv, TypeOK, OBucket
  <1>3. /\ orders' = [orders EXCEPT ![code] = NoOrder]
        /\ userOrders' = [userOrders EXCEPT ![o.member] = Retain(@, code)]
        /\ institutionOrders' = [institutionOrders EXCEPT ![o.institution] = Retain(@, code)]
    BY DEF DeleteOrder
  <1> SUFFICES ASSUME NEW c \in OrderCode PROVE IndexedAt(c)'
    BY DEF OrderIndexesMatchStore, IndexedAt
  <1>4. CASE c = code
    <2>1. Retain(userOrders[o.member], code)[code] = 0
      BY <1>2 DEF Retain, OBucket
    <2>2. Retain(institutionOrders[o.institution], code)[code] = 0
      BY <1>2 DEF Retain, OBucket
    <2>3. \A mm \in MemberCode \ {o.member} : userOrders[mm][code] = 0
      BY <1>1, NoOrderAssumption DEF IInv, OrderIndexesMatchStore
    <2>4. \A ii \in InstitutionCode \ {o.institution} : institutionOrders[ii][code] = 0
      BY <1>1, NoOrderAssumption DEF IInv, OrderIndexesMatchStore
    <2>5. QED
      BY <1>1, <1>3, <1>4, <2>1, <2>2, <2>3, <2>4 DEF IInv, TypeOK, IndexedAt
  <1>5. CASE c # code
    <2>1. Retain(userOrders[o.member], code)[c] = userOrders[o.member][c]
      BY <1>2, <1>5 DEF Retain, OBucket
    <2>2. Retain(institutionOrders[o.institution], code)[c] = institutionOrders[o.institution][c]
      BY <1>2, <1>5 DEF Retain, OBucket
    <2>3. /\ orders'[c] = orders[c]
          /\ \A mm \in MemberCode : userOrders'[mm][c] = userOrders[mm][c]
          /\ \A ii \in InstitutionCode : institutionOrders'[ii][c] = institutionOrders[ii][c]
      BY <1>1, <1>3, <1>5, <2>1, <2>2 DEF IInv, TypeOK
    <2>4. QED
      BY <2>3 DEF IInv, OrderIndexesMatchStore, IndexedAt
  <1>6. QED
    BY <1>4, <1>5


\* Every step under the storage layer keeps the inductive invariant.
LEMMA IndexStep == StorageLayer /\ IInv /\ [Next]_vars => IInv'
  <1> SUFFICES ASSUME StorageLayer, IInv, [Next]_vars PROVE IInv'
    OBVIOUS
  <1>1. TypeOK'
    BY TypeStep DEF IInv
  <1> SUFFICES OrderIndexesMatchStore'
    BY <1>1 DEF IInv
  <1>2. ASSUME NEW who \in Account, NEW code \in OrderCode, NEW m \in MemberCode,
               NEW i \in InstitutionCode, NEW items \in ItemLists, NEW f \in Freight,
               CreateOrder(who, code, m, i, items, f)
        PROVE  OrderIndexesMatchStore'
    <2> DEFINE okU == HasRoom(userOrders[m], UserOrdersCap)
               okI == okU /\ HasRoom(institutionOrders[i], InstitutionOrdersCap)
    <2>1. CASE okI
      <3>1. /\ orders[code] = NoOrder
            /\ orders' = [orders EXCEPT ![code] = NewOrder(who, m, i, items, f)]
            /\ userOrders' = [userOrders EXCEPT ![m] = Push(@, code)]
            /\ institutionOrders' = [institutionOrders EXCEPT ![i] = Push(@, code)]
        BY <1>2, <2>1 DEF CreateOrder, Dispatch, NewOrder
      <3>2. QED
        BY <3>1, CreateKeeps
    <2>2. CASE ~okI
      <3>1. UNCHANGED vars
        BY <1>2, <2>2 DEF CreateOrder, Dispatch
      <3>2. QED
        BY <3>1 DEF vars, IInv, OrderIndexesMatchStore
    <2>3. QED
      BY <2>1, <2>2
  <1>3. ASSUME NEW who \in Account, NEW code \in OrderCode, NEW n \in 0..5,
               UpdateOrderStatus(who, code, n)
        PROVE  OrderIndexesMatchStore'
    <2>1. StatusCodes[n + 1] \in OrderStatus /\ orders[code] \in Stored
      BY <1>3 DEF StatusCodes, OrderStatus, UpdateOrderStatus, Owns, IInv, TypeOK
    <2>2. QED
      BY <1>3, <2>1, StatusWriteKeeps DEF UpdateOrderStatus
  <1>4. ASSUME NEW who \in Account, NEW code \in OrderCode, NEW e \in Express,
               UpdateExpressInfo(who, code, e)
        PROVE  OrderIndexesMatchStore'
    <2>1. orders[code] \in Stored
      BY <1>4 DEF UpdateExpressInfo, Owns, IInv, TypeOK
    <2>2. QED
      BY <1>4, <2>1, ExpressWriteKeeps DEF UpdateExpressInfo
  <1>5. ASSUME NEW who \in Account, NEW code \in OrderCode, CancelOrder(who, code)
        PROVE  OrderIndexesMatchStore'
    <2>1. orders[code] \in Stored
      BY <1>5 DEF CancelOrder, Owns, IInv, TypeOK
    <2>2. QED
      BY <1>5, <2>1, StatusWriteKeeps DEF CancelOrder, OrderStatus
  <1>6. ASSUME NEW who \in Account, NEW code \in OrderCode, DeleteOrder(who, code)
        PROVE  OrderIndexesMatchStore'
    BY <1>6, DeleteKeeps
  <1>7. CASE UNCHANGED vars
    BY <1>7 DEF vars, IInv, OrderIndexesMatchStore
  <1>8. QED
    BY <1>2, <1>3, <1>4, <1>5, <1>6, <1>7 DEF Next

\* Spec invariants I1-I3 for UserOrders and InstitutionOrders, for every
\* value of the constants, when a failing extrinsic is rolled back:
\* create_order's contains_key check and delete_order's retains, against
\* the member and institution the stored order names, keep both lists
\* exact.
THEOREM OrderIndexesCorrect == StorageLayer => (Spec => []OrderIndexesMatchStore)
  <1> SUFFICES ASSUME StorageLayer PROVE Spec => []OrderIndexesMatchStore
    OBVIOUS
  <1>1. Init => IInv
    BY DEF Init, IInv, TypeOK, OrderIndexesMatchStore
  <1>2. IInv /\ [Next]_vars => IInv'
    BY IndexStep
  <1>3. QED
    BY <1>1, <1>2, PTL DEF Spec, IInv


-----------------------------------------------------------------------------
(* The pallet implements RecordLifecycle, with or without the storage      *)
(* layer.                                                                  *)

\* The records RecordLifecycle sees: the refinement mapping of Order.
LifeOf == [c \in OrderCode |->
             IF orders[c] = NoOrder THEN NoOrder
             ELSE [status |-> orders[c].status, creator |-> orders[c].creator]]

\* The lifecycle edges: validate_status_transition as a set of pairs.
Edges == {e \in OrderStatus \X OrderStatus : ValidTransition(e[1], e[2])}

\* A write of one stored order that keeps its status and creator is a
\* stutter of the mapped records.
LEMMA KeepsLife ==
    ASSUME TypeOK, NEW code \in OrderCode, orders[code] \in Stored,
           orders' = [orders EXCEPT ![code] = orders'[code]],
           orders'[code] \in Stored,
           orders'[code].status = orders[code].status,
           orders'[code].creator = orders[code].creator
    PROVE  LifeOf' = LifeOf
  <1>1. orders[code] # NoOrder /\ orders'[code] # NoOrder
    BY NoOrderAssumption
  <1>2. LifeOf'[code] = LifeOf[code]
    BY <1>1 DEF LifeOf
  <1>3. \A c \in OrderCode \ {code} : LifeOf'[c] = LifeOf[c]
    BY DEF LifeOf, TypeOK
  <1>4. QED
    BY <1>2, <1>3 DEF LifeOf

\* Writing a status along an edge of the graph is a Move of the record.
LEMMA MoveLife ==
    ASSUME TypeOK, NEW code \in OrderCode, orders[code] \in Stored,
           NEW st \in OrderStatus, ValidTransition(orders[code].status, st),
           orders' = [orders EXCEPT ![code].status = st]
    PROVE  Lifecycle!Move(code, st)
  <1> DEFINE r == [status |-> orders[code].status, creator |-> orders[code].creator]
  <1>1. orders[code] # NoOrder
    BY NoOrderAssumption
  <1>2. LifeOf[code] = r
    BY <1>1 DEF LifeOf
  <1>3. LifeOf[code] # NoOrder
    BY <1>2, NoOrderAssumption DEF Stored
  <1>4. <<LifeOf[code].status, st>> \in Edges
    BY <1>2 DEF Stored, Edges
  <1>5. orders'[code] = [orders[code] EXCEPT !.status = st]
    BY DEF TypeOK
  <1>6. orders'[code] \in Stored /\ orders'[code] # NoOrder
    BY <1>5, NoOrderAssumption DEF Stored
  <1>7. LifeOf' = [LifeOf EXCEPT ![code].status = st]
    <2>1. LifeOf'[code] = [status |-> st, creator |-> orders[code].creator]
      <3>1. orders'[code].status = st /\ orders'[code].creator = orders[code].creator
        BY <1>5 DEF Stored
      <3>2. QED
        BY <1>6, <3>1 DEF LifeOf
    <2>2. \A c \in OrderCode \ {code} : LifeOf'[c] = LifeOf[c]
      BY DEF LifeOf, TypeOK
    <2> DEFINE moved == [c \in OrderCode |->
                           IF c = code THEN [status |-> st, creator |-> orders[code].creator]
                           ELSE LifeOf[c]]
    <2>3. LifeOf' = moved
      BY <2>1, <2>2 DEF LifeOf
    <2>4. [LifeOf EXCEPT ![code].status = st] = moved
      <3>1. [LifeOf EXCEPT ![code].status = st]
              = [LifeOf EXCEPT ![code] = [LifeOf[code] EXCEPT !.status = st]]
        OBVIOUS
      <3>2. [LifeOf[code] EXCEPT !.status = st] = [status |-> st, creator |-> orders[code].creator]
        BY <1>2
      <3>3. QED
        BY <3>1, <3>2 DEF LifeOf
    <2>5. QED
      BY <2>3, <2>4
  <1>8. QED
    BY <1>3, <1>4, <1>7 DEF Lifecycle!Move, LifeOf, Edges


\* Every step is a step of RecordLifecycle under the mapping, or leaves the
\* mapped records alone.
LEMMA LifeStep == TypeOK /\ [Next]_vars => [Lifecycle!Next]_LifeOf
  <1> SUFFICES ASSUME TypeOK, [Next]_vars PROVE [Lifecycle!Next]_LifeOf
    OBVIOUS
  <1>1. ASSUME NEW who \in Account, NEW code \in OrderCode, NEW m \in MemberCode,
               NEW i \in InstitutionCode, NEW items \in ItemLists, NEW f \in Freight,
               CreateOrder(who, code, m, i, items, f)
        PROVE  [Lifecycle!Next]_LifeOf
    <2> DEFINE rec == NewOrder(who, m, i, items, f)
    <2>1. orders[code] = NoOrder
      BY <1>1, CreateCases
    <2>2. CASE UNCHANGED vars
      BY <2>2 DEF vars, LifeOf
    <2>3. CASE orders' = [orders EXCEPT ![code] = rec]
      <3>1. LifeOf[code] = NoOrder
        BY <2>1 DEF LifeOf
      <3>2. rec \in Stored /\ rec # NoOrder
        BY NewOrderStored
      <3>3. orders'[code] = rec /\ \A c \in OrderCode \ {code} : orders'[c] = orders[c]
        BY <2>3 DEF TypeOK
      <3>4. LifeOf' = [LifeOf EXCEPT ![code] = [status |-> "Pending", creator |-> who]]
        <4>1. LifeOf'[code] = [status |-> "Pending", creator |-> who]
          BY <3>2, <3>3 DEF LifeOf, NewOrder
        <4>2. \A c \in OrderCode \ {code} : LifeOf'[c] = LifeOf[c]
          BY <3>3 DEF LifeOf
        <4>3. QED
          BY <4>1, <4>2 DEF LifeOf
      <3>5. Lifecycle!Create(code, who)
        BY <3>1, <3>4 DEF Lifecycle!Create, LifeOf
      <3>6. QED
        BY <3>5 DEF Lifecycle!Next
    <2>4. QED
      BY <1>1, <2>2, <2>3, CreateCases
  <1>2. ASSUME NEW who \in Account, NEW code \in OrderCode, NEW n \in 0..5,
               UpdateOrderStatus(who, code, n)
        PROVE  [Lifecycle!Next]_LifeOf
    <2>1. StatusCodes[n + 1] \in OrderStatus /\ orders[code] \in Stored
      BY <1>2 DEF StatusCodes, OrderStatus, UpdateOrderStatus, Owns, TypeOK
    <2>2. Lifecycle!Move(code, StatusCodes[n + 1])
      BY <1>2, <2>1, MoveLife DEF UpdateOrderStatus
    <2>3. QED
      BY <2>1, <2>2 DEF Lifecycle!Next
  <1>3. ASSUME NEW who \in Account, NEW code \in OrderCode, NEW e \in Express,
               UpdateExpressInfo(who, code, e)
        PROVE  [Lifecycle!Next]_LifeOf
    <2>1. orders[code] \in Stored
      BY <1>3 DEF UpdateExpressInfo, Owns, TypeOK
    <2>2. /\ orders' = [orders EXCEPT ![code] = orders'[code]]
          /\ orders'[code] \in Stored
          /\ orders'[code].status = orders[code].status
          /\ orders'[code].creator = orders[code].creator
      BY <1>3, <2>1 DEF UpdateExpressInfo, TypeOK, Stored
    <2>3. QED
      BY <2>1, <2>2, KeepsLife
  <1>4. ASSUME NEW who \in Account, NEW code \in OrderCode, CancelOrder(who, code)
        PROVE  [Lifecycle!Next]_LifeOf
    <2>1. orders[code] \in Stored
      BY <1>4 DEF CancelOrder, Owns, TypeOK
    <2>2. ValidTransition(orders[code].status, "Cancelled")
      BY <1>4 DEF CancelOrder, ValidTransition
    <2>3. Lifecycle!Move(code, "Cancelled")
      BY <1>4, <2>1, <2>2, MoveLife DEF CancelOrder, OrderStatus
    <2>4. QED
      BY <2>3 DEF Lifecycle!Next, OrderStatus
  <1>5. ASSUME NEW who \in Account, NEW code \in OrderCode, DeleteOrder(who, code)
        PROVE  [Lifecycle!Next]_LifeOf
    <2>1. orders[code] \in Stored
      BY <1>5 DEF DeleteOrder, Owns, TypeOK
    <2>2. LifeOf[code] # NoOrder
      BY <2>1, NoOrderAssumption DEF LifeOf, Stored
    <2>3. orders'[code] = NoOrder /\ \A c \in OrderCode \ {code} : orders'[c] = orders[c]
      BY <1>5 DEF DeleteOrder, TypeOK
    <2>4. LifeOf' = [LifeOf EXCEPT ![code] = NoOrder]
      BY <2>3 DEF LifeOf
    <2>5. Lifecycle!Remove(code)
      BY <2>2, <2>4 DEF Lifecycle!Remove, LifeOf
    <2>6. QED
      BY <2>5 DEF Lifecycle!Next
  <1>6. CASE UNCHANGED vars
    BY <1>6 DEF vars, LifeOf
  <1>7. QED
    BY <1>1, <1>2, <1>3, <1>4, <1>5, <1>6 DEF Next

\* LifecycleRefined for every value of the constants, with or without the
\* storage layer: create_order never overwrites, update_order_status and
\* cancel_order (with its own Pending/Paid list) only take edges of
\* validate_status_transition, update_express_info touches neither status
\* nor creator, and delete_order removes the whole record.
THEOREM Refinement == Spec => LifecycleRefined
  <1>1. Init => Lifecycle!Init
    BY DEF Init, Lifecycle!Init
  <1>2. Spec => [][Lifecycle!Next]_LifeOf
    BY TypeCorrect, LifeStep, PTL DEF Spec
  <1>3. QED
    BY <1>1, <1>2, PTL DEF Spec, LifecycleRefined, Lifecycle!Spec, LifeOf

-----------------------------------------------------------------------------
(* What the pallet inherits from RecordLifecycle through the refinement.   *)

\* RecordLifecycleProofs for the records of Order, with the substitutions
\* of Lifecycle written as they are there.
LifeThm == INSTANCE RecordLifecycleProofs WITH
    Key <- OrderCode, Status <- OrderStatus, Owner <- Account,
    Initial <- "Pending", Absent <- NoOrder,
    Edge <- {e \in OrderStatus \X OrderStatus : ValidTransition(e[1], e[2])},
    records <- [c \in OrderCode |->
                  IF orders[c] = NoOrder THEN NoOrder
                  ELSE [status |-> orders[c].status, creator |-> orders[c].creator]]

\* RecordLifecycle's promises, for the stored orders of the pallet: a stored
\* order keeps its creator, create_order stores it Pending, and its status
\* changes only along validate_status_transition's table.
THEOREM LifecycleSafety ==
    Spec => /\ Lifecycle!CreatorFixed
            /\ Lifecycle!CreatedInitial
            /\ Lifecycle!MovesAlongEdges
  <1>1. "Pending" \in OrderStatus
    BY DEF OrderStatus
  <1>2. Lifecycle!Spec => /\ Lifecycle!CreatorFixed
                          /\ Lifecycle!CreatedInitial
                          /\ Lifecycle!MovesAlongEdges
    BY <1>1, LifeThm!CreatorStable, LifeThm!StartsInitial, LifeThm!FollowsEdges, PTL
    DEF Lifecycle!Spec, LifeThm!Spec, Lifecycle!CreatorFixed, LifeThm!CreatorFixed,
        Lifecycle!CreatedInitial, LifeThm!CreatedInitial,
        Lifecycle!MovesAlongEdges, LifeThm!MovesAlongEdges,
        Lifecycle!Init, LifeThm!Init, Lifecycle!Next, LifeThm!Next,
        Lifecycle!Create, LifeThm!Create, Lifecycle!Move, LifeThm!Move,
        Lifecycle!Remove, LifeThm!Remove
  <1>3. QED
    BY <1>2, Refinement DEF LifecycleRefined

\* The step StatusFollowsGraph constrains.
GraphStep ==
    \A c \in OrderCode :
        (/\ orders[c] # NoOrder /\ orders'[c] # NoOrder
         /\ orders'[c].status # orders[c].status)
          => ValidTransition(orders[c].status, orders'[c].status)

\* Between typed states, a step that moves the mapped records only along
\* edges changes stored statuses only along validate_status_transition.
LEMMA GraphFromLife ==
    TypeOK /\ TypeOK' /\ [LifeThm!EdgeStep]_LifeOf => [GraphStep]_vars
  <1> SUFFICES ASSUME TypeOK, TypeOK', [LifeThm!EdgeStep]_LifeOf,
                      NEW c \in OrderCode,
                      orders[c] # NoOrder, orders'[c] # NoOrder,
                      orders'[c].status # orders[c].status
               PROVE  ValidTransition(orders[c].status, orders'[c].status)
    BY DEF GraphStep
  <1>1. orders[c] \in Stored /\ orders'[c] \in Stored
    BY DEF TypeOK
  <1>2. /\ LifeOf[c] = [status |-> orders[c].status, creator |-> orders[c].creator]
        /\ LifeOf'[c] = [status |-> orders'[c].status, creator |-> orders'[c].creator]
    BY DEF LifeOf
  <1>3. LifeOf[c] # NoOrder /\ LifeOf'[c] # NoOrder
    BY <1>1, <1>2, NoOrderAssumption DEF Stored
  <1>4. LifeOf' # LifeOf
    BY <1>2
  <1>5. <<orders[c].status, orders'[c].status>> \in Edges
    BY <1>2, <1>3, <1>4 DEF LifeThm!EdgeStep, LifeOf, Edges
  <1> QED
    BY <1>5 DEF Edges

\* StatusFollowsGraph for every value of the constants, with or without the
\* storage layer, as a consequence of the refinement: update_order_status
\* and cancel_order change a stored order's status only along
\* validate_status_transition's table.
THEOREM StatusChangesValid == Spec => StatusFollowsGraph
  <1>1. Spec => [][LifeThm!EdgeStep]_LifeOf
    BY LifecycleSafety, PTL
    DEF Lifecycle!MovesAlongEdges, LifeThm!EdgeStep, LifeOf
  <1>2. QED
    BY <1>1, TypeCorrect, GraphFromLife, PTL DEF StatusFollowsGraph, GraphStep

=============================================================================
