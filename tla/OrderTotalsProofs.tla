------------------------- MODULE OrderTotalsProofs --------------------------
(***************************************************************************)
(* Proof of TotalsClamped for every value of the constants: the totals     *)
(* create_order computes item by item in u32 saturating arithmetic are the *)
(* exact sums cut off at u32::MAX, and every stored order carries the      *)
(* totals of its own items and freight.                                    *)
(*                                                                         *)
(* The loop is a recursive function over 0..Len(items).  Its defining      *)
(* equation comes from FiniteNatInductiveDef; the induction over its       *)
(* argument is by a least counterexample, which WFMin gives from the       *)
(* well-foundedness of < on Nat.                                           *)
(***************************************************************************)
EXTENDS OrderProofs, NaturalsInduction, WellFoundedInduction

\* u32::MAX as a cut-off: the Clamp of TotalsClamped.
Cut(x) == IF x > MaxU32 THEN MaxU32 ELSE x

\* The totals loop of create_order as a function of the index reached.
Loop(items) ==
    LET t[n \in 0..Len(items)] ==
          IF n = 0 THEN [amount |-> 0, weight |-> 0]
          ELSE [amount |-> SatAdd(t[n-1].amount, SatMul(items[n].price, items[n].quantity)),
                weight |-> SatAdd(t[n-1].weight, SatMul(items[n].weight, items[n].quantity))]
    IN t

\* The exact running sum of ExactSum.
Partial(items, f) ==
    LET s[n \in 0..Len(items)] ==
          IF n = 0 THEN 0 ELSE s[n-1] + items[n][f] * items[n].quantity
    IN s

-----------------------------------------------------------------------------
(* Induction over the naturals.                                            *)

\* A non-empty set of naturals has a least element: the least-counterexample
\* form of induction, from the well-foundedness of < on Nat.
LEMMA LeastElement ==
    ASSUME NEW B \in SUBSET Nat, B # {}
    PROVE  \E x \in B : \A y \in B : ~(y < x)
  <1>1. \E x \in B : \A y \in B : ~(<<y, x>> \in OpToRel(<, Nat))
    BY NatLessThanWellFounded, WFMin
  <1>2. \A x, y \in B : y < x => <<y, x>> \in OpToRel(<, Nat)
    BY DEF OpToRel
  <1>3. QED
    BY <1>1, <1>2

-----------------------------------------------------------------------------
(* Arithmetic.                                                             *)

\* Saturating a sum of a saturated partial sum and a saturated product is
\* saturating the exact sum: nothing is lost below u32::MAX.
LEMMA SatAddCut ==
    ASSUME NEW a \in Nat, NEW x \in Nat
    PROVE  SatAdd(Cut(a), Cut(x)) = Cut(a + x)
  BY OrderBoundAssumption DEF SatAdd, Cut

\* u32::saturating_mul is the cut product.
LEMMA SatMulCut ==
    ASSUME NEW p \in Nat, NEW q \in Nat
    PROVE  SatMul(p, q) = Cut(p * q) /\ p * q \in Nat
  BY DEF SatMul, Cut

\* The fields of an order item the totals read are naturals.
LEMMA ItemFields ==
    ASSUME NEW it \in OrderItem, NEW f \in {"price", "weight"}
    PROVE  it[f] \in Nat /\ it.quantity \in Nat
  <1>1. Amount \subseteq Nat
    BY OrderBoundAssumption DEF U32
  <1>2. it.price \in Amount /\ it.weight \in Amount /\ it.quantity \in Amount
    BY DEF OrderItem
  <1>3. QED
    BY <1>1, <1>2

-----------------------------------------------------------------------------
(* The two recursive functions.                                            *)

\* The equation of the exact running sum.
LEMMA PartialDef ==
    ASSUME NEW items \in Seq(OrderItem), NEW f \in {"price", "weight"}
    PROVE  Partial(items, f) =
             [n \in 0..Len(items) |->
                IF n = 0 THEN 0 ELSE Partial(items, f)[n-1] + items[n][f] * items[n].quantity]
  BY FiniteNatInductiveDef
  DEF FiniteNatInductiveDefHypothesis, FiniteNatInductiveDefConclusion, Partial

\* Every exact running sum is a natural.
LEMMA PartialNat ==
    ASSUME NEW items \in Seq(OrderItem), NEW f \in {"price", "weight"}
    PROVE  \A n \in 0..Len(items) : Partial(items, f)[n] \in Nat
  <1> DEFINE P == Partial(items, f)
             Bad == {n \in 0..Len(items) : P[n] \notin Nat}
  <1> SUFFICES ASSUME Bad # {} PROVE FALSE
    OBVIOUS
  <1>0. Bad \in SUBSET Nat
    OBVIOUS
  <1>1. PICK x \in Bad : \A y \in Bad : ~(y < x)
    BY <1>0, LeastElement
  <1>2. x # 0
    BY <1>1, PartialDef
  <1>3. P[x - 1] \in Nat
    BY <1>1, <1>2
  <1>4. items[x] \in OrderItem
    BY <1>1, <1>2
  <1>5. items[x][f] \in Nat /\ items[x].quantity \in Nat
    BY <1>4, ItemFields
  <1>6. P[x] = P[x - 1] + items[x][f] * items[x].quantity
    BY <1>1, <1>2, PartialDef
  <1>7. P[x] \in Nat
    BY <1>3, <1>5, <1>6
  <1>8. QED
    BY <1>1, <1>7

\* The loop, written through the exact running sums: the saturated sums.
Clamped(items) ==
    [n \in 0..Len(items) |->
       [amount |-> Cut(Partial(items, "price")[n]),
        weight |-> Cut(Partial(items, "weight")[n])]]

\* The loop body applied to the previous index of g.
LoopBody(items, g) ==
    [n \in 0..Len(items) |->
       IF n = 0 THEN [amount |-> 0, weight |-> 0]
       ELSE [amount |-> SatAdd(g[n-1].amount, SatMul(items[n].price, items[n].quantity)),
             weight |-> SatAdd(g[n-1].weight, SatMul(items[n].weight, items[n].quantity))]]

\* The saturated exact sums are a fixed point of the loop body: the key
\* arithmetic fact, one item at a time.
LEMMA ClampedFixed ==
    ASSUME NEW items \in Seq(OrderItem)
    PROVE  Clamped(items) = LoopBody(items, Clamped(items))
  <1> SUFFICES ASSUME NEW n \in 0..Len(items)
               PROVE  Clamped(items)[n] = LoopBody(items, Clamped(items))[n]
    BY DEF Clamped, LoopBody
  <1>1. CASE n = 0
    <2>1. Partial(items, "price")[0] = 0 /\ Partial(items, "weight")[0] = 0
      BY PartialDef
    <2>2. QED
      BY <1>1, <2>1, OrderBoundAssumption DEF Clamped, LoopBody, Cut
  <1>2. CASE n # 0
    <2> DEFINE Pp == Partial(items, "price")
               Pw == Partial(items, "weight")
    <2>1. n - 1 \in 0..Len(items) /\ n \in 1..Len(items)
      BY <1>2
    <2>2. Pp[n - 1] \in Nat /\ Pw[n - 1] \in Nat
      BY <2>1, PartialNat
    <2>3. items[n] \in OrderItem
      BY <2>1
    <2>4. /\ items[n].price \in Nat /\ items[n].weight \in Nat
          /\ items[n].quantity \in Nat
      BY <2>3, ItemFields
    <2>5. /\ Pp[n] = Pp[n - 1] + items[n].price * items[n].quantity
          /\ Pw[n] = Pw[n - 1] + items[n].weight * items[n].quantity
      BY <2>1, PartialDef
    <2>6. /\ SatAdd(Cut(Pp[n - 1]), SatMul(items[n].price, items[n].quantity)) = Cut(Pp[n])
          /\ SatAdd(Cut(Pw[n - 1]), SatMul(items[n].weight, items[n].quantity)) = Cut(Pw[n])
      <3>1. /\ SatMul(items[n].price, items[n].quantity) = Cut(items[n].price * items[n].quantity)
            /\ items[n].price * items[n].quantity \in Nat
            /\ SatMul(items[n].weight, items[n].quantity) = Cut(items[n].weight * items[n].quantity)
            /\ items[n].weight * items[n].quantity \in Nat
        BY <2>4, SatMulCut
      <3>2. SatAdd(Cut(Pp[n - 1]), Cut(items[n].price * items[n].quantity))
              = Cut(Pp[n - 1] + items[n].price * items[n].quantity)
        BY <2>2, <3>1, SatAddCut
      <3>3. SatAdd(Cut(Pw[n - 1]), Cut(items[n].weight * items[n].quantity))
              = Cut(Pw[n - 1] + items[n].weight * items[n].quantity)
        BY <2>2, <3>1, SatAddCut
      <3>4. QED
        BY <2>5, <3>1, <3>2, <3>3
    <2>7. QED
      BY <1>2, <2>1, <2>6 DEF Clamped, LoopBody
  <1>3. QED
    BY <1>1, <1>2

\* The loop satisfies its own equation, the saturated sums being a witness.
LEMMA LoopDef ==
    ASSUME NEW items \in Seq(OrderItem)
    PROVE  Loop(items) = LoopBody(items, Loop(items))
  BY ClampedFixed DEF Loop, LoopBody

\* The loop computes the saturated exact sums at every index: both satisfy
\* the loop's equation, so a least index where they differ cannot exist.
LEMMA LoopClamped ==
    ASSUME NEW items \in Seq(OrderItem)
    PROVE  Loop(items) = Clamped(items)
  <1> DEFINE L == Loop(items)
             C == Clamped(items)
             Bad == {n \in 0..Len(items) : L[n] # C[n]}
  <1>1. L = LoopBody(items, L) /\ C = LoopBody(items, C)
    BY LoopDef, ClampedFixed
  <1>2. Bad = {}
    <2> SUFFICES ASSUME Bad # {} PROVE FALSE
      OBVIOUS
    <2>0. Bad \in SUBSET Nat
      OBVIOUS
    <2>1. PICK x \in Bad : \A y \in Bad : ~(y < x)
      BY <2>0, LeastElement
    <2>2. x # 0
      BY <1>1, <2>1 DEF LoopBody
    <2>3. L[x - 1] = C[x - 1]
      BY <2>1, <2>2
    <2>4. L[x] = C[x]
      BY <1>1, <2>1, <2>2, <2>3 DEF LoopBody
    <2>5. QED
      BY <2>1, <2>4
  <1>3. QED
    BY <1>1, <1>2 DEF LoopBody

\* An item list create_order accepts is a sequence of items.
LEMMA ItemListsSeq ==
    ItemLists \subseteq Seq(OrderItem)
  BY DEF ItemLists

\* The totals create_order computes for any accepted items and freight are
\* the exact sums, plus the freight for the amount, cut off at u32::MAX.
LEMMA TotalsExactSums ==
    ASSUME NEW items \in ItemLists, NEW fr \in Freight
    PROVE  /\ OrderTotals(items, fr).amount = Cut(ExactSum(items, "price") + fr)
           /\ OrderTotals(items, fr).weight = Cut(ExactSum(items, "weight"))
  <1> DEFINE n == Len(items)
             Pp == Partial(items, "price")
             Pw == Partial(items, "weight")
  <1>1. items \in Seq(OrderItem)
    BY ItemListsSeq
  <1>2. OrderTotals(items, fr) = [Loop(items)[n] EXCEPT !.amount = SatAdd(@, fr)]
    BY DEF OrderTotals, Loop
  <1>3. ExactSum(items, "price") = Pp[n] /\ ExactSum(items, "weight") = Pw[n]
    BY DEF ExactSum, Partial
  <1>4. Loop(items)[n] = [amount |-> Cut(Pp[n]), weight |-> Cut(Pw[n])]
    BY <1>1, LoopClamped DEF Clamped
  <1>5. Pp[n] \in Nat /\ Pw[n] \in Nat
    BY <1>1, PartialNat
  <1>6. fr \in Nat /\ Cut(fr) = fr
    BY OrderBoundAssumption DEF U32, Cut
  <1>7. SatAdd(Cut(Pp[n]), fr) = Cut(Pp[n] + fr)
    BY <1>5, <1>6, SatAddCut
  <1>8. QED
    BY <1>2, <1>3, <1>4, <1>7

-----------------------------------------------------------------------------
(* The invariant.                                                          *)

\* Every stored order carries the totals of its own items and freight: the
\* inductive invariant behind TotalsClamped, which alone says nothing of
\* where the totals came from.
TotalsOfItems ==
    \A c \in OrderCode : orders[c] # NoOrder =>
        /\ orders[c].totalAmount = OrderTotals(orders[c].items, orders[c].freight).amount
        /\ orders[c].totalWeight = OrderTotals(orders[c].items, orders[c].freight).weight

\* A step that rewrites one stored order keeping its items, freight and
\* totals keeps TotalsOfItems.
LEMMA RewriteKeepsTotals ==
    ASSUME TypeOK, TotalsOfItems, NEW code \in OrderCode,
           orders' = [orders EXCEPT ![code] = orders'[code]],
           orders[code] # NoOrder,
           orders'[code].items = orders[code].items,
           orders'[code].freight = orders[code].freight,
           orders'[code].totalAmount = orders[code].totalAmount,
           orders'[code].totalWeight = orders[code].totalWeight
    PROVE  TotalsOfItems'
  <1> SUFFICES ASSUME NEW c \in OrderCode, orders'[c] # NoOrder
               PROVE  /\ orders'[c].totalAmount
                            = OrderTotals(orders'[c].items, orders'[c].freight).amount
                      /\ orders'[c].totalWeight
                            = OrderTotals(orders'[c].items, orders'[c].freight).weight
    BY DEF TotalsOfItems
  <1>1. CASE c = code
    BY <1>1 DEF TotalsOfItems
  <1>2. CASE c # code
    <2>1. orders'[c] = orders[c]
      BY <1>2 DEF TypeOK
    <2>2. QED
      BY <2>1 DEF TotalsOfItems
  <1>3. QED
    BY <1>1, <1>2

\* Writing one field of a stored order other than its items, freight and
\* totals keeps TotalsOfItems: the status of update_order_status and
\* cancel_order, the express pair of update_express_info.
LEMMA StatusKeepsTotals ==
    ASSUME TypeOK, TotalsOfItems, NEW code \in OrderCode, orders[code] # NoOrder,
           NEW st \in OrderStatus, orders' = [orders EXCEPT ![code].status = st]
    PROVE  TotalsOfItems'
  <1>1. orders[code] \in Stored
    BY DEF TypeOK
  <1>2. /\ orders' = [orders EXCEPT ![code] = orders'[code]]
        /\ orders'[code].items = orders[code].items
        /\ orders'[code].freight = orders[code].freight
        /\ orders'[code].totalAmount = orders[code].totalAmount
        /\ orders'[code].totalWeight = orders[code].totalWeight
    BY <1>1 DEF TypeOK, Stored
  <1>3. QED
    BY <1>2, RewriteKeepsTotals

\* The same for the express pair.
LEMMA ExpressKeepsTotals ==
    ASSUME TypeOK, TotalsOfItems, NEW code \in OrderCode, orders[code] # NoOrder,
           NEW e \in Express, orders' = [orders EXCEPT ![code].express = e]
    PROVE  TotalsOfItems'
  <1>1. orders[code] \in Stored
    BY DEF TypeOK
  <1>2. /\ orders' = [orders EXCEPT ![code] = orders'[code]]
        /\ orders'[code].items = orders[code].items
        /\ orders'[code].freight = orders[code].freight
        /\ orders'[code].totalAmount = orders[code].totalAmount
        /\ orders'[code].totalWeight = orders[code].totalWeight
    BY <1>1 DEF TypeOK, Stored
  <1>3. QED
    BY <1>2, RewriteKeepsTotals

\* Every step keeps TotalsOfItems, with or without the storage layer:
\* create_order stores the totals it computed from the items and freight it
\* stores, and no other handler writes items, freight or totals.
LEMMA TotalsStep == TypeOK /\ TotalsOfItems /\ [Next]_vars => TotalsOfItems'
  <1> SUFFICES ASSUME TypeOK, TotalsOfItems, [Next]_vars PROVE TotalsOfItems'
    OBVIOUS
  <1>1. ASSUME NEW who \in Account, NEW code \in OrderCode, NEW m \in MemberCode,
               NEW i \in InstitutionCode, NEW items \in ItemLists, NEW f \in Freight,
               CreateOrder(who, code, m, i, items, f)
        PROVE  TotalsOfItems'
    <2>1. CASE orders' = [orders EXCEPT ![code] = NewOrder(who, m, i, items, f)]
      <3> SUFFICES ASSUME NEW c \in OrderCode, orders'[c] # NoOrder
                   PROVE  /\ orders'[c].totalAmount
                                = OrderTotals(orders'[c].items, orders'[c].freight).amount
                          /\ orders'[c].totalWeight
                                = OrderTotals(orders'[c].items, orders'[c].freight).weight
        BY DEF TotalsOfItems
      <3>1. CASE c = code
        BY <2>1, <3>1 DEF TypeOK, NewOrder
      <3>2. CASE c # code
        BY <2>1, <3>2 DEF TypeOK, TotalsOfItems
      <3>3. QED
        BY <3>1, <3>2
    <2>2. CASE UNCHANGED vars
      BY <2>2 DEF vars, TotalsOfItems
    <2>3. QED
      BY <1>1, <2>1, <2>2, CreateCases
  <1>2. ASSUME NEW who \in Account, NEW code \in OrderCode, NEW n \in 0..5,
               UpdateOrderStatus(who, code, n)
        PROVE  TotalsOfItems'
    <2>1. StatusCodes[n + 1] \in OrderStatus
      BY DEF StatusCodes, OrderStatus
    <2>2. QED
      BY <1>2, <2>1, StatusKeepsTotals DEF UpdateOrderStatus, Owns
  <1>3. ASSUME NEW who \in Account, NEW code \in OrderCode, NEW e \in Express,
               UpdateExpressInfo(who, code, e)
        PROVE  TotalsOfItems'
    BY <1>3, ExpressKeepsTotals DEF UpdateExpressInfo, Owns
  <1>4. ASSUME NEW who \in Account, NEW code \in OrderCode, CancelOrder(who, code)
        PROVE  TotalsOfItems'
    <2>1. "Cancelled" \in OrderStatus
      BY DEF OrderStatus
    <2>2. QED
      BY <1>4, <2>1, StatusKeepsTotals DEF CancelOrder, Owns
  <1>5. ASSUME NEW who \in Account, NEW code \in OrderCode, DeleteOrder(who, code)
        PROVE  TotalsOfItems'
    BY <1>5 DEF DeleteOrder, TypeOK, TotalsOfItems
  <1>6. CASE UNCHANGED vars
    BY <1>6 DEF vars, TotalsOfItems
  <1>7. QED
    BY <1>1, <1>2, <1>3, <1>4, <1>5, <1>6 DEF Next

\* TotalsClamped for every value of the constants, with or without the
\* storage layer: the totals of every stored order are the exact sums of
\* its items (plus freight for the amount) cut off at u32::MAX, whatever the
\* number of items and however create_order's saturating products and sums
\* overflow along the loop.
THEOREM TotalsCorrect == Spec => []TotalsClamped
  <1>1. Init => TotalsOfItems
    BY DEF Init, TotalsOfItems
  <1>2. Spec => [](TypeOK /\ TotalsOfItems)
    BY <1>1, TypeCorrect, TotalsStep, PTL DEF Spec
  <1>3. TypeOK /\ TotalsOfItems => TotalsClamped
    <2> SUFFICES ASSUME TypeOK, TotalsOfItems, NEW c \in OrderCode, orders[c] # NoOrder
                 PROVE  /\ orders[c].totalAmount
                              = Cut(ExactSum(orders[c].items, "price") + orders[c].freight)
                        /\ orders[c].totalWeight
                              = Cut(ExactSum(orders[c].items, "weight"))
      BY DEF TotalsClamped, Cut
    <2>1. orders[c].items \in ItemLists /\ orders[c].freight \in Freight
      BY DEF TypeOK, Stored
    <2>2. QED
      BY <2>1, TotalsExactSums DEF TotalsOfItems
  <1>4. QED
    BY <1>2, <1>3, PTL

=============================================================================
