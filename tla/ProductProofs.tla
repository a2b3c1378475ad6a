---------------------------- MODULE ProductProofs ----------------------------
(***************************************************************************)
(* Proofs about Product for every value of its constants.                  *)
(***************************************************************************)
EXTENDS Product, TLAPS

\* A product-code bucket.
PBucket == [ProductCode -> Nat]

\* Push and Retain keep a bucket a bucket, and touch only their code.
LEMMA PBucketOps ==
    ASSUME NEW b \in PBucket, NEW p \in ProductCode
    PROVE  /\ Push(b, p) \in PBucket
           /\ Retain(b, p) \in PBucket
           /\ Push(b, p)[p] = b[p] + 1
           /\ Retain(b, p)[p] = 0
           /\ \A q \in ProductCode \ {p} : Push(b, p)[q] = b[q] /\ Retain(b, p)[q] = b[q]
  BY DEF PBucket, Push, Retain

\* u32::saturating_add stays a u32.
LEMMA SatAddType ==
    ASSUME NEW a \in U32, NEW b \in U32
    PROVE  SatAdd(a, b) \in U32
  BY ProductBoundAssumption DEF SatAdd, U32

-----------------------------------------------------------------------------
(* Type correctness.                                                       *)

\* Every step, with or without the storage layer, keeps the types.
LEMMA TypeStep == TypeOK /\ [Next]_vars => TypeOK'
  <1> SUFFICES ASSUME TypeOK, [Next]_vars PROVE TypeOK'
    OBVIOUS
  <1> USE DEF TypeOK
  <1>1. ASSUME NEW who \in Account, NEW k \in Key, NEW op \in Price,
               NEW cp \in Price, NEW s \in U32,
               CreateProduct(who, k[1], k[2], op, cp, s)
        PROVE  TypeOK'
    <2>1. Push(institutionProducts[k[2]], k[1]) \in PBucket
      BY PBucketOps DEF Key, PBucket
    <2>2. [original |-> op, current |-> cp, stock |-> s, sales |-> 0,
           status |-> "Available", creator |-> who] \in ProductInfo
      BY ProductBoundAssumption DEF ProductInfo, U32
    <2>3. QED
      BY <1>1, <2>1, <2>2 DEF CreateProduct, Dispatch, vars, Key, PBucket
  <1>2. ASSUME NEW who \in Account, NEW k \in Key,
               NEW op \in Price \cup {None}, NEW cp \in Price \cup {None},
               UpdateProductInfo(who, k, op, cp)
        PROVE  TypeOK'
    <2>1. products[k] \in ProductInfo
      BY <1>2 DEF UpdateProductInfo, Owns
    <2>2. [products[k] EXCEPT !.original = Apply(@, op), !.current = Apply(@, cp)]
            \in ProductInfo
      BY <2>1 DEF ProductInfo, Apply
    <2>3. QED
      BY <1>2, <2>2 DEF UpdateProductInfo
  <1>3. ASSUME NEW who \in Account, NEW k \in Key,
               NEW s \in {"Available", "Unavailable"},
               UpdateProductStatus(who, k, s)
        PROVE  TypeOK'
    BY <1>3 DEF UpdateProductStatus, Owns, ProductInfo
  <1>4. ASSUME NEW who \in Account, NEW k \in Key, NEW n \in U32,
               UpdateStock(who, k, n)
        PROVE  TypeOK'
    BY <1>4 DEF UpdateStock, Owns, ProductInfo
  <1>5. ASSUME NEW who \in Account, NEW k \in Key, DeleteProduct(who, k)
        PROVE  TypeOK'
    <2>1. Retain(institutionProducts[k[2]], k[1]) \in PBucket
      BY PBucketOps DEF Key, PBucket
    <2>2. QED
      BY <1>5, <2>1 DEF DeleteProduct, Key, PBucket
  <1>6. ASSUME NEW k \in Key, NEW q \in U32, PurchaseProduct(k, q)
        PROVE  TypeOK'
    <2>1. products[k] \in ProductInfo
      BY <1>6 DEF PurchaseProduct
    <2>2. products[k].stock - q \in U32
      BY <1>6, <2>1, ProductBoundAssumption DEF PurchaseProduct, ProductInfo, U32
    <2>3. SatAdd(products[k].sales, q) \in U32
      BY <2>1, SatAddType DEF ProductInfo
    <2>4. QED
      BY <1>6, <2>1, <2>2, <2>3 DEF PurchaseProduct, ProductInfo
  <1>7. CASE UNCHANGED vars
    BY <1>7 DEF vars
  <1>8. QED
    BY <1>1, <1>2, <1>3, <1>4, <1>5, <1>6, <1>7 DEF Next

\* Every reachable state is well typed, with or without the storage layer.
THEOREM TypeCorrect == Spec => []TypeOK
  <1>1. Init => TypeOK
    BY DEF Init, TypeOK
  <1>2. QED
    BY <1>1, TypeStep, PTL DEF Spec


-----------------------------------------------------------------------------
(* The price rule, with or without the storage layer.                      *)

\* The inductive invariant of the price rule: prices are numbers.
PInv == TypeOK /\ CurrentNotAboveOriginal

\* Every step keeps every stored product at or below its original price:
\* create_product and update_product_info check the prices that are stored,
\* and no other handler writes a price.
LEMMA PriceStep == PInv /\ [Next]_vars => PInv'
  <1> SUFFICES ASSUME PInv, [Next]_vars PROVE PInv'
    OBVIOUS
  <1>1. TypeOK'
    BY TypeStep DEF PInv
  <1> SUFFICES CurrentNotAboveOriginal'
    BY <1>1 DEF PInv
  <1> USE DEF PInv, TypeOK, CurrentNotAboveOriginal
  <1>2. ASSUME NEW who \in Account, NEW k \in Key, NEW op \in Price,
               NEW cp \in Price, NEW s \in U32,
               CreateProduct(who, k[1], k[2], op, cp, s)
        PROVE  CurrentNotAboveOriginal'
    <2> DEFINE rec == [original |-> op, current |-> cp, stock |-> s, sales |-> 0,
                       status |-> "Available", creator |-> who]
    <2>1. \/ products' = [products EXCEPT ![<<k[1], k[2]>>] = rec]
          \/ products' = products
      BY <1>2 DEF CreateProduct, Dispatch, vars
    <2>2. cp <= op
      BY <1>2 DEF CreateProduct
    <2>3. <<k[1], k[2]>> = k
      BY DEF Key
    <2>4. QED
      BY <2>1, <2>2, <2>3
  <1>3. ASSUME NEW who \in Account, NEW k \in Key,
               NEW op \in Price \cup {None}, NEW cp \in Price \cup {None},
               UpdateProductInfo(who, k, op, cp)
        PROVE  CurrentNotAboveOriginal'
    BY <1>3 DEF UpdateProductInfo
  <1>4. ASSUME NEW who \in Account, NEW k \in Key,
               NEW s \in {"Available", "Unavailable"},
               UpdateProductStatus(who, k, s)
        PROVE  CurrentNotAboveOriginal'
    BY <1>4 DEF UpdateProductStatus, Owns, ProductInfo
  <1>5. ASSUME NEW who \in Account, NEW k \in Key, NEW n \in U32,
               UpdateStock(who, k, n)
        PROVE  CurrentNotAboveOriginal'
    BY <1>5 DEF UpdateStock, Owns, ProductInfo
  <1>6. ASSUME NEW who \in Account, NEW k \in Key, DeleteProduct(who, k)
        PROVE  CurrentNotAboveOriginal'
    BY <1>6 DEF DeleteProduct
  <1>7. ASSUME NEW k \in Key, NEW q \in U32, PurchaseProduct(k, q)
        PROVE  CurrentNotAboveOriginal'
    BY <1>7 DEF PurchaseProduct, ProductInfo
  <1>8. CASE UNCHANGED vars
    BY <1>8 DEF vars
  <1>9. QED
    BY <1>2, <1>3, <1>4, <1>5, <1>6, <1>7, <1>8 DEF Next

\* CurrentNotAboveOriginal for every value of the constants, with or
\* without the storage layer.
THEOREM PriceRule == Spec => []CurrentNotAboveOriginal
  <1>1. Init => PInv
    BY DEF Init, PInv, TypeOK, CurrentNotAboveOriginal
  <1>2. PInv => CurrentNotAboveOriginal
    BY DEF PInv
  <1>3. QED
    BY <1>1, <1>2, PriceStep, PTL DEF Spec


-----------------------------------------------------------------------------
(* The institution index, with the storage layer.                          *)

\* The inductive invariant: the index needs the types to be read.
IInv == TypeOK /\ InstitutionProductsExact

\* A step that writes neither the index nor whether a product exists keeps
\* the index exact.
LEMMA ExistenceKept ==
    ASSUME IInv, institutionProducts' = institutionProducts,
           NEW k \in Key, products[k] # NoProduct, products'[k] \in ProductInfo,
           \A k2 \in Key \ {k} : products'[k2] = products[k2]
    PROVE  InstitutionProductsExact'
  <1>1. products'[k] # NoProduct
    BY NoProductAssumption
  <1>2. \A k2 \in Key : (products'[k2] # NoProduct) = (products[k2] # NoProduct)
    BY <1>1
  <1>3. QED
    BY <1>2 DEF IInv, InstitutionProductsExact, Key

\* Every step under the storage layer keeps InstitutionProducts exact.
LEMMA IndexStep == StorageLayer /\ IInv /\ [Next]_vars => IInv'
  <1> SUFFICES ASSUME StorageLayer, IInv, [Next]_vars PROVE IInv'
    OBVIOUS
  <1>1. TypeOK'
    BY TypeStep DEF IInv
  <1> SUFFICES InstitutionProductsExact'
    BY <1>1 DEF IInv
  <1>2. ASSUME NEW who \in Account, NEW k \in Key, NEW op \in Price,
               NEW cp \in Price, NEW s \in U32,
               CreateProduct(who, k[1], k[2], op, cp, s)
        PROVE  InstitutionProductsExact'
    <2> DEFINE p == k[1]
               i == k[2]
               ok == HasRoom(institutionProducts[i], InstitutionProductsCap)
               rec == [original |-> op, current |-> cp, stock |-> s, sales |-> 0,
                       status |-> "Available", creator |-> who]
    <2>1. k = <<p, i>> /\ p \in ProductCode /\ i \in InstitutionCode
      BY DEF Key
    <2>2. CASE ok
      <3>1. products' = [products EXCEPT ![k] = rec]
        BY <1>2, <2>1, <2>2 DEF CreateProduct, Dispatch
      <3>2. institutionProducts' = [institutionProducts EXCEPT ![i] = Push(@, p)]
        BY <1>2, <2>2 DEF CreateProduct, Dispatch
      <3>3. rec # NoProduct
        BY NoProductAssumption, ProductBoundAssumption DEF ProductInfo, U32
      <3>4. institutionProducts[i][p] = 0
        BY <1>2, <2>1 DEF CreateProduct, IInv, InstitutionProductsExact
      <3>5. institutionProducts[i] \in PBucket
        BY <2>1 DEF IInv, TypeOK, PBucket
      <3>6. Push(institutionProducts[i], p)[p] = 1
        BY <2>1, <3>4, <3>5, PBucketOps
      <3>7. \A q \in ProductCode \ {p} :
              Push(institutionProducts[i], p)[q] = institutionProducts[i][q]
        BY <2>1, <3>5, PBucketOps
      <3>8. ASSUME NEW j \in InstitutionCode, NEW q \in ProductCode
            PROVE  institutionProducts'[j][q] = IF products'[<<q, j>>] # NoProduct THEN 1 ELSE 0
        <4>1. CASE j = i /\ q = p
          BY <2>1, <3>1, <3>2, <3>3, <3>6, <4>1 DEF IInv, TypeOK
        <4>2. CASE j = i /\ q # p
          <5>1. <<q, j>> # k /\ <<q, j>> \in Key
            BY <2>1, <4>2 DEF Key
          <5>2. QED
            BY <2>1, <3>1, <3>2, <3>7, <4>2, <5>1
               DEF IInv, TypeOK, InstitutionProductsExact
        <4>3. CASE j # i
          <5>1. <<q, j>> # k /\ <<q, j>> \in Key
            BY <2>1, <4>3 DEF Key
          <5>2. QED
            BY <2>1, <3>1, <3>2, <4>3, <5>1 DEF IInv, TypeOK, InstitutionProductsExact
        <4>4. QED
          BY <4>1, <4>2, <4>3
      <3>9. QED
        BY <3>8 DEF InstitutionProductsExact
    <2>3. CASE ~ok
      <3>1. products' = products /\ institutionProducts' = institutionProducts
        BY <1>2, <2>3 DEF CreateProduct, Dispatch, vars
      <3>2. QED
        BY <3>1 DEF IInv, InstitutionProductsExact
    <2>4. QED
      BY <2>2, <2>3
  <1>3. ASSUME NEW who \in Account, NEW k \in Key,
               NEW op \in Price \cup {None}, NEW cp \in Price \cup {None},
               UpdateProductInfo(who, k, op, cp)
        PROVE  InstitutionProductsExact'
    <2>1. products'[k] \in ProductInfo
      BY <1>3, TypeStep DEF IInv, UpdateProductInfo, Owns, ProductInfo, Apply, TypeOK
    <2>2. QED
      BY <1>3, <2>1, ExistenceKept DEF UpdateProductInfo, Owns, IInv, TypeOK
  <1>4. ASSUME NEW who \in Account, NEW k \in Key,
               NEW s \in {"Available", "Unavailable"},
               UpdateProductStatus(who, k, s)
        PROVE  InstitutionProductsExact'
    <2>1. products'[k] \in ProductInfo
      BY <1>4 DEF IInv, UpdateProductStatus, Owns, ProductInfo, TypeOK
    <2>2. QED
      BY <1>4, <2>1, ExistenceKept DEF UpdateProductStatus, Owns, IInv, TypeOK
  <1>5. ASSUME NEW who \in Account, NEW k \in Key, NEW n \in U32,
               UpdateStock(who, k, n)
        PROVE  InstitutionProductsExact'
    <2>1. products'[k] \in ProductInfo
      BY <1>5 DEF IInv, UpdateStock, Owns, ProductInfo, TypeOK
    <2>2. QED
      BY <1>5, <2>1, ExistenceKept DEF UpdateStock, Owns, IInv, TypeOK
  <1>6. ASSUME NEW who \in Account, NEW k \in Key, DeleteProduct(who, k)
        PROVE  InstitutionProductsExact'
    <2>1. k = <<k[1], k[2]>> /\ k[1] \in ProductCode /\ k[2] \in InstitutionCode
      BY DEF Key
    <2>2. institutionProducts[k[2]] \in PBucket
      BY <2>1 DEF IInv, TypeOK, PBucket
    <2>3. /\ Retain(institutionProducts[k[2]], k[1])[k[1]] = 0
          /\ \A q \in ProductCode \ {k[1]} :
                Retain(institutionProducts[k[2]], k[1])[q] = institutionProducts[k[2]][q]
      BY <2>1, <2>2, PBucketOps
    <2>4. ASSUME NEW j \in InstitutionCode, NEW q \in ProductCode
          PROVE  institutionProducts'[j][q] = IF products'[<<q, j>>] # NoProduct THEN 1 ELSE 0
      <3>1. CASE j = k[2] /\ q = k[1]
        BY <1>6, <2>1, <2>3, <3>1 DEF DeleteProduct, IInv, TypeOK
      <3>2. CASE j = k[2] /\ q # k[1]
        <4>1. <<q, j>> # k /\ <<q, j>> \in Key
          BY <2>1, <3>2 DEF Key
        <4>2. QED
          BY <1>6, <2>1, <2>3, <3>2, <4>1 DEF DeleteProduct, IInv, TypeOK, InstitutionProductsExact
      <3>3. CASE j # k[2]
        <4>1. <<q, j>> # k /\ <<q, j>> \in Key
          BY <2>1, <3>3 DEF Key
        <4>2. QED
          BY <1>6, <2>1, <3>3, <4>1 DEF DeleteProduct, IInv, TypeOK, InstitutionProductsExact
      <3>4. QED
        BY <3>1, <3>2, <3>3
    <2>5. QED
      BY <2>4 DEF InstitutionProductsExact
  <1>7. ASSUME NEW k \in Key, NEW q \in U32, PurchaseProduct(k, q)
        PROVE  InstitutionProductsExact'
    <2>1. products[k] \in ProductInfo
      BY <1>7 DEF PurchaseProduct, IInv, TypeOK
    <2>2. products[k].stock - q \in U32
      BY <1>7, <2>1, ProductBoundAssumption DEF PurchaseProduct, ProductInfo, U32
    <2>3. SatAdd(products[k].sales, q) \in U32
      BY <2>1, SatAddType DEF ProductInfo
    <2>4. products'[k] \in ProductInfo
      BY <1>7, <2>1, <2>2, <2>3 DEF PurchaseProduct, ProductInfo, IInv, TypeOK
    <2>5. QED
      BY <1>7, <2>4, ExistenceKept DEF PurchaseProduct, IInv, TypeOK
  <1>8. CASE UNCHANGED vars
    BY <1>8 DEF vars, IInv, InstitutionProductsExact
  <1>9. QED
    BY <1>2, <1>3, <1>4, <1>5, <1>6, <1>7, <1>8 DEF Next

\* InstitutionProductsExact for every value of the constants, when a
\* failing extrinsic is rolled back.
THEOREM IndexExact == StorageLayer => (Spec => []InstitutionProductsExact)
  <1> SUFFICES ASSUME StorageLayer PROVE Spec => []InstitutionProductsExact
    OBVIOUS
  <1>1. Init => IInv
    BY DEF Init, IInv, TypeOK, InstitutionProductsExact, Key
  <1>2. IInv /\ [Next]_vars => IInv'
    BY IndexStep
  <1>3. IInv => InstitutionProductsExact
    BY DEF IInv
  <1>4. QED
    BY <1>1, <1>2, <1>3, PTL DEF Spec

=============================================================================
