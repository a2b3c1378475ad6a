------------------------------ MODULE Product -------------------------------
(***************************************************************************)
(* The product pallet (src/pallets/product/src/lib.rs): a double map       *)
(* Products from (product code, institution code) to a product, indexed by *)
(* InstitutionProducts (the product codes of an institution).              *)
(*                                                                         *)
(* A product keeps its two prices, stock, sales, status and creator.  The  *)
(* name, category, brand, groups, description, images, weight, profit      *)
(* ratio and creation block are written but never read by any handler and *)
(* are left out.  Prices are u64 values drawn from the small set Price;    *)
(* stock and sales are u32 with saturation at MaxU32 (u32::MAX).  Early    *)
(* returns before any write, and errors inside try_mutate (which then      *)
(* commits nothing), are not steps.                                        *)
(***************************************************************************)
EXTENDS Naturals, FiniteSets, FrameStorage

CONSTANTS
    Account,                  \* signed origins
    ProductCode,              \* product codes
    InstitutionCode,          \* institution codes
    NoProduct,                \* Products::get returning None
    None,                     \* an omitted Option argument
    InstitutionProductsCap,   \* ConstU32<10000> of InstitutionProducts
    Price,                    \* the u64 prices tried
    MaxU32                    \* u32::MAX

VARIABLES
    products,             \* Products
    institutionProducts   \* InstitutionProducts

vars == <<products, institutionProducts>>

Key == ProductCode \X InstitutionCode

U32 == 0..MaxU32

\* ProductInfo (lines 67-93) without its unread fields.
ProductInfo == [original: Price, current: Price, stock: U32, sales: U32,
                status: {"Available", "Unavailable"}, creator: Account]

ASSUME NoProductAssumption == NoProduct \notin ProductInfo
ASSUME ProductBoundAssumption ==
    /\ InstitutionProductsCap \in Nat \ {0}
    /\ MaxU32 \in Nat \ {0}
    /\ Price \subseteq Nat
    /\ None \notin Price

\* u32::saturating_add.
SatAdd(a, b) == IF a + b > MaxU32 THEN MaxU32 ELSE a + b

\* if let Some(v) = arg { field = v }.
Apply(old, arg) == IF arg = None THEN old ELSE arg

-----------------------------------------------------------------------------
Init ==
    /\ products = [k \in Key |-> NoProduct]
    /\ institutionProducts = [i \in InstitutionCode |-> [p \in ProductCode |-> 0]]

\* create_product with prices op, cp and stock s: the price check comes
\* before any write; then the product is inserted and its code pushed to
\* the institution's list, which fails on a full list.
CreateProduct(who, p, i, op, cp, s) ==
    /\ products[<<p, i>>] = NoProduct
    /\ cp <= op
    /\ LET ok == HasRoom(institutionProducts[i], InstitutionProductsCap)
       IN Dispatch(ok,
            /\ products' = [products EXCEPT ![<<p, i>>] =
                  [original |-> op, current |-> cp, stock |-> s, sales |-> 0,
                   status |-> "Available", creator |-> who]]
            /\ institutionProducts' = IF ok THEN [institutionProducts EXCEPT ![i] = Push(@, p)]
                                            ELSE institutionProducts,
            vars)

\* The caller created the existing product k (the check inside try_mutate).
Owns(who, k) == products[k] # NoProduct /\ products[k].creator = who

\* Mutant: the price rule checked against the stored prices, before the
\* optional writes.
UpdateProductInfoChecksOld(who, k, op, cp) ==
    /\ Owns(who, k)
    /\ products[k].current <= products[k].original
    /\ products' = [products EXCEPT ![k].original = Apply(@, op),
                                    ![k].current = Apply(@, cp)]
    /\ UNCHANGED institutionProducts

\* update_product_info with optional prices op, cp (None when omitted):
\* both writes happen first, then the closure fails unless the resulting
\* current price is at most the resulting original price.
UpdateProductInfo(who, k, op, cp) ==
    LET new == [products[k] EXCEPT !.original = Apply(@, op), !.current = Apply(@, cp)]
    IN /\ Owns(who, k)
       /\ new.current <= new.original
       /\ products' = [products EXCEPT ![k] = new]
       /\ UNCHANGED institutionProducts

\* update_product_status.
UpdateProductStatus(who, k, s) ==
    /\ Owns(who, k)
    /\ products' = [products EXCEPT ![k].status = s]
    /\ UNCHANGED institutionProducts

\* update_stock.
UpdateStock(who, k, n) ==
    /\ Owns(who, k)
    /\ products' = [products EXCEPT ![k].stock = n]
    /\ UNCHANGED institutionProducts

\* Mutant: delete_product forgetting the retain out of the index.
DeleteProductKeepsIndex(who, k) ==
    /\ Owns(who, k)
    /\ products' = [products EXCEPT ![k] = NoProduct]
    /\ UNCHANGED institutionProducts

\* delete_product: drop the code from the institution's list, then remove
\* the product.
DeleteProduct(who, k) ==
    /\ Owns(who, k)
    /\ institutionProducts' = [institutionProducts EXCEPT ![k[2]] = Retain(@, k[1])]
    /\ products' = [products EXCEPT ![k] = NoProduct]

\* purchase_product by any account: an Available product with enough stock
\* moves q units from stock to sales.
PurchaseProduct(k, q) ==
    /\ products[k] # NoProduct
    /\ products[k].status = "Available"
    /\ products[k].stock >= q
    /\ products' = [products EXCEPT ![k].stock = @ - q, ![k].sales = SatAdd(@, q)]
    /\ UNCHANGED institutionProducts

Next ==
    \/ \E who \in Account, k \in Key :
        \/ \E op, cp \in Price, s \in U32 : CreateProduct(who, k[1], k[2], op, cp, s)
        \/ \E op, cp \in Price \cup {None} : UpdateProductInfo(who, k, op, cp)
        \/ \E s \in {"Available", "Unavailable"} : UpdateProductStatus(who, k, s)
        \/ \E n \in U32 : UpdateStock(who, k, n)
        \/ DeleteProduct(who, k)
    \/ \E k \in Key, q \in U32 : PurchaseProduct(k, q)

Spec == Init /\ [][Next]_vars

-----------------------------------------------------------------------------
(* Properties.                                                             *)

TypeOK ==
    /\ products \in [Key -> ProductInfo \cup {NoProduct}]
    /\ institutionProducts \in [InstitutionCode -> [ProductCode -> Nat]]

\* Spec I1-I3 for InstitutionProducts: an institution's list holds exactly
\* the codes of its stored products, each once, across creates that fail on
\* a full list and deletes.
InstitutionProductsExact ==
    \A i \in InstitutionCode, p \in ProductCode :
        institutionProducts[i][p] = IF products[<<p, i>>] # NoProduct THEN 1 ELSE 0

\* No stored product is priced above its original price, after any sequence
\* of update_product_info calls that set one price, the other or both: the
\* check must see the prices as they will be stored.
CurrentNotAboveOriginal ==
    \A k \in Key : products[k] # NoProduct => products[k].current <= products[k].original

=============================================================================
