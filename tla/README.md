# Formal models of the fissionmall pallets

These are TLA+ models of the seven FRAME pallets under `src/pallets/`. TLC
checks them on small instances. TLAPS proves the index invariants of the
four pallets with indexes, the refinement of both order pallets to an
abstract record lifecycle, and the price rules, for every value of the
constants.

## The system

There are seven independent FRAME pallets, and none calls another. Each
keeps one primary map and zero or more secondary index maps:

| pallet | primary map | indexes (BoundedVec buckets) | extrinsics |
|---|---|---|---|
| c2c-order | `Orders` | `UserOrders` (member code), `InstitutionOrders`, `OrdersByStatus` | create, update status, cancel, complete, delete |
| c2c-token | `Tokens` (token, institution) | `InstitutionTokens`, `UserTokens` (account → pairs) | create, update info/status/price/stock, delete, trade |
| order | `Orders` | `UserOrders`, `InstitutionOrders` | create, update status, update express info, cancel, delete |
| product | `Products` (product, institution) | `InstitutionProducts` | create, update info/status/stock, delete, purchase |
| institution | `Institutions` | — | create, update status, update info, delete |
| institution-freight-template | `FreightTemplates` | — | create, update, delete |
| institution-payment-method | `PaymentMethods` | — | set, remove, update field |

The runtime executes extrinsics one at a time, so each extrinsic is one step
of a model. What makes these pallets hard is not concurrency:

- **Multi-map writes.** A handler writes the primary map and then its
  indexes. Every `try_push` can fail on a full bucket, after the earlier
  writes are done. `try_mutate` on the primary map commits only when its
  closure returns Ok, while the inner `mutate`s of other maps commit as they
  go. So a call is all-or-nothing only if FRAME's storage layer rolls back a
  failed dispatchable, which is the default of the FRAME these pallets
  target. The models keep this as the constant `StorageLayer`:
  - TRUE is the deployed behaviour;
  - FALSE keeps every write made before the error.
- **Index hygiene across accounts.** One account can add an entry to an
  index, and another account's handler is responsible for removing it
  (c2c-token trade and delete).
- **State machines.** Each order pallet has its own transition table.
  cancel_order and complete_order bypass the table with their own status
  lists.
- **Options written before a check.** update_product_info writes the
  optional prices and only then checks them against each other.
- **u32 arithmetic.** Stock, sales and order totals use saturating
  arithmetic.
- **Authorization.** Spec §8 says only a record's creator mutates or deletes
  it. Each handler makes its own check, or none.

## Modules

- `FrameStorage`: the storage behaviour shared by every model.
  - A bucket is a function from key to its number of occurrences. The
    pallets never read a bucket's order; they only test membership and
    compare the length with the bound.
  - `BucketLen` and `HasRoom` model a try_push against the bound. `Push`
    adds an entry, `Retain` drops every occurrence, and `Holds` is contains.
  - `Dispatch(ok, writes, vars)` is a handler's writes, undone when the
    handler fails and `StorageLayer` holds.
- `C2COrder` models the c2c-order pallet.
  - Its variables are `orders`, `userOrders`, `institutionOrders` and
    `ordersByStatus`, one per storage item.
  - There is one action per extrinsic. `ChangeStatus` is the try_mutate
    tail shared by the three status handlers.
  - An order is abstracted to member, institution, status and creator,
    because the handlers read nothing else.
- `RecordLifecycle` is the abstract specification of what an order pallet
  promises about its records (spec §4.4, §4.5 and §8).
  - A record is a status and a creator, or `Absent`.
  - `Create` fills an absent key in the initial status, `Move` takes one
    edge of the transition graph, and `Remove` empties a key. One step
    touches one record.
  - `C2COrder` and `Order` each instantiate it (`Lifecycle == INSTANCE
    RecordLifecycle WITH ...`). The mapping sends each order to its status
    and creator, and the graph is the pallet's own
    validate_status_transition.
- `C2CToken` models the c2c-token pallet.
  - Its variables are `tokens`, `institutionTokens` and `userTokens`.
  - A token keeps price, direction, stock, sales, status and creator. Name
    and category are written but never read, so they are left out.
  - The u128 price is `0..MaxPrice`, which is enough to tell the zero the
    handlers refuse from the prices they accept.
  - `UpdateTokenInfo` takes its price and direction as Rust `Option`s
    (`Option(S)`, where None is `<<>>`). A zero price makes the closure
    return an error, and try_mutate then writes nothing.
  - `TradeToken` pushes a Buy token into the buyer's list unless it is
    already there.
- `Order` models the plain order pallet.
  - Its variables are `orders`, `userOrders` and `institutionOrders`.
  - `OrderTotals` is create_order's loop over the items, a recursive
    function with saturating `SatMul` and `SatAdd`, followed by the freight.
  - `ExactSum` is the reference sum that it is checked against.
  - `Totals` is the set of totals the loop can compute. `Stored`, the type
    of a stored order, takes its totals from it, so the proofs never reason
    about the loop.
  - `UpdateExpressInfo` overwrites the express company and number, one
    abstract value from `Express`, in any status.
- `Product` models the product pallet.
  - Its variables are `products` and `institutionProducts`.
  - `UpdateProductInfo` applies each optional price (`Apply`, where `None`
    keeps the old price) and then checks current ≤ original on the result.
  - `PurchaseProduct` can be called by any account.
- `Institution`, `FreightTemplate` and `PaymentMethod` model the
  single-map pallets.
  - Each has a history variable `caller`, the signer of the last state
    change. It is not storage: it lets a property say who made a change.
  - `PaymentMethod` stores no creator. Its history variable `createdBy`
    records who first set each record, so that spec §8 can be stated.
- `InstitutionSettings` composes the three single-map pallets side by
  side through `INSTANCE`. A step is a step of one pallet, and the other
  two are unchanged. `MC_InstitutionSettings` adds the symmetry set for
  TLC, and one run covers all three pallets.
- `RecordLifecycle` is the abstract specification that both order pallets
  implement. It also states three action properties of its own:
  `CreatorFixed`, `CreatedInitial` and `MovesAlongEdges`.
- `MC_C2COrder`, `MC_C2CToken`, `MC_Order`, `MC_Product` and
  `MC_PaymentMethod` are the TLC instances: model values and symmetry.
- `C2COrderProofs`, `C2CTokenProofs`, `OrderProofs`, `OrderTotalsProofs`,
  `ProductProofs`, `SettingsProofs` and `RecordLifecycleProofs` hold the
  TLAPS proofs.

## Runs

| run | cfg | expect | what it shows |
|---|---|---|---|
| c2c_order_indexes | C2COrder.cfg | pass | `IndexesMatchStore`: every bucket of every index holds exactly the stored orders with its key, each once. `LifecycleRefined`: the pallet implements `RecordLifecycle`. Records are created only at empty codes and in Pending, every status change is an edge of validate_status_transition (cancel_order and complete_order included), and no creator changes. |
| c2c_order_no_rollback | C2COrderNoRollback.cfg | violation | Without a storage layer, a create_order that fails on a full Pending bucket leaves an order stored and half indexed. |
| c2c_token_indexes | C2CToken.cfg | pass | `InstitutionIndexExact`: InstitutionTokens is exact. `CreatorHoldsToken`: every token stays in its creator's UserTokens. `PricePositive`: create_token, update_token_info and update_token_price never store a zero price. |
| c2c_token_dangling | C2CTokenHoldingsReferToTokens.cfg | violation | An account buys another account's Buy token, the creator deletes it, and the buyer's list still names it. |
| c2c_token_duplicate | C2CTokenNoDuplicateHoldings.cfg | violation | The former buyer creates the token again and holds the pair twice. |
| order_indexes | Order.cfg | pass | `OrderIndexesMatchStore`, and `LifecycleRefined` with the order pallet's own table, including cancel_order and update_express_info. |
| order_totals | OrderTotals.cfg | pass | `TotalsClamped`: the item-by-item saturating totals equal the exact sums clamped at u32::MAX. |
| product | Product.cfg | pass | `InstitutionProductsExact`, and `CurrentNotAboveOriginal` whichever options update_product_info gets. |
| institution_settings | InstitutionSettings.cfg | pass | Only an institution's or a template's creator changes it, with the payment-method pallet stepping alongside. |
| payment_at_least_one | PaymentMethodAtLeastOne.cfg | violation | update_payment_field clears the last method of a record. |
| payment_authorization | PaymentMethodAuthorization.cfg | violation | Any account overwrites, changes or removes another account's payment methods. |

### Bounds

- **c2c-order:** three order codes against buckets of capacity two, so that
  every family of buckets can be full when a push happens. There are two
  values of every key kind.
- **c2c-token:** two token codes at one institution, two accounts, lists of
  two, and MaxU32 = 2, so a trade of 2 saturates. Prices 0..2 give each
  price handler a zero to refuse and a real change to make. One institution is enough
  to give an account two tokens that share an institution, which a wrong
  retain predicate confuses. Two institutions push the run past five
  minutes.
- **order:** two runs.
  - The index run has three orders against caps of two, one item per order,
    fixed amounts, and two express values (the empty default and one
    other).
  - The totals run has one order with lists of up to two items, amounts
    {0,1,2}, freight {0,2} and MaxU32 = 3. This reaches an overflow in the
    product, an overflow in the sum, and an overflow in the freight alone.
- **product:** three product codes at one institution with a cap of two, so
  the list fills up. Prices {1,2} make every order between current and
  original reachable.
- **institution settings:** two institutions, two accounts, two values of
  every payload. The payment pallet runs on one institution, to keep the
  composite run short.
- **Symmetry:** all key sets are model values with symmetry. No property
  names a particular key, so the symmetry is sound.

### Fairness

None. Every step is an extrinsic that a user may or may not submit. The
pallets have no hooks, no timers and no automatic retries. There is nothing
the system must eventually do, so there are no liveness properties.

### Mutants

Each property of a passing run is broken by a plausible bug. The mutant
sits beside the definition it replaces:

- `ChangeStatusKeepsOld` forgets the retain out of the old status bucket.
- `CancelOrderFromDelivered` widens cancel_order's status list. It is used
  in both order pallets and breaks `LifecycleRefined`: Delivered to
  Cancelled is not an edge.
- `CreateTokenOverwrites` drops create_token's contains_key check.
- `DeleteTokenDeMorgan` writes delete_token's retain predicate with `&&`.
- `UpdateTokenPriceUnchecked` drops update_token_price's `new_price > 0`.
- `DeleteOrderKeepsInstitution` forgets the institution bucket.
- `OrderTotalsWrapping` wraps the totals instead of saturating them.
- `DeleteProductKeepsIndex` forgets the retain of delete_product.
- `UpdateProductInfoChecksOld` checks the stored prices instead of the new
  ones.
- `DeleteInstitutionByAnyone` drops the creator check of delete_institution.
- `UpdateFreightTemplateByAnyone` drops the creator check of the template
  update.

## Findings

- **c2c-token delete_token** (lib.rs:451) cleans only the creator's
  UserTokens. trade_token adds Buy tokens to every buyer's list, and those
  entries dangle after a delete (spec I1).
- **c2c-token create_token** (lib.rs:219) pushes to UserTokens without the
  contains check that trade_token makes. Together with the dangling entry
  above, a pair can be held twice (spec I3).
- **payment-method update_payment_field** (lib.rs:210) can set the last
  method to None. set_payment_method refuses a record with no method, so the
  at-least-one rule is enforced only on creation.
- **payment-method authorization** (lib.rs:165): no handler compares the
  signer with anything, and set_payment_method overwrites an existing
  record (spec §8).
- **All pallets with indexes:** handlers write before the fallible push.
  The spec's validate-before-commit rule (§7) holds only through FRAME's
  storage layer. Without it, the c2c-order indexes break.

## Proofs (TLAPS)

Assumptions:
- the caps, `MaxU32` and `MaxPrice` are positive naturals;
- the "none" model values (`NoOrder`, `NoProduct`, `None`) are not values
  of the type they stand beside;
- `Price` is a set of naturals.

`C2COrderProofs`:

- `TypeCorrect`: `Spec => []TypeOK`. It rests on `TypeStep` (every step
  preserves TypeOK) and `BucketOps` (Push and Retain keep a bucket a bucket
  and touch only their code).
- `IndexesConsistent`: `StorageLayer => (Spec => []IndexesMatchStore)`.
  - The step proof reads bucket and order types, so the inductive invariant
    is `IInv == TypeOK /\ IndexesMatchStore`.
  - There is one lemma per action: `CreatePreserves`,
    `ChangeStatusPreserves` (shared by the three status handlers) and
    `DeletePreserves`.
  - Under `StorageLayer`, the failing branch of `Dispatch` is a stutter.
  - `TransitionMoves` (a valid transition changes the status) makes the
    retain-then-push of `ChangeStatus` leave the code exactly once in the
    new bucket.
- `StatusChangesValid`: `Spec => StatusFollowsGraph`.
  - `GraphStepHolds` shows that every step under TypeOK is a graph step.
  - cancel_order and complete_order go through `ChangeStatusGraph`, because
    their status lists are subsets of the table's edges.
  - TLC no longer checks `StatusFollowsGraph`, because `LifecycleRefined`
    implies it.
- `Refinement`: `Spec => LifecycleRefined`, with or without the storage
  layer.
  - `LifeOf` is the refinement mapping, written out. `Init` maps to
    `Lifecycle!Init`.
  - `LifeStep` shows that every step is a `Lifecycle!Next` step of `LifeOf`
    or leaves it unchanged:
    - create_order is `Create`, because the code was empty;
    - the three status handlers are `Move`, through `ChangeStatusLife`;
    - delete_order is `Remove`;
    - a rolled-back step is a stutter.
- `LifecycleSafety`: the three action properties of `RecordLifecycle`,
  for the mapped orders. It instantiates `RecordLifecycleProofs` with
  `Lifecycle`'s substitutions (`LifeThm`). Then it chains `Refinement`
  with the abstract theorems.

`C2CTokenProofs`:

- `TypeCorrect`: stock and sales stay u32 across trades (`SatAddType`,
  `TradedType`). `InfoUpdated` shows that update_token_info's two options
  give a token of the same creator.
- `InstitutionIndexCorrect` and `CreatorsHoldTokens`: `StorageLayer =>
  (Spec => []InstitutionIndexExact)`, and the same for `CreatorHoldsToken`.
  - Both come from one inductive invariant, `IInv == TypeOK /\ InstitutionIndexExact /\ CreatorHoldsToken`. The two properties are
    proved together because trade_token's push keeps `CreatorHoldsToken`
    only while the list is a bucket of counts.
  - `RewriteKeeps` covers every step that rewrites one token, keeps its
    creator, and only adds to UserTokens. That is update info, price,
    status and stock, and trade.
  - `CreateKeeps` relies on `InstitutionIndexExact` to know that the new
    code had count 0.
  - `DeleteKeeps` shows that the retain drops exactly the pair deleted.
- `PricesPositive`: `Spec => []PricePositive`, with or without the storage
  layer. A failed create writes a record whose price was already checked.
  `PriceStep` shows that each price writer checks the value it writes,
  and that the other handlers, `TradedPrice` included, keep the price.

`OrderProofs`:

- The stored totals are typed by `Totals`, the set of totals create_order
  can compute. `NewOrderStored` shows that the order create_order builds
  (`NewOrder`) is in `Stored` by exhibiting its own items and freight. This
  keeps every proof away from the recursive totals loop.
- `TypeCorrect`: `Spec => []TypeOK`.
- `OrderIndexesCorrect`: `StorageLayer => (Spec =>
  []OrderIndexesMatchStore)`.
  - The invariant is `TypeOK /\ OrderIndexesMatchStore`.
  - The lemmas are `CreateKeeps`, `DeleteKeeps` (it retains from the
    member and institution the stored order names), and
    `StatusWriteKeeps` and `ExpressWriteKeeps` (through `RewriteKeeps`).
- `Refinement`: `Spec => LifecycleRefined`.
  - `MoveLife` covers update_order_status and cancel_order.
  - `KeepsLife` shows that update_express_info is a stutter of the mapped
    records.
- `LifecycleSafety`: the same corollary of the refinement as in
  `C2COrderProofs`.
- `StatusChangesValid`: `Spec => StatusFollowsGraph`. Here it is derived
  from the refinement instead of being proved action by action.
  - `GraphFromLife` shows that, between two typed states, a step whose
    mapped records move only along edges is a `StatusFollowsGraph` step.
  - This needs `NoOrderAssumption`: it makes a stored order's mapped
    record differ from `NoOrder`.

`ProductProofs`:

- `TypeCorrect`: stock and sales stay u32 across purchases (`SatAddType`).
- `PriceRule`: `Spec => []CurrentNotAboveOriginal`.
  - The invariant is `PInv == TypeOK /\ CurrentNotAboveOriginal`.
  - `PriceStep` shows that the post-write check of update_product_info,
    together with create's `cp <= op`, keeps it.
- `IndexExact`: `StorageLayer => (Spec => []InstitutionProductsExact)`.
  - The invariant is `TypeOK /\ InstitutionProductsExact`.
  - `ExistenceKept` covers the steps that rewrite a stored product without
    changing whether it exists.

`RecordLifecycleProofs` proves the abstract specification's promises for
any keys, statuses, owners and graph. The only hypothesis is that the
initial status is a status.
- `TypeCorrect` makes every present record a status and a creator.
- `StepSafe` shows that each step is a creator step, an initial step and
  an edge step at once. Each action writes one key: `Create` writes only
  an absent key, `Move` changes only the status along an edge, and
  `Remove` leaves the key absent.
- From these come `CreatorStable`, `StartsInitial` and `FollowsEdges`.

These three are lemmas about the abstract module. They hold whatever the
pallets do, and they say something about the code only through the
`LifecycleSafety` theorems of `C2COrderProofs` and `OrderProofs`, which
chain them with each pallet's refinement proof.

`SettingsProofs` extends `InstitutionSettings`. It proves the two
properties the institution_settings run checks, for all constants:
- `InstitutionAuthorization`: `Spec => InstitutionOnlyCreatorMutates`.
- `TemplateAuthorization`: `Spec => TemplateOnlyCreatorMutates`.
It also proves the payment-method type invariant (`PaymentTypeCorrect`).

Each proof has the same steps:
- `*Steps`: a composed step is the pallet's `Next` or leaves its
  variables unchanged.
- `*TypeCorrect`: the pallet's type invariant.
- A step lemma. Every action writes one key. A create writes only a
  missing key. Every other writer first checks `Owns`, which makes the
  signer the creator.

The payment-method pallet has no authorization or at-least-one rule to
prove. The code breaks both, and the two violation runs show how. The
property that a record is created only with a method set was dropped. It
restated set_payment_method's single guard, and the rule that matters is
`AtLeastOneMethod`, which update_payment_field violates.

No assumption on the constants is needed.

The payment-method type proof found a precedence slip in
`PaymentMethod!TypeOK`. `SUBSET Field \cup {NoMethod}` parses as
`SUBSET (Field \cup {NoMethod})`. It is now written
`(SUBSET Field) \cup {NoMethod}`. No run checked that type invariant.

`OrderTotalsProofs` extends `OrderProofs`. It proves `TotalsCorrect`:
`Spec => []TotalsClamped`, for every item list, freight and `MaxU32`.
create_order's loop saturates at every item, so an overflow in the middle
of the list could in principle lose more than the clamp. The theorem shows
that it does not: the stored totals are the exact sums (plus freight)
clamped once.
- `TotalsClamped` is not inductive as it stands. It names `OrderTotals`
  and `ExactSum`, and a step that builds a new order has to know what the
  loop computes. The invariant used is `TypeOK /\ TotalsOfItems`:
  every stored order's totals are `OrderTotals` of its own items and
  freight. `TotalsStep` shows that create_order establishes it and that
  the status and express writers keep items and totals together.
- `LoopClamped` is the induction over the item list. It shows that the
  loop (`Loop`) equals `Clamped`: at each prefix, the running totals are
  the exact prefix sums (`Partial`) clamped at `MaxU32`.
  - The step is `SatAddCut`: `SatAdd(Cut(a), Cut(x)) = Cut(a + x)` for
    naturals. It holds because clamping is monotone and both arguments are
    non-negative. `SatMulCut` is the same fact for the per-item product.
  - The induction is by least counterexample. `LeastElement` is derived
    from `NatLessThanWellFounded` and `WFMin` of `WellFoundedInduction`.
    These are stated on sets, so no operator parameter has to be
    instantiated.
  - `PartialDef` unfolds the scalar prefix sum through
    `FiniteNatInductiveDef`. The loop's value is a record, and that unfolding
    is too large for Zenon. So `ClampedFixed` shows that `Clamped` is a
    fixed point of the loop body (`LoopBody`), and `LoopDef` then gets the
    loop's own unfolding from the definition's CHOOSE, with `Clamped` as
    the witness.
- `TotalsExactSums` combines the above with the freight addition. It needs
  `OrderBoundAssumption` (prices, weights, quantities and freight are
  naturals).

Every invariant and property that a passing run checks is now also a
theorem, proved for all values of the constants. The runs remain the quick
check on small instances, and the mutants show that each property can
detect a bug.

Violation runs are not proofs. They exhibit a counterexample trace.

There is no liveness property to prove.

## Not modelled

- the c2c-token name and category fields, and the options of
  update_token_info that set them, which are written and never read;
- block numbers (created and updated time) and an order's contact
  information, which no handler reads;
- events, weights, string-length validation and string conversion. A
  failing `BoundedVec::try_from` is an early return before any write, so it
  is not a step.

## Plan for later sittings

- Add a model of the c2c-token sales saturation against stock.
