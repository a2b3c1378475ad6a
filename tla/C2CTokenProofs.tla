--------------------------- MODULE C2CTokenProofs ---------------------------
(***************************************************************************)
(* Proofs about C2CToken for every value of its constants.                 *)
(***************************************************************************)
EXTENDS C2CToken, TLAPS

\* A bucket of InstitutionTokens, and a bucket of UserTokens.
IBucket == [TokenCode -> Nat]
UBucket == [Key -> Nat]

\* Push and Retain keep an InstitutionTokens bucket a bucket, and touch only
\* their code.
LEMMA IBucketOps ==
    ASSUME NEW b \in IBucket, NEW x \in TokenCode
    PROVE  /\ Push(b, x) \in IBucket
           /\ Retain(b, x) \in IBucket
           /\ Push(b, x)[x] = b[x] + 1
           /\ Retain(b, x)[x] = 0
           /\ \A y \in TokenCode \ {x} : Push(b, x)[y] = b[y] /\ Retain(b, x)[y] = b[y]
  BY DEF IBucket, Push, Retain

\* The same for a UserTokens bucket and its pairs.
LEMMA UBucketOps ==
    ASSUME NEW b \in UBucket, NEW x \in Key
    PROVE  /\ Push(b, x) \in UBucket
           /\ Retain(b, x) \in UBucket
           /\ Push(b, x)[x] = b[x] + 1
           /\ Retain(b, x)[x] = 0
           /\ \A y \in Key \ {x} : Push(b, x)[y] = b[y] /\ Retain(b, x)[y] = b[y]
  BY DEF UBucket, Push, Retain

\* u32::saturating_add stays a u32.
LEMMA SatAddType ==
    ASSUME NEW a \in U32, NEW b \in U32
    PROVE  SatAdd(a, b) \in U32
  BY BoundAssumption DEF SatAdd, U32

\* A trade keeps a token a token: a Sell trade is guarded by the stock.
LEMMA TradedType ==
    ASSUME NEW tok \in TokenInfo, NEW q \in U32,
           tok.direction = "Sell" => tok.stock >= q
    PROVE  Traded(tok, q) \in TokenInfo
  <1>1. CASE tok.direction = "Sell"
    <2>1. tok.stock \in U32 /\ tok.sales \in U32 /\ tok.stock >= q
      BY <1>1 DEF TokenInfo
    <2>2. tok.stock - q \in U32
      BY <2>1, BoundAssumption DEF U32
    <2>3. SatAdd(tok.sales, q) \in U32
      BY <2>1, SatAddType
    <2>4. QED
      BY <1>1, <2>2, <2>3 DEF Traded, TokenInfo
  <1>2. CASE tok.direction # "Sell"
    <2>1. SatAdd(tok.stock, q) \in U32
      BY SatAddType DEF TokenInfo
    <2>2. QED
      BY <1>2, <2>1 DEF Traded, TokenInfo
  <1>3. QED
    BY <1>1, <1>2

\* A trade leaves a token's creator alone.
LEMMA TradedCreator ==
    ASSUME NEW tok \in TokenInfo, NEW q \in U32
    PROVE  Traded(tok, q).creator = tok.creator
  BY DEF Traded, TokenInfo

\* update_token_info rewrites one token into a token of the same creator.
LEMMA InfoUpdated ==
    ASSUME TypeOK, NEW who \in Account, NEW k \in Key, NEW p \in Option(Price),
           NEW d \in Option({"Sell", "Buy"}), UpdateTokenInfo(who, k, p, d)
    PROVE  /\ tokens' = [tokens EXCEPT ![k] = tokens'[k]]
           /\ tokens'[k] \in TokenInfo
           /\ tokens'[k].creator = tokens[k].creator
           /\ TypeOK'
           /\ UNCHANGED <<institutionTokens, userTokens>>
  <1>1. tokens[k] \in TokenInfo
    BY NoTokenAssumption DEF UpdateTokenInfo, Owns, TypeOK
  <1>2. (IF p = None THEN tokens[k].price ELSE p[1]) \in Price
    BY <1>1 DEF Option, None, TokenInfo
  <1>3. (IF d = None THEN tokens[k].direction ELSE d[1]) \in {"Sell", "Buy"}
    BY <1>1 DEF Option, None, TokenInfo
  <1>4. QED
    BY <1>1, <1>2, <1>3 DEF UpdateTokenInfo, TypeOK, TokenInfo

-----------------------------------------------------------------------------
(* Type correctness.                                                       *)

\* Every step, with or without the storage layer, keeps the types.
LEMMA TypeStep == TypeOK /\ [Next]_vars => TypeOK'
  <1> SUFFICES ASSUME TypeOK, [Next]_vars PROVE TypeOK'
    OBVIOUS
  <1> USE DEF TypeOK
  <1>1. ASSUME NEW who \in Account, NEW k \in Key, NEW p \in Price,
               NEW d \in {"Sell", "Buy"}, NEW s \in U32,
               CreateToken(who, k[1], k[2], p, d, s)
        PROVE  TypeOK'
    <2>1. k = <<k[1], k[2]>> /\ k[1] \in TokenCode /\ k[2] \in InstitutionCode
      BY DEF Key
    <2>2. Push(institutionTokens[k[2]], k[1]) \in [TokenCode -> Nat]
      BY <2>1, IBucketOps DEF IBucket
    <2>3. Push(userTokens[who], k) \in [Key -> Nat]
      BY UBucketOps DEF UBucket
    <2>4. [price |-> p, direction |-> d, stock |-> s, sales |-> 0,
           status |-> "Available", creator |-> who] \in TokenInfo
      BY BoundAssumption DEF TokenInfo, U32
    <2> DEFINE okI == HasRoom(institutionTokens[k[2]], InstitutionTokensCap)
               okU == okI /\ HasRoom(userTokens[who], UserTokensCap)
    <2>5. CASE okU
      <3>1. /\ tokens' = [tokens EXCEPT ![k] = [price |-> p, direction |-> d, stock |-> s, sales |-> 0,
                                               status |-> "Available", creator |-> who]]
            /\ institutionTokens' = [institutionTokens EXCEPT ![k[2]] = Push(@, k[1])]
            /\ userTokens' = [userTokens EXCEPT ![who] = Push(@, k)]
        BY <1>1, <2>1, <2>5 DEF CreateToken, Dispatch
      <3>2. QED
        BY <2>2, <2>3, <2>4, <3>1
    <2>6. CASE ~okU
      <3>1. \/ /\ tokens' = [tokens EXCEPT ![k] = [price |-> p, direction |-> d, stock |-> s, sales |-> 0,
                                                  status |-> "Available", creator |-> who]]
               /\ institutionTokens' \in {institutionTokens,
                                          [institutionTokens EXCEPT ![k[2]] = Push(@, k[1])]}
               /\ userTokens' = userTokens
            \/ UNCHANGED vars
        BY <1>1, <2>1, <2>6 DEF CreateToken, Dispatch
      <3>2. QED
        BY <2>2, <2>4, <3>1 DEF vars
    <2>7. QED
      BY <2>5, <2>6
  <1>2. ASSUME NEW who \in Account, NEW k \in Key, NEW p \in Option(Price),
               NEW d \in Option({"Sell", "Buy"}), UpdateTokenInfo(who, k, p, d)
        PROVE  TypeOK'
    BY <1>2, InfoUpdated
  <1>9. ASSUME NEW who \in Account, NEW k \in Key, NEW p \in Price,
               UpdateTokenPrice(who, k, p)
        PROVE  TypeOK'
    BY <1>9 DEF UpdateTokenPrice, Owns, TokenInfo
  <1>3. ASSUME NEW who \in Account, NEW k \in Key,
               NEW s \in {"Available", "Unavailable"},
               UpdateTokenStatus(who, k, s)
        PROVE  TypeOK'
    BY <1>3 DEF UpdateTokenStatus, Owns, TokenInfo
  <1>4. ASSUME NEW who \in Account, NEW k \in Key, NEW n \in U32,
               UpdateStock(who, k, n)
        PROVE  TypeOK'
    BY <1>4 DEF UpdateStock, Owns, TokenInfo
  <1>5. ASSUME NEW who \in Account, NEW k \in Key, DeleteToken(who, k)
        PROVE  TypeOK'
    <2>1. k[1] \in TokenCode /\ k[2] \in InstitutionCode
      BY DEF Key
    <2>2. Retain(institutionTokens[k[2]], k[1]) \in [TokenCode -> Nat]
      BY <2>1, IBucketOps DEF IBucket
    <2>3. Retain(userTokens[who], k) \in [Key -> Nat]
      BY UBucketOps DEF UBucket
    <2>4. QED
      BY <1>5, <2>2, <2>3 DEF DeleteToken
  <1>6. ASSUME NEW who \in Account, NEW k \in Key, NEW q \in U32,
               TradeToken(who, k, q)
        PROVE  TypeOK'
    <2>1. tokens[k] \in TokenInfo
      BY <1>6, NoTokenAssumption DEF TradeToken
    <2>2. Traded(tokens[k], q) \in TokenInfo
      BY <1>6, <2>1, TradedType DEF TradeToken
    <2>3. Push(userTokens[who], k) \in [Key -> Nat]
      BY UBucketOps DEF UBucket
    <2>4. QED
      BY <1>6, <2>2, <2>3 DEF TradeToken, Dispatch, vars
  <1>7. CASE UNCHANGED vars
    BY <1>7 DEF vars
  <1>8. QED
    BY <1>1, <1>2, <1>3, <1>4, <1>5, <1>6, <1>7, <1>9 DEF Next

\* Every reachable state is well typed, with or without the storage layer.
THEOREM TypeCorrect == Spec => []TypeOK
  <1>1. Init => TypeOK
    BY DEF Init, TypeOK
  <1>2. QED
    BY <1>1, TypeStep, PTL DEF Spec


-----------------------------------------------------------------------------
(* The InstitutionTokens index and the creators' holdings, with the        *)
(* storage layer.                                                          *)

\* The inductive invariant: both properties, and the types to read them.
IInv == TypeOK /\ InstitutionIndexExact /\ CreatorHoldsToken

\* A step that rewrites one stored token, keeping its creator, and only
\* adds to the UserTokens lists keeps both properties.
LEMMA RewriteKeeps ==
    ASSUME IInv, TypeOK', institutionTokens' = institutionTokens,
           NEW k \in Key, tokens[k] # NoToken, tokens'[k] \in TokenInfo,
           tokens'[k].creator = tokens[k].creator,
           \A k2 \in Key \ {k} : tokens'[k2] = tokens[k2],
           \A a \in Account, k2 \in Key : userTokens'[a][k2] >= userTokens[a][k2]
    PROVE  InstitutionIndexExact' /\ CreatorHoldsToken'
  <1>1. tokens'[k] # NoToken
    BY NoTokenAssumption
  <1>2. \A k2 \in Key : (tokens'[k2] # NoToken) = (tokens[k2] # NoToken)
    BY <1>1
  <1>3. InstitutionIndexExact'
    BY <1>2 DEF IInv, InstitutionIndexExact, Key
  <1>4. \A k2 \in Key : tokens'[k2] # NoToken => tokens'[k2].creator = tokens[k2].creator
    OBVIOUS
  <1>5. CreatorHoldsToken'
    BY <1>2, <1>4 DEF IInv, TypeOK, CreatorHoldsToken, Holds, TokenInfo
  <1>6. QED
    BY <1>3, <1>5

\* create_token, when every push succeeds, keeps both properties.
LEMMA CreateKeeps ==
    ASSUME IInv, NEW who \in Account, NEW k \in Key, NEW p \in Price,
           NEW d \in {"Sell", "Buy"}, NEW s \in U32, tokens[k] = NoToken,
           tokens' = [tokens EXCEPT ![k] = [price |-> p, direction |-> d, stock |-> s, sales |-> 0,
                                           status |-> "Available", creator |-> who]],
           institutionTokens' = [institutionTokens EXCEPT ![k[2]] = Push(@, k[1])],
           userTokens' = [userTokens EXCEPT ![who] = Push(@, k)]
    PROVE  InstitutionIndexExact' /\ CreatorHoldsToken'
  <1> DEFINE t == k[1]
             i == k[2]
             rec == [price |-> p, direction |-> d, stock |-> s, sales |-> 0,
                     status |-> "Available", creator |-> who]
  <1>1. k = <<t, i>> /\ t \in TokenCode /\ i \in InstitutionCode
    BY DEF Key
  <1>2. rec \in TokenInfo /\ rec # NoToken
    BY BoundAssumption, NoTokenAssumption DEF TokenInfo, U32
  <1>3. institutionTokens[i] \in IBucket /\ userTokens[who] \in UBucket
    BY <1>1 DEF IInv, TypeOK, IBucket, UBucket
  <1>4. institutionTokens[i][t] = 0
    BY <1>1 DEF IInv, InstitutionIndexExact
  <1>5. InstitutionIndexExact'
    <2> SUFFICES ASSUME NEW j \in InstitutionCode, NEW u \in TokenCode
                 PROVE  institutionTokens'[j][u] = IF tokens'[<<u, j>>] # NoToken THEN 1 ELSE 0
      BY DEF InstitutionIndexExact
    <2>1. CASE j = i /\ u = t
      <3>1. Push(institutionTokens[i], t)[t] = 1
        BY <1>1, <1>3, <1>4 DEF Push, IBucket
      <3>2. institutionTokens'[j][u] = 1 /\ tokens'[<<u, j>>] = rec
        BY <1>1, <2>1, <3>1 DEF IInv, TypeOK
      <3>3. QED
        BY <1>2, <3>2
    <2>2. CASE j = i /\ u # t
      <3>1. <<u, j>> # k /\ <<u, j>> \in Key
        BY <1>1, <2>2 DEF Key
      <3>2. Push(institutionTokens[i], t)[u] = institutionTokens[i][u]
        BY <1>1, <1>3, <2>2, IBucketOps
      <3>3. institutionTokens'[j][u] = institutionTokens[j][u]
        BY <1>1, <2>2, <3>2 DEF IInv, TypeOK
      <3>4. QED
        BY <3>1, <3>3 DEF IInv, TypeOK, InstitutionIndexExact
    <2>3. CASE j # i
      <3>1. <<u, j>> # k /\ <<u, j>> \in Key
        BY <1>1, <2>3 DEF Key
      <3>2. QED
        BY <1>1, <2>3, <3>1 DEF IInv, TypeOK, InstitutionIndexExact
    <2>4. QED
      BY <2>1, <2>2, <2>3
  <1>6. CreatorHoldsToken'
    <2> SUFFICES ASSUME NEW k2 \in Key, tokens'[k2] # NoToken
                 PROVE  userTokens'[tokens'[k2].creator][k2] > 0
      BY DEF CreatorHoldsToken, Holds
    <2>1. CASE k2 = k
      <3>1. tokens'[k2].creator = who
        BY <2>1 DEF IInv, TypeOK
      <3>2. Push(userTokens[who], k)[k] = userTokens[who][k] + 1
        BY <1>3, UBucketOps
      <3>3. userTokens'[who][k] = userTokens[who][k] + 1
        BY <3>2 DEF IInv, TypeOK
      <3>4. userTokens[who][k] \in Nat
        BY <1>3 DEF UBucket
      <3>5. QED
        BY <2>1, <3>1, <3>3, <3>4
    <2>2. CASE k2 # k
      <3>1. tokens'[k2] = tokens[k2] /\ tokens[k2] \in TokenInfo
        BY <2>2 DEF IInv, TypeOK
      <3>2. userTokens[tokens[k2].creator][k2] > 0
        BY <3>1 DEF IInv, CreatorHoldsToken, Holds
      <3>3. Push(userTokens[who], k)[k2] = userTokens[who][k2]
        BY <1>3, <2>2, UBucketOps
      <3>4. userTokens'[tokens[k2].creator][k2] = userTokens[tokens[k2].creator][k2]
        BY <3>1, <3>3 DEF IInv, TypeOK, TokenInfo
      <3>5. QED
        BY <3>1, <3>2, <3>4
    <2>3. QED
      BY <2>1, <2>2
  <1>7. QED
    BY <1>5, <1>6

\* delete_token keeps both properties: the retain drops the exact pair.
LEMMA DeleteKeeps ==
    ASSUME IInv, NEW who \in Account, NEW k \in Key, DeleteToken(who, k)
    PROVE  InstitutionIndexExact' /\ CreatorHoldsToken'
  <1> DEFINE t == k[1]
             i == k[2]
  <1>1. k = <<t, i>> /\ t \in TokenCode /\ i \in InstitutionCode
    BY DEF Key
  <1>2. institutionTokens[i] \in [TokenCode -> Nat] /\ userTokens[who] \in [Key -> Nat]
    BY <1>1 DEF IInv, TypeOK
  <1>3. InstitutionIndexExact'
    <2> SUFFICES ASSUME NEW j \in InstitutionCode, NEW u \in TokenCode
                 PROVE  institutionTokens'[j][u] = IF tokens'[<<u, j>>] # NoToken THEN 1 ELSE 0
      BY DEF InstitutionIndexExact
    <2>1. CASE j = i /\ u = t
      <3>1. Retain(institutionTokens[i], t)[t] = 0
        BY <1>1, <1>2 DEF Retain, IBucket
      <3>2. QED
        BY <1>1, <2>1, <3>1 DEF DeleteToken, IInv, TypeOK
    <2>2. CASE j = i /\ u # t
      <3>1. <<u, j>> # k /\ <<u, j>> \in Key
        BY <1>1, <2>2 DEF Key
      <3>2. Retain(institutionTokens[i], t)[u] = institutionTokens[i][u]
        BY <1>1, <1>2, <2>2 DEF Retain, IBucket
      <3>3. institutionTokens'[j][u] = institutionTokens[j][u]
        BY <1>1, <2>2, <3>2 DEF DeleteToken, IInv, TypeOK
      <3>4. QED
        BY <3>1, <3>3 DEF DeleteToken, IInv, TypeOK, InstitutionIndexExact
    <2>3. CASE j # i
      <3>1. <<u, j>> # k /\ <<u, j>> \in Key
        BY <1>1, <2>3 DEF Key
      <3>2. QED
        BY <1>1, <2>3, <3>1 DEF DeleteToken, IInv, TypeOK, InstitutionIndexExact
    <2>4. QED
      BY <2>1, <2>2, <2>3
  <1>4. CreatorHoldsToken'
    <2> SUFFICES ASSUME NEW k2 \in Key, tokens'[k2] # NoToken
                 PROVE  userTokens'[tokens'[k2].creator][k2] > 0
      BY DEF CreatorHoldsToken, Holds
    <2>1. k2 # k /\ tokens'[k2] = tokens[k2] /\ tokens[k2] \in TokenInfo
      BY DEF DeleteToken, IInv, TypeOK
    <2>2. userTokens[tokens[k2].creator][k2] > 0
      BY <2>1 DEF IInv, CreatorHoldsToken, Holds
    <2>3. Retain(userTokens[who], k)[k2] = userTokens[who][k2]
      BY <1>2, <2>1 DEF Retain
    <2>4. userTokens'[tokens[k2].creator][k2] = userTokens[tokens[k2].creator][k2]
      BY <2>1, <2>3 DEF DeleteToken, IInv, TypeOK, TokenInfo
    <2>5. QED
      BY <2>1, <2>2, <2>4
  <1>5. QED
    BY <1>3, <1>4

\* Every step under the storage layer keeps the inductive invariant.
LEMMA IndexStep == StorageLayer /\ IInv /\ [Next]_vars => IInv'
  <1> SUFFICES ASSUME StorageLayer, IInv, [Next]_vars PROVE IInv'
    OBVIOUS
  <1>1. TypeOK'
    BY TypeStep DEF IInv
  <1> SUFFICES InstitutionIndexExact' /\ CreatorHoldsToken'
    BY <1>1 DEF IInv
  <1>2. ASSUME NEW who \in Account, NEW k \in Key, NEW p \in Price,
               NEW d \in {"Sell", "Buy"}, NEW s \in U32,
               CreateToken(who, k[1], k[2], p, d, s)
        PROVE  InstitutionIndexExact' /\ CreatorHoldsToken'
    <2>1. k = <<k[1], k[2]>>
      BY DEF Key
    <2> DEFINE okI == HasRoom(institutionTokens[k[2]], InstitutionTokensCap)
               okU == okI /\ HasRoom(userTokens[who], UserTokensCap)
    <2>2. CASE okU
      <3>1. /\ tokens[k] = NoToken
            /\ tokens' = [tokens EXCEPT ![k] = [price |-> p, direction |-> d, stock |-> s, sales |-> 0,
                                               status |-> "Available", creator |-> who]]
            /\ institutionTokens' = [institutionTokens EXCEPT ![k[2]] = Push(@, k[1])]
            /\ userTokens' = [userTokens EXCEPT ![who] = Push(@, k)]
        BY <1>2, <2>1, <2>2 DEF CreateToken, Dispatch
      <3>2. QED
        BY <3>1, CreateKeeps
    <2>3. CASE ~okU
      <3>1. UNCHANGED vars
        BY <1>2, <2>3 DEF CreateToken, Dispatch
      <3>2. QED
        BY <3>1 DEF vars, IInv, InstitutionIndexExact, CreatorHoldsToken
    <2>4. QED
      BY <2>2, <2>3
  <1>3. ASSUME NEW who \in Account, NEW k \in Key, NEW p \in Option(Price),
               NEW d \in Option({"Sell", "Buy"}), UpdateTokenInfo(who, k, p, d)
        PROVE  InstitutionIndexExact' /\ CreatorHoldsToken'
    <2>1. /\ tokens' = [tokens EXCEPT ![k] = tokens'[k]]
          /\ tokens'[k] \in TokenInfo /\ tokens'[k].creator = tokens[k].creator
          /\ UNCHANGED <<institutionTokens, userTokens>>
      BY <1>3, InfoUpdated DEF IInv
    <2>2. tokens[k] # NoToken
      BY <1>3 DEF UpdateTokenInfo, Owns
    <2>3. QED
      BY <1>1, <2>1, <2>2, RewriteKeeps DEF IInv, TypeOK
  <1>10. ASSUME NEW who \in Account, NEW k \in Key, NEW p \in Price,
                UpdateTokenPrice(who, k, p)
         PROVE  InstitutionIndexExact' /\ CreatorHoldsToken'
    <2>1. tokens'[k] \in TokenInfo /\ tokens'[k].creator = tokens[k].creator
      BY <1>10 DEF UpdateTokenPrice, Owns, IInv, TypeOK, TokenInfo
    <2>2. QED
      BY <1>1, <1>10, <2>1, RewriteKeeps DEF UpdateTokenPrice, Owns, IInv, TypeOK
  <1>4. ASSUME NEW who \in Account, NEW k \in Key,
               NEW s \in {"Available", "Unavailable"},
               UpdateTokenStatus(who, k, s)
        PROVE  InstitutionIndexExact' /\ CreatorHoldsToken'
    <2>1. tokens'[k] \in TokenInfo /\ tokens'[k].creator = tokens[k].creator
      BY <1>4 DEF UpdateTokenStatus, Owns, IInv, TypeOK, TokenInfo
    <2>2. QED
      BY <1>1, <1>4, <2>1, RewriteKeeps DEF UpdateTokenStatus, Owns, IInv, TypeOK
  <1>5. ASSUME NEW who \in Account, NEW k \in Key, NEW n \in U32,
               UpdateStock(who, k, n)
        PROVE  InstitutionIndexExact' /\ CreatorHoldsToken'
    <2>1. tokens'[k] \in TokenInfo /\ tokens'[k].creator = tokens[k].creator
      BY <1>5 DEF UpdateStock, Owns, IInv, TypeOK, TokenInfo
    <2>2. QED
      BY <1>1, <1>5, <2>1, RewriteKeeps DEF UpdateStock, Owns, IInv, TypeOK
  <1>6. ASSUME NEW who \in Account, NEW k \in Key, DeleteToken(who, k)
        PROVE  InstitutionIndexExact' /\ CreatorHoldsToken'
    BY <1>6, DeleteKeeps
  <1>7. ASSUME NEW who \in Account, NEW k \in Key, NEW q \in U32,
               TradeToken(who, k, q)
        PROVE  InstitutionIndexExact' /\ CreatorHoldsToken'
    <2> DEFINE tok  == tokens[k]
               need == tok.direction = "Buy" /\ ~Holds(userTokens[who], k)
               ok   == ~need \/ HasRoom(userTokens[who], UserTokensCap)
    <2>1. tok \in TokenInfo
      BY <1>7, NoTokenAssumption DEF TradeToken, IInv, TypeOK
    <2>2. CASE ok
      <3>1. /\ tokens' = [tokens EXCEPT ![k] = Traded(tok, q)]
            /\ userTokens' \in {userTokens, [userTokens EXCEPT ![who] = Push(@, k)]}
            /\ institutionTokens' = institutionTokens
        BY <1>7, <2>2 DEF TradeToken, Dispatch
      <3>2. tokens'[k] \in TokenInfo /\ tokens'[k].creator = tok.creator
        <4>1. Traded(tok, q) \in TokenInfo /\ Traded(tok, q).creator = tok.creator
          BY <1>7, <2>1, TradedType, TradedCreator DEF TradeToken
        <4>2. QED
          BY <3>1, <4>1 DEF IInv, TypeOK
      <3>3. userTokens[who] \in UBucket
        BY DEF IInv, TypeOK, UBucket
      <3>4. \A k2 \in Key : Push(userTokens[who], k)[k2] >= userTokens[who][k2]
        BY <3>3, UBucketOps DEF UBucket
      <3>5. \A a \in Account, k2 \in Key : userTokens'[a][k2] >= userTokens[a][k2]
        BY <3>1, <3>3, <3>4 DEF IInv, TypeOK, UBucket
      <3>6. QED
        BY <1>1, <1>7, <2>1, <3>1, <3>2, <3>5, RewriteKeeps DEF TradeToken, IInv, TypeOK
    <2>3. CASE ~ok
      <3>1. UNCHANGED vars
        BY <1>7, <2>3 DEF TradeToken, Dispatch
      <3>2. QED
        BY <3>1 DEF vars, IInv, InstitutionIndexExact, CreatorHoldsToken
    <2>4. QED
      BY <2>2, <2>3
  <1>8. CASE UNCHANGED vars
    BY <1>8 DEF vars, IInv, InstitutionIndexExact, CreatorHoldsToken
  <1>9. QED
    BY <1>2, <1>3, <1>4, <1>5, <1>6, <1>7, <1>8, <1>10 DEF Next

\* The inductive invariant holds from the start, under the storage layer.
LEMMA IInvHolds == StorageLayer => (Spec => []IInv)
  <1> SUFFICES ASSUME StorageLayer PROVE Spec => []IInv
    OBVIOUS
  <1>1. Init => IInv
    BY DEF Init, IInv, TypeOK, InstitutionIndexExact, CreatorHoldsToken, Key
  <1>2. IInv /\ [Next]_vars => IInv'
    BY IndexStep
  <1>3. QED
    BY <1>1, <1>2, PTL DEF Spec

\* InstitutionIndexExact for every value of the constants, when a failing
\* extrinsic is rolled back: create_token's contains_key check and
\* delete_token's retain keep each institution's list exact.
THEOREM InstitutionIndexCorrect == StorageLayer => (Spec => []InstitutionIndexExact)
  BY IInvHolds, PTL DEF IInv

\* CreatorHoldsToken for every value of the constants, when a failing
\* extrinsic is rolled back: delete_token's retain drops only the exact
\* pair, so a creator keeps every other token it holds.
THEOREM CreatorsHoldTokens == StorageLayer => (Spec => []CreatorHoldsToken)
  BY IInvHolds, PTL DEF IInv


-----------------------------------------------------------------------------
(* Prices.                                                                 *)

\* A trade leaves a token's price alone.
LEMMA TradedPrice ==
    ASSUME NEW tok \in TokenInfo, NEW q \in U32
    PROVE  Traded(tok, q).price = tok.price
  BY DEF Traded, TokenInfo

\* Every step keeps every stored price positive: each handler that writes a
\* price checks it, and the others leave it alone.
LEMMA PriceStep == TypeOK /\ PricePositive /\ [Next]_vars => PricePositive'
  <1> SUFFICES ASSUME TypeOK, PricePositive, [Next]_vars PROVE PricePositive'
    OBVIOUS
  <1> USE DEF TypeOK
  \* The tokens other than k keep their values.
  <1> DEFINE OnlyAt(k) == \A k2 \in Key \ {k} : tokens'[k2] = tokens[k2]
  <1>0. ASSUME NEW k \in Key, OnlyAt(k),
               tokens'[k] # NoToken => tokens'[k].price > 0
        PROVE  PricePositive'
    BY <1>0 DEF PricePositive
  <1>1. ASSUME NEW who \in Account, NEW k \in Key, NEW p \in Price,
               NEW d \in {"Sell", "Buy"}, NEW s \in U32,
               CreateToken(who, k[1], k[2], p, d, s)
        PROVE  PricePositive'
    <2>1. k = <<k[1], k[2]>>
      BY DEF Key
    <2>2. \/ tokens' = [tokens EXCEPT ![k] = [price |-> p, direction |-> d, stock |-> s,
                        sales |-> 0, status |-> "Available", creator |-> who]]
          \/ tokens' = tokens
      BY <1>1, <2>1 DEF CreateToken, Dispatch, vars
    <2>3. p > 0
      BY <1>1 DEF CreateToken
    <2>4. QED
      BY <2>2, <2>3, <1>0 DEF PricePositive
  <1>2. ASSUME NEW who \in Account, NEW k \in Key, NEW p \in Option(Price),
               NEW d \in Option({"Sell", "Buy"}), UpdateTokenInfo(who, k, p, d)
        PROVE  PricePositive'
    <2>1. tokens[k] \in TokenInfo /\ tokens[k].price > 0
      BY <1>2, NoTokenAssumption DEF UpdateTokenInfo, Owns, PricePositive
    <2>2. (IF p = None THEN tokens[k].price ELSE p[1]) > 0
      BY <1>2, <2>1 DEF UpdateTokenInfo, None
    <2>3. tokens'[k].price = IF p = None THEN tokens[k].price ELSE p[1]
      BY <1>2, <2>1 DEF UpdateTokenInfo, TokenInfo
    <2>4. OnlyAt(k)
      BY <1>2 DEF UpdateTokenInfo
    <2>5. QED
      BY <1>0, <2>2, <2>3, <2>4
  <1>3. ASSUME NEW who \in Account, NEW k \in Key, NEW p \in Price,
               UpdateTokenPrice(who, k, p)
        PROVE  PricePositive'
    BY <1>3, <1>0 DEF UpdateTokenPrice, Owns, TokenInfo
  <1>4. ASSUME NEW who \in Account, NEW k \in Key,
               NEW s \in {"Available", "Unavailable"},
               UpdateTokenStatus(who, k, s)
        PROVE  PricePositive'
    BY <1>4, <1>0, NoTokenAssumption DEF UpdateTokenStatus, Owns, TokenInfo, PricePositive
  <1>5. ASSUME NEW who \in Account, NEW k \in Key, NEW n \in U32,
               UpdateStock(who, k, n)
        PROVE  PricePositive'
    BY <1>5, <1>0, NoTokenAssumption DEF UpdateStock, Owns, TokenInfo, PricePositive
  <1>6. ASSUME NEW who \in Account, NEW k \in Key, DeleteToken(who, k)
        PROVE  PricePositive'
    BY <1>6, <1>0 DEF DeleteToken
  <1>7. ASSUME NEW who \in Account, NEW k \in Key, NEW q \in U32,
               TradeToken(who, k, q)
        PROVE  PricePositive'
    <2>1. tokens[k] \in TokenInfo /\ tokens[k].price > 0
      BY <1>7, NoTokenAssumption DEF TradeToken, PricePositive
    <2>2. Traded(tokens[k], q).price > 0
      BY <2>1, TradedPrice
    <2>3. tokens' \in {tokens, [tokens EXCEPT ![k] = Traded(tokens[k], q)]}
      BY <1>7 DEF TradeToken, Dispatch, vars
    <2>4. QED
      BY <1>0, <2>2, <2>3 DEF PricePositive
  <1>8. CASE UNCHANGED vars
    BY <1>8 DEF vars, PricePositive
  <1>9. QED
    BY <1>1, <1>2, <1>3, <1>4, <1>5, <1>6, <1>7, <1>8 DEF Next

\* PricePositive for every value of the constants, with or without the
\* storage layer: create_token, update_token_info and update_token_price
\* never store a zero price, whichever options and prices they are given.
THEOREM PricesPositive == Spec => []PricePositive
  <1>1. Init => PricePositive
    BY DEF Init, PricePositive
  <1>2. QED
    BY <1>1, TypeCorrect, PriceStep, PTL DEF Spec

=============================================================================
