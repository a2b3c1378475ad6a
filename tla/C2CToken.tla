------------------------------ MODULE C2CToken ------------------------------
(***************************************************************************)
(* The c2c-token pallet (src/pallets/c2c-token/src/lib.rs): a double map   *)
(* Tokens from (token code, institution code) to a token, with two         *)
(* indexes: InstitutionTokens (token codes of an institution) and          *)
(* UserTokens (the (token, institution) pairs an account holds: its own    *)
(* tokens, and the Buy tokens it has traded).                              *)
(*                                                                         *)
(* The name and category of a token are written but never read by any     *)
(* handler; they are left out, and with them those options of              *)
(* update_token_info.  The u128 price is kept as 0..MaxPrice, enough to    *)
(* tell the zero price the handlers refuse from the ones they accept.      *)
(* Stock and sales are u32 with saturating arithmetic, kept with the bound *)
(* MaxU32 standing for u32::MAX.  Early returns before any write are not   *)
(* steps.                                                                  *)
(***************************************************************************)
EXTENDS Naturals, FiniteSets, FrameStorage

CONSTANTS
    Account,                \* signed origins
    TokenCode,              \* token codes
    InstitutionCode,        \* institution codes
    NoToken,                \* Tokens::get returning None
    InstitutionTokensCap,   \* ConstU32<10000> of InstitutionTokens
    UserTokensCap,          \* ConstU32<1000> of UserTokens
    MaxU32,                 \* u32::MAX
    MaxPrice                \* the largest u128 price tried

VARIABLES
    tokens,             \* Tokens
    institutionTokens,  \* InstitutionTokens
    userTokens          \* UserTokens

vars == <<tokens, institutionTokens, userTokens>>

\* The key of Tokens, and of a UserTokens entry.
Key == TokenCode \X InstitutionCode

U32 == 0..MaxU32

Price == 0..MaxPrice

\* Rust's Option<T> over the values S: None as <<>>, Some(x) as <<x>>.
Option(S) == {<<>>} \cup {<<x>> : x \in S}

None == <<>>

\* TokenInfo (lines 58-69) without its unread fields.
TokenInfo == [price: Price, direction: {"Sell", "Buy"}, stock: U32, sales: U32,
              status: {"Available", "Unavailable"}, creator: Account]

ASSUME NoTokenAssumption == NoToken \notin TokenInfo
ASSUME BoundAssumption ==
    /\ InstitutionTokensCap \in Nat \ {0}
    /\ UserTokensCap \in Nat \ {0}
    /\ MaxU32 \in Nat \ {0}
    /\ MaxPrice \in Nat \ {0}

\* u32::saturating_add.
SatAdd(a, b) == IF a + b > MaxU32 THEN MaxU32 ELSE a + b

-----------------------------------------------------------------------------
Init ==
    /\ tokens = [k \in Key |-> NoToken]
    /\ institutionTokens = [i \in InstitutionCode |-> [t \in TokenCode |-> 0]]
    /\ userTokens = [a \in Account |-> [k \in Key |-> 0]]

\* Mutant: create_token without its contains_key check.
CreateTokenOverwrites(who, t, i, p, d, s) ==
    /\ p > 0
    /\ LET okI == HasRoom(institutionTokens[i], InstitutionTokensCap)
           okU == okI /\ HasRoom(userTokens[who], UserTokensCap)
       IN Dispatch(okU,
            /\ tokens' = [tokens EXCEPT ![<<t, i>>] =
                  [price |-> p, direction |-> d, stock |-> s, sales |-> 0,
                   status |-> "Available", creator |-> who]]
            /\ institutionTokens' = IF okI THEN [institutionTokens EXCEPT ![i] = Push(@, t)]
                                           ELSE institutionTokens
            /\ userTokens' = IF okU THEN [userTokens EXCEPT ![who] = Push(@, <<t, i>>)]
                                    ELSE userTokens,
            vars)

\* create_token with price p, direction d and stock s: insert the token,
\* then push its code to the institution's list and the pair to the
\* caller's list.
CreateToken(who, t, i, p, d, s) ==
    /\ tokens[<<t, i>>] = NoToken
    /\ p > 0
    /\ LET okI == HasRoom(institutionTokens[i], InstitutionTokensCap)
           okU == okI /\ HasRoom(userTokens[who], UserTokensCap)
       IN Dispatch(okU,
            /\ tokens' = [tokens EXCEPT ![<<t, i>>] =
                  [price |-> p, direction |-> d, stock |-> s, sales |-> 0,
                   status |-> "Available", creator |-> who]]
            /\ institutionTokens' = IF okI THEN [institutionTokens EXCEPT ![i] = Push(@, t)]
                                           ELSE institutionTokens
            /\ userTokens' = IF okU THEN [userTokens EXCEPT ![who] = Push(@, <<t, i>>)]
                                    ELSE userTokens,
            vars)

\* The caller created the existing token k (the check inside try_mutate).
Owns(who, k) == tokens[k] # NoToken /\ tokens[k].creator = who

\* update_token_info with the price and direction options p and d: a zero
\* price returns an error from inside try_mutate, which then writes
\* nothing.
UpdateTokenInfo(who, k, p, d) ==
    /\ Owns(who, k)
    /\ p # None => p[1] > 0
    /\ tokens' = [tokens EXCEPT ![k].price = IF p = None THEN @ ELSE p[1],
                                 ![k].direction = IF d = None THEN @ ELSE d[1]]
    /\ UNCHANGED <<institutionTokens, userTokens>>

\* Mutant: update_token_price without its price > 0 check.
UpdateTokenPriceUnchecked(who, k, p) ==
    /\ Owns(who, k)
    /\ tokens' = [tokens EXCEPT ![k].price = p]
    /\ UNCHANGED <<institutionTokens, userTokens>>

\* update_token_price.
UpdateTokenPrice(who, k, p) ==
    /\ p > 0
    /\ Owns(who, k)
    /\ tokens' = [tokens EXCEPT ![k].price = p]
    /\ UNCHANGED <<institutionTokens, userTokens>>

\* update_token_status.
UpdateTokenStatus(who, k, s) ==
    /\ Owns(who, k)
    /\ tokens' = [tokens EXCEPT ![k].status = s]
    /\ UNCHANGED <<institutionTokens, userTokens>>

\* update_stock.
UpdateStock(who, k, n) ==
    /\ Owns(who, k)
    /\ tokens' = [tokens EXCEPT ![k].stock = n]
    /\ UNCHANGED <<institutionTokens, userTokens>>

\* Mutant: the retain predicate of delete_token written with && for ||,
\* dropping every pair that shares the token code or the institution.
DeleteTokenDeMorgan(who, k) ==
    /\ Owns(who, k)
    /\ institutionTokens' = [institutionTokens EXCEPT ![k[2]] = Retain(@, k[1])]
    /\ userTokens' = [userTokens EXCEPT ![who] =
          [p \in Key |-> IF p[1] = k[1] \/ p[2] = k[2] THEN 0 ELSE @[p]]]
    /\ tokens' = [tokens EXCEPT ![k] = NoToken]

\* delete_token: drop the code from the institution's list and the pair
\* from the caller's (the creator's) list, then remove the token.
DeleteToken(who, k) ==
    /\ Owns(who, k)
    /\ institutionTokens' = [institutionTokens EXCEPT ![k[2]] = Retain(@, k[1])]
    /\ userTokens' = [userTokens EXCEPT ![who] = Retain(@, k)]
    /\ tokens' = [tokens EXCEPT ![k] = NoToken]

\* The token after a trade of q units: a Sell token needs the stock and
\* moves it to sales, a Buy token takes the units into stock.
Traded(tok, q) ==
    IF tok.direction = "Sell"
    THEN [tok EXCEPT !.stock = @ - q, !.sales = SatAdd(@, q)]
    ELSE [tok EXCEPT !.stock = SatAdd(@, q)]

\* trade_token by anyone: the token is updated inside try_mutate; then, for
\* a Buy token the caller does not hold yet, the pair is pushed to the
\* caller's list, which fails on a full list.
TradeToken(who, k, q) ==
    LET tok  == tokens[k]
        need == tok.direction = "Buy" /\ ~Holds(userTokens[who], k)
        ok   == ~need \/ HasRoom(userTokens[who], UserTokensCap)
    IN /\ tok # NoToken
       /\ tok.status = "Available"
       /\ tok.direction = "Sell" => tok.stock >= q
       /\ Dispatch(ok,
            /\ tokens' = [tokens EXCEPT ![k] = Traded(tok, q)]
            /\ userTokens' = IF need /\ ok THEN [userTokens EXCEPT ![who] = Push(@, k)]
                                          ELSE userTokens
            /\ UNCHANGED institutionTokens,
            vars)

Next ==
    \E who \in Account, k \in Key :
        \/ \E p \in Price, d \in {"Sell", "Buy"}, s \in U32 :
               CreateToken(who, k[1], k[2], p, d, s)
        \/ \E p \in Option(Price), d \in Option({"Sell", "Buy"}) :
               UpdateTokenInfo(who, k, p, d)
        \/ \E p \in Price : UpdateTokenPrice(who, k, p)
        \/ \E s \in {"Available", "Unavailable"} : UpdateTokenStatus(who, k, s)
        \/ \E n \in U32 : UpdateStock(who, k, n)
        \/ DeleteToken(who, k)
        \/ \E q \in U32 : TradeToken(who, k, q)

Spec == Init /\ [][Next]_vars

-----------------------------------------------------------------------------
(* Properties.                                                             *)

TypeOK ==
    /\ tokens \in [Key -> TokenInfo \cup {NoToken}]
    /\ institutionTokens \in [InstitutionCode -> [TokenCode -> Nat]]
    /\ userTokens \in [Account -> [Key -> Nat]]

\* Spec I1-I3 for InstitutionTokens: an institution's list holds exactly
\* the codes of its stored tokens, each once.  It needs create_token's
\* contains_key check (a second create would push the code twice) and
\* delete_token's retain, across any interleaving of creates and deletes
\* by different accounts.
InstitutionIndexExact ==
    \A i \in InstitutionCode, t \in TokenCode :
        institutionTokens[i][t] = IF tokens[<<t, i>>] # NoToken THEN 1 ELSE 0

\* Every stored token is in its creator's UserTokens list, whatever other
\* tokens of the same code or institution the creator deleted meanwhile
\* (delete_token's retain must drop only the exact pair).
CreatorHoldsToken ==
    \A k \in Key : tokens[k] # NoToken => Holds(userTokens[tokens[k].creator], k)

\* Spec section 4.5 (price > 0) for every stored token: create_token,
\* update_token_info and update_token_price each check the price they
\* write, update_token_info only when its option is given.
PricePositive ==
    \A k \in Key : tokens[k] # NoToken => tokens[k].price > 0

\* Spec I1 for UserTokens: every pair in any account's list names a stored
\* token.  delete_token cleans only the creator's list, while trade_token
\* adds Buy tokens to the lists of the traders.
HoldingsReferToTokens ==
    \A a \in Account, k \in Key : Holds(userTokens[a], k) => tokens[k] # NoToken

\* Spec I3 for UserTokens: no account's list holds a pair twice.
\* trade_token checks contains before its push; create_token does not.
NoDuplicateHoldings ==
    \A a \in Account, k \in Key : userTokens[a][k] <= 1

=============================================================================
