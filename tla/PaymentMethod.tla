---------------------------- MODULE PaymentMethod ----------------------------
(***************************************************************************)
(* The institution-payment-method pallet                                   *)
(* (src/pallets/institution-payment-method/src/lib.rs): a single map       *)
(* PaymentMethods from institution id to four optional payment fields.     *)
(*                                                                         *)
(* A record is abstracted to the set of its fields that are Some: the      *)
(* handlers test only whether a field is set.  The record stores no        *)
(* creator.  Two auxiliary variables, not storage, record what the events  *)
(* report: caller, the signer of the last state change, and createdBy, the *)
(* signer of the set_payment_method that created each record (the account  *)
(* of PaymentMethodCreated).                                               *)
(***************************************************************************)
EXTENDS Naturals

CONSTANTS
    Account,        \* signed origins
    InstitutionId,  \* institution ids
    NoMethod,       \* PaymentMethods::get returning None
    Nobody          \* no account

VARIABLES
    paymentMethods, \* PaymentMethods
    caller,         \* auxiliary: signer of the last state change
    createdBy       \* auxiliary: creator of each record, per its event

vars == <<paymentMethods, caller, createdBy>>

\* The fields of PaymentMethod (lines 36-42), in the order of field_type.
FieldCodes == <<"wechat", "alipay", "token", "other">>
Field == {"wechat", "alipay", "token", "other"}

-----------------------------------------------------------------------------
Init ==
    /\ paymentMethods = [i \in InstitutionId |-> NoMethod]
    /\ caller = Nobody
    /\ createdBy = [i \in InstitutionId |-> Nobody]

\* set_payment_method by any account with the fields F set: at least one
\* must be; the record is created or overwritten.
SetPaymentMethod(who, i, F) ==
    /\ F # {}
    /\ paymentMethods' = [paymentMethods EXCEPT ![i] = F]
    /\ caller' = who
    /\ createdBy' = IF paymentMethods[i] = NoMethod
                    THEN [createdBy EXCEPT ![i] = who] ELSE createdBy

\* remove_payment_method by any account.
RemovePaymentMethod(who, i) ==
    /\ paymentMethods[i] # NoMethod
    /\ paymentMethods' = [paymentMethods EXCEPT ![i] = NoMethod]
    /\ caller' = who
    /\ createdBy' = [createdBy EXCEPT ![i] = Nobody]

\* update_payment_field by any account, with a field_type n that decodes:
\* the field is set (some) or cleared, with no check on what remains.
UpdatePaymentField(who, i, n, some) ==
    /\ paymentMethods[i] # NoMethod
    /\ paymentMethods' = [paymentMethods EXCEPT ![i] =
          IF some THEN @ \cup {FieldCodes[n + 1]} ELSE @ \ {FieldCodes[n + 1]}]
    /\ caller' = who
    /\ UNCHANGED createdBy

Next ==
    \E who \in Account, i \in InstitutionId :
        \/ \E F \in SUBSET Field : SetPaymentMethod(who, i, F)
        \/ RemovePaymentMethod(who, i)
        \/ \E n \in 0..3, some \in BOOLEAN : UpdatePaymentField(who, i, n, some)

Spec == Init /\ [][Next]_vars

-----------------------------------------------------------------------------
(* Properties.                                                             *)

TypeOK ==
    /\ paymentMethods \in [InstitutionId -> (SUBSET Field) \cup {NoMethod}]
    /\ caller \in Account \cup {Nobody}
    /\ createdBy \in [InstitutionId -> Account \cup {Nobody}]

\* The rule of AtLeastOnePaymentMethodRequired, for every stored record:
\* an institution that has a payment method has one set.
AtLeastOneMethod ==
    \A i \in InstitutionId : paymentMethods[i] # NoMethod => paymentMethods[i] # {}

\* Spec section 8, Authorization: an existing record is changed or removed
\* only by an extrinsic signed by the account that created it.
OnlyCreatorMutates ==
    [][\A i \in InstitutionId :
         (paymentMethods[i] # NoMethod /\ paymentMethods'[i] # paymentMethods[i])
           => caller' = createdBy[i]]_vars

=============================================================================
