--------------------------- MODULE SettingsProofs ---------------------------
(***************************************************************************)
(* Proofs about the composed settings pallets (InstitutionSettings), for   *)
(* every value of the constants: the authorization action properties of    *)
(* the institution and freight-template pallets, which the                 *)
(* institution_settings run checks on two accounts, and the type of the    *)
(* payment-method map.                                                     *)
(*                                                                         *)
(* Each pallet's step leaves the other two pallets' variables unchanged,   *)
(* so every result is a fact about one pallet's Next, lifted to the        *)
(* composition: a step of Next is a step of the pallet or leaves its       *)
(* variables unchanged.                                                    *)
(***************************************************************************)
EXTENDS InstitutionSettings, Naturals, TLAPS

-----------------------------------------------------------------------------
(* Institution.                                                            *)

\* The step predicate of Institution's OnlyCreatorMutates.
InstAuthorized ==
    \A id \in InstitutionId :
        (institutions[id] # NoInstitution /\ institutions'[id] # institutions[id])
          => institutionCaller' = institutions[id].creator

\* A step of the composition is a step of the institution pallet or leaves
\* its storage and caller as they are.
LEMMA InstSteps ==
    ASSUME [Next]_vars
    PROVE  Inst!Next \/ UNCHANGED instVars
BY DEF Next, vars, instVars

\* The institution map keeps its type: every id maps to an institution with
\* a decodable status or to None.
LEMMA InstTypeCorrect == Spec => []Inst!TypeOK
<1>1. Init => Inst!TypeOK
  BY DEF Init, Inst!Init, Inst!TypeOK
<1>2. Inst!TypeOK /\ [Next]_vars => Inst!TypeOK'
  <2> SUFFICES ASSUME Inst!TypeOK, [Next]_vars PROVE Inst!TypeOK'
    OBVIOUS
  <2>1. CASE Inst!Next
    <3> PICK who \in Account, id \in InstitutionId :
              \/ \E v \in Info : Inst!CreateInstitution(who, id, v)
              \/ \E n \in 0..2 : Inst!UpdateInstitutionStatus(who, id, n)
              \/ \E v \in Info : Inst!UpdateInstitutionInfo(who, id, v)
              \/ Inst!DeleteInstitution(who, id)
      BY <2>1 DEF Inst!Next
    <3>1. CASE \E v \in Info : Inst!CreateInstitution(who, id, v)
      BY <3>1 DEF Inst!CreateInstitution, Inst!TypeOK, Inst!InstitutionInfo
    <3>2. CASE \E n \in 0..2 : Inst!UpdateInstitutionStatus(who, id, n)
      <4> PICK n \in 0..2 : Inst!UpdateInstitutionStatus(who, id, n)
        BY <3>2
      <4>1. Inst!StatusCodes[n + 1] \in {"Certified", "NotCertified", "Deactivated"}
        BY DEF Inst!StatusCodes
      <4>2. institutions[id] \in Inst!InstitutionInfo
        BY DEF Inst!UpdateInstitutionStatus, Inst!Owns, Inst!TypeOK
      <4> QED
        BY <4>1, <4>2 DEF Inst!UpdateInstitutionStatus, Inst!TypeOK, Inst!InstitutionInfo
    <3>3. CASE \E v \in Info : Inst!UpdateInstitutionInfo(who, id, v)
      <4> PICK v \in Info : Inst!UpdateInstitutionInfo(who, id, v)
        BY <3>3
      <4>1. institutions[id] \in Inst!InstitutionInfo
        BY DEF Inst!UpdateInstitutionInfo, Inst!Owns, Inst!TypeOK
      <4> QED
        BY <4>1 DEF Inst!UpdateInstitutionInfo, Inst!TypeOK, Inst!InstitutionInfo
    <3>4. CASE Inst!DeleteInstitution(who, id)
      BY <3>4 DEF Inst!DeleteInstitution, Inst!TypeOK
    <3> QED
      BY <3>1, <3>2, <3>3, <3>4
  <2>2. CASE UNCHANGED instVars
    BY <2>2 DEF instVars, Inst!TypeOK
  <2> QED
    BY <2>1, <2>2, InstSteps
<1> QED
  BY <1>1, <1>2, PTL DEF Spec

\* Every step of the composition is InstAuthorized or leaves the
\* institution pallet's variables unchanged.
LEMMA InstAuthStep == Inst!TypeOK /\ [Next]_vars => [InstAuthorized]_instVars
<1> SUFFICES ASSUME Inst!TypeOK, [Next]_vars PROVE [InstAuthorized]_instVars
  OBVIOUS
<1>1. CASE UNCHANGED instVars
  BY <1>1
<1>2. CASE Inst!Next
  <2> PICK who \in Account, id \in InstitutionId :
            \/ \E v \in Info : Inst!CreateInstitution(who, id, v)
            \/ \E n \in 0..2 : Inst!UpdateInstitutionStatus(who, id, n)
            \/ \E v \in Info : Inst!UpdateInstitutionInfo(who, id, v)
            \/ Inst!DeleteInstitution(who, id)
    BY <1>2 DEF Inst!Next
  <2> SUFFICES ASSUME NEW j \in InstitutionId,
                      institutions[j] # NoInstitution,
                      institutions'[j] # institutions[j]
               PROVE  institutionCaller' = institutions[j].creator
    BY DEF InstAuthorized
  \* Every action writes the entry of id only.
  <2>1. j = id
    BY DEF Inst!CreateInstitution, Inst!UpdateInstitutionStatus,
           Inst!UpdateInstitutionInfo, Inst!DeleteInstitution, Inst!TypeOK
  \* create_institution writes only a missing entry.
  <2>2. ~\E v \in Info : Inst!CreateInstitution(who, id, v)
    BY <2>1 DEF Inst!CreateInstitution
  \* The other three check that the signer is the creator.
  <2>3. Inst!Owns(who, id) /\ institutionCaller' = who
    BY <2>2 DEF Inst!UpdateInstitutionStatus, Inst!UpdateInstitutionInfo,
                Inst!DeleteInstitution
  <2> QED
    BY <2>1, <2>3 DEF Inst!Owns
<1> QED
  BY <1>1, <1>2, InstSteps

\* Institution's OnlyCreatorMutates, for every set of accounts, ids and
\* values: once an institution exists, every extrinsic that changes or
\* deletes it (update_institution_status, update_institution_info,
\* delete_institution) is signed by its creator.
THEOREM InstitutionAuthorization == Spec => InstitutionOnlyCreatorMutates
BY InstTypeCorrect, InstAuthStep, PTL
   DEF Spec, InstitutionOnlyCreatorMutates, Inst!OnlyCreatorMutates,
       InstAuthorized, Inst!vars, instVars

-----------------------------------------------------------------------------
(* FreightTemplate.                                                        *)

\* The step predicate of FreightTemplate's OnlyCreatorMutates.
TemplateAuthorized ==
    \A a \in Area :
        (templates[a] # NoTemplate /\ templates'[a] # templates[a])
          => templateCaller' = templates[a].creator

\* A step of the composition is a step of the freight-template pallet or
\* leaves its storage and caller as they are.
LEMMA TemplateSteps ==
    ASSUME [Next]_vars
    PROVE  Freight!Next \/ UNCHANGED templateVars
BY DEF Next, vars, templateVars

\* The template map keeps its type.
LEMMA TemplateTypeCorrect == Spec => []Freight!TypeOK
<1>1. Init => Freight!TypeOK
  BY DEF Init, Freight!Init, Freight!TypeOK
<1>2. Freight!TypeOK /\ [Next]_vars => Freight!TypeOK'
  <2> SUFFICES ASSUME Freight!TypeOK, [Next]_vars PROVE Freight!TypeOK'
    OBVIOUS
  <2>1. CASE Freight!Next
    <3> PICK who \in Account, a \in Area :
              \/ \E f \in Fees : Freight!CreateFreightTemplate(who, a, f)
              \/ \E f \in Fees : Freight!UpdateFreightTemplate(who, a, f)
              \/ Freight!DeleteFreightTemplate(who, a)
      BY <2>1 DEF Freight!Next
    <3>1. CASE \E f \in Fees : Freight!CreateFreightTemplate(who, a, f)
      BY <3>1 DEF Freight!CreateFreightTemplate, Freight!TypeOK, Freight!Template
    <3>2. CASE \E f \in Fees : Freight!UpdateFreightTemplate(who, a, f)
      <4> PICK f \in Fees : Freight!UpdateFreightTemplate(who, a, f)
        BY <3>2
      <4>1. templates[a] \in Freight!Template
        BY DEF Freight!UpdateFreightTemplate, Freight!Owns, Freight!TypeOK
      <4> QED
        BY <4>1 DEF Freight!UpdateFreightTemplate, Freight!TypeOK, Freight!Template
    <3>3. CASE Freight!DeleteFreightTemplate(who, a)
      BY <3>3 DEF Freight!DeleteFreightTemplate, Freight!TypeOK
    <3> QED
      BY <3>1, <3>2, <3>3
  <2>2. CASE UNCHANGED templateVars
    BY <2>2 DEF templateVars, Freight!TypeOK
  <2> QED
    BY <2>1, <2>2, TemplateSteps
<1> QED
  BY <1>1, <1>2, PTL DEF Spec

\* Every step of the composition is TemplateAuthorized or leaves the
\* freight-template pallet's variables unchanged.
LEMMA TemplateAuthStep ==
    Freight!TypeOK /\ [Next]_vars => [TemplateAuthorized]_templateVars
<1> SUFFICES ASSUME Freight!TypeOK, [Next]_vars
             PROVE  [TemplateAuthorized]_templateVars
  OBVIOUS
<1>1. CASE UNCHANGED templateVars
  BY <1>1
<1>2. CASE Freight!Next
  <2> PICK who \in Account, a \in Area :
            \/ \E f \in Fees : Freight!CreateFreightTemplate(who, a, f)
            \/ \E f \in Fees : Freight!UpdateFreightTemplate(who, a, f)
            \/ Freight!DeleteFreightTemplate(who, a)
    BY <1>2 DEF Freight!Next
  <2> SUFFICES ASSUME NEW b \in Area,
                      templates[b] # NoTemplate,
                      templates'[b] # templates[b]
               PROVE  templateCaller' = templates[b].creator
    BY DEF TemplateAuthorized
  \* Every action writes the entry of a only.
  <2>1. b = a
    BY DEF Freight!CreateFreightTemplate, Freight!UpdateFreightTemplate,
           Freight!DeleteFreightTemplate, Freight!TypeOK
  \* create_freight_template writes only a missing entry.
  <2>2. ~\E f \in Fees : Freight!CreateFreightTemplate(who, a, f)
    BY <2>1 DEF Freight!CreateFreightTemplate
  \* update and delete check that the signer is the creator.
  <2>3. Freight!Owns(who, a) /\ templateCaller' = who
    BY <2>2 DEF Freight!UpdateFreightTemplate, Freight!DeleteFreightTemplate
  <2> QED
    BY <2>1, <2>3 DEF Freight!Owns
<1> QED
  BY <1>1, <1>2, TemplateSteps

\* FreightTemplate's OnlyCreatorMutates, for every set of accounts, areas
\* and fees: once a template exists, every extrinsic that changes or
\* deletes it (update_freight_template, delete_freight_template) is signed
\* by its creator.
THEOREM TemplateAuthorization == Spec => TemplateOnlyCreatorMutates
BY TemplateTypeCorrect, TemplateAuthStep, PTL
   DEF Spec, TemplateOnlyCreatorMutates, Freight!OnlyCreatorMutates,
       TemplateAuthorized, Freight!vars, templateVars

-----------------------------------------------------------------------------
(* PaymentMethod.                                                          *)

\* A step of the composition is a step of the payment-method pallet or
\* leaves its storage and auxiliary variables as they are.
LEMMA PaymentSteps ==
    ASSUME [Next]_vars
    PROVE  Payment!Next \/ UNCHANGED paymentVars
BY DEF Next, vars, paymentVars

\* The payment-method map keeps its type.
LEMMA PaymentTypeCorrect == Spec => []Payment!TypeOK
<1>1. Init => Payment!TypeOK
  BY DEF Init, Payment!Init, Payment!TypeOK
<1>2. Payment!TypeOK /\ [Next]_vars => Payment!TypeOK'
  <2> SUFFICES ASSUME Payment!TypeOK, [Next]_vars PROVE Payment!TypeOK'
    OBVIOUS
  <2>1. CASE Payment!Next
    <3> PICK who \in Account, i \in PaymentInstitutionId :
              \/ \E F \in SUBSET Payment!Field : Payment!SetPaymentMethod(who, i, F)
              \/ Payment!RemovePaymentMethod(who, i)
              \/ \E n \in 0..3, some \in BOOLEAN :
                    Payment!UpdatePaymentField(who, i, n, some)
      BY <2>1 DEF Payment!Next
    <3>1. CASE \E F \in SUBSET Payment!Field : Payment!SetPaymentMethod(who, i, F)
      BY <3>1 DEF Payment!SetPaymentMethod, Payment!TypeOK
    <3>2. CASE Payment!RemovePaymentMethod(who, i)
      BY <3>2 DEF Payment!RemovePaymentMethod, Payment!TypeOK
    <3>3. CASE \E n \in 0..3, some \in BOOLEAN :
                  Payment!UpdatePaymentField(who, i, n, some)
      <4> PICK n \in 0..3, some \in BOOLEAN : Payment!UpdatePaymentField(who, i, n, some)
        BY <3>3
      <4>1. Payment!FieldCodes[n + 1] \in Payment!Field
        BY DEF Payment!FieldCodes, Payment!Field
      <4>2. paymentMethods[i] \in SUBSET Payment!Field
        BY DEF Payment!UpdatePaymentField, Payment!TypeOK
      <4> QED
        BY <4>1, <4>2 DEF Payment!UpdatePaymentField, Payment!TypeOK
    <3> QED
      BY <3>1, <3>2, <3>3
  <2>2. CASE UNCHANGED paymentVars
    BY <2>2 DEF paymentVars, Payment!TypeOK
  <2> QED
    BY <2>1, <2>2, PaymentSteps
<1> QED
  BY <1>1, <1>2, PTL DEF Spec

=============================================================================
