------------------------- MODULE InstitutionSettings -------------------------
(***************************************************************************)
(* Composition of the three single-map pallets an institution is         *)
(* configured through: Institution, FreightTemplate and PaymentMethod.    *)
(* They share no storage; a step is a step of one of them, the others      *)
(* unchanged, and each keeps its own auxiliary caller.                     *)
(***************************************************************************)

CONSTANTS Account, InstitutionId, NoInstitution, Info, Nobody,
          Area, NoTemplate, Fees, NoMethod,
          PaymentInstitutionId   \* the institution ids given payment methods

VARIABLES institutions, institutionCaller,
          templates, templateCaller,
          paymentMethods, paymentCaller, createdBy

Inst == INSTANCE Institution WITH caller <- institutionCaller
Freight == INSTANCE FreightTemplate WITH caller <- templateCaller
Payment == INSTANCE PaymentMethod WITH caller <- paymentCaller,
                                         InstitutionId <- PaymentInstitutionId

instVars == <<institutions, institutionCaller>>
templateVars == <<templates, templateCaller>>
paymentVars == <<paymentMethods, paymentCaller, createdBy>>
vars == <<instVars, templateVars, paymentVars>>

Init == Inst!Init /\ Freight!Init /\ Payment!Init

Next ==
    \/ Inst!Next /\ UNCHANGED <<templateVars, paymentVars>>
    \/ Freight!Next /\ UNCHANGED <<instVars, paymentVars>>
    \/ Payment!Next /\ UNCHANGED <<instVars, templateVars>>

Spec == Init /\ [][Next]_vars

\* Institution's OnlyCreatorMutates (spec section 8, Authorization).
InstitutionOnlyCreatorMutates == Inst!OnlyCreatorMutates

\* FreightTemplate's OnlyCreatorMutates (spec section 8, Authorization).
TemplateOnlyCreatorMutates == Freight!OnlyCreatorMutates

=============================================================================
