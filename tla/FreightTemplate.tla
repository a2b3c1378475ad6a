--------------------------- MODULE FreightTemplate ---------------------------
(***************************************************************************)
(* The institution-freight-template pallet                                 *)
(* (src/pallets/institution-freight-template/src/lib.rs): a single map     *)
(* FreightTemplates from area to a template.                               *)
(*                                                                         *)
(* The three u64 weights and fees are never validated nor read by a        *)
(* handler; together they are one value of the small set Fees.  caller is *)
(* an auxiliary variable, not storage: the signer of the last extrinsic    *)
(* that changed the state.                                                 *)
(***************************************************************************)
EXTENDS Naturals

CONSTANTS
    Account,      \* signed origins
    Area,         \* area keys
    NoTemplate,   \* FreightTemplates::get returning None
    Fees,         \* values of (first_weight, first_weight_fee, additional_weight_fee)
    Nobody        \* caller before the first extrinsic

VARIABLES
    templates,    \* FreightTemplates
    caller        \* auxiliary: signer of the last state change

vars == <<templates, caller>>

\* FreightTemplate (lines 29-36) with its numbers as one value.
Template == [fees: Fees, creator: Account]


-----------------------------------------------------------------------------
Init ==
    /\ templates = [a \in Area |-> NoTemplate]
    /\ caller = Nobody

\* create_freight_template.
CreateFreightTemplate(who, a, f) ==
    /\ templates[a] = NoTemplate
    /\ templates' = [templates EXCEPT ![a] = [fees |-> f, creator |-> who]]
    /\ caller' = who

\* The caller created the existing template.
Owns(who, a) == templates[a] # NoTemplate /\ templates[a].creator = who

\* Mutant: update_freight_template without its creator check.
UpdateFreightTemplateByAnyone(who, a, f) ==
    /\ templates[a] # NoTemplate
    /\ templates' = [templates EXCEPT ![a].fees = f]
    /\ caller' = who

\* update_freight_template: the supplied options give the numbers f.
UpdateFreightTemplate(who, a, f) ==
    /\ Owns(who, a)
    /\ templates' = [templates EXCEPT ![a].fees = f]
    /\ caller' = who

\* delete_freight_template.
DeleteFreightTemplate(who, a) ==
    /\ Owns(who, a)
    /\ templates' = [templates EXCEPT ![a] = NoTemplate]
    /\ caller' = who

Next ==
    \E who \in Account, a \in Area :
        \/ \E f \in Fees : CreateFreightTemplate(who, a, f)
        \/ \E f \in Fees : UpdateFreightTemplate(who, a, f)
        \/ DeleteFreightTemplate(who, a)

Spec == Init /\ [][Next]_vars

-----------------------------------------------------------------------------
(* Properties.                                                             *)

TypeOK ==
    /\ templates \in [Area -> Template \cup {NoTemplate}]
    /\ caller \in Account \cup {Nobody}

\* Spec section 8, Authorization: an existing template is changed or
\* deleted only by an extrinsic signed by its creator.
OnlyCreatorMutates ==
    [][\A a \in Area :
         (templates[a] # NoTemplate /\ templates'[a] # templates[a])
           => caller' = templates[a].creator]_vars

=============================================================================
