---------------------------- MODULE Institution -----------------------------
(***************************************************************************)
(* The institution pallet (src/pallets/institution/src/lib.rs): a single   *)
(* map Institutions from institution id to an institution.                 *)
(*                                                                         *)
(* The descriptive fields (names, licence URL, responsible person, scope,  *)
(* profit contract) are never read by a handler; together they are one    *)
(* value of the small set Info.  caller is an auxiliary variable, not      *)
(* storage: the signer of the last extrinsic that changed the state, as    *)
(* the events of the pallet report it.                                     *)
(***************************************************************************)
EXTENDS Naturals

CONSTANTS
    Account,          \* signed origins
    InstitutionId,    \* institution ids
    NoInstitution,    \* Institutions::get returning None
    Info,             \* values of the descriptive fields
    Nobody            \* caller before the first extrinsic

VARIABLES
    institutions,     \* Institutions
    caller            \* auxiliary: signer of the last state change

vars == <<institutions, caller>>

\* InstitutionStatus, in the order of its u8 codes (lines 45-51).
StatusCodes == <<"Certified", "NotCertified", "Deactivated">>

\* InstitutionInfo (lines 54-65) with its descriptive fields as one value.
InstitutionInfo == [status: {"Certified", "NotCertified", "Deactivated"},
                    info: Info, creator: Account]

-----------------------------------------------------------------------------
Init ==
    /\ institutions = [id \in InstitutionId |-> NoInstitution]
    /\ caller = Nobody

\* create_institution: a new id starts NotCertified.
CreateInstitution(who, id, v) ==
    /\ institutions[id] = NoInstitution
    /\ institutions' = [institutions EXCEPT ![id] =
          [status |-> "NotCertified", info |-> v, creator |-> who]]
    /\ caller' = who

\* The caller created the existing institution.
Owns(who, id) == institutions[id] # NoInstitution /\ institutions[id].creator = who

\* update_institution_status with a status code that decodes; any status
\* may follow any other.
UpdateInstitutionStatus(who, id, n) ==
    /\ Owns(who, id)
    /\ institutions' = [institutions EXCEPT ![id].status = StatusCodes[n + 1]]
    /\ caller' = who

\* update_institution_info: the supplied fields give the descriptive value v.
UpdateInstitutionInfo(who, id, v) ==
    /\ Owns(who, id)
    /\ institutions' = [institutions EXCEPT ![id].info = v]
    /\ caller' = who

\* Mutant: delete_institution without its creator check.
DeleteInstitutionByAnyone(who, id) ==
    /\ institutions[id] # NoInstitution
    /\ institutions' = [institutions EXCEPT ![id] = NoInstitution]
    /\ caller' = who

\* delete_institution.
DeleteInstitution(who, id) ==
    /\ Owns(who, id)
    /\ institutions' = [institutions EXCEPT ![id] = NoInstitution]
    /\ caller' = who

Next ==
    \E who \in Account, id \in InstitutionId :
        \/ \E v \in Info : CreateInstitution(who, id, v)
        \/ \E n \in 0..2 : UpdateInstitutionStatus(who, id, n)
        \/ \E v \in Info : UpdateInstitutionInfo(who, id, v)
        \/ DeleteInstitution(who, id)

Spec == Init /\ [][Next]_vars

-----------------------------------------------------------------------------
(* Properties.                                                             *)

TypeOK ==
    /\ institutions \in [InstitutionId -> InstitutionInfo \cup {NoInstitution}]
    /\ caller \in Account \cup {Nobody}

\* Spec section 8, Authorization: an existing institution is changed or
\* deleted only by an extrinsic signed by its creator.
OnlyCreatorMutates ==
    [][\A id \in InstitutionId :
         (institutions[id] # NoInstitution /\ institutions'[id] # institutions[id])
           => caller' = institutions[id].creator]_vars

=============================================================================
