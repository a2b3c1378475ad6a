\* Checks spec authorization: another account overwrites or removes a record.
CONSTANTS
    Account = {a1, a2}
    InstitutionId = {d1, d2}
    NoMethod = NoMethod
    Nobody = Nobody
SYMMETRY Symmetry
SPECIFICATION Spec
PROPERTY OnlyCreatorMutates
