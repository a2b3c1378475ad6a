\* Checks the at-least-one rule: update_payment_field clears the last field.
CONSTANTS
    Account = {a1, a2}
    InstitutionId = {d1, d2}
    NoMethod = NoMethod
    Nobody = Nobody
SYMMETRY Symmetry
SPECIFICATION Spec
INVARIANT AtLeastOneMethod
