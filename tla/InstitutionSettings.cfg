\* Two accounts contending for two institutions, one area and the payment
\* methods of one institution, with two descriptive and two fee values:
\* each pallet on its own has more states than the product of the three
\* can afford.
CONSTANTS
    Account = {a1, a2}
    InstitutionId = {d1, d2}
    NoInstitution = NoInstitution
    Info = {v1, v2}
    Nobody = Nobody
    Area = {r1}
    NoTemplate = NoTemplate
    Fees = {f1, f2}
    NoMethod = NoMethod
    PaymentInstitutionId = {d1}
SYMMETRY Symmetry
SPECIFICATION Spec
PROPERTY InstitutionOnlyCreatorMutates
PROPERTY TemplateOnlyCreatorMutates
