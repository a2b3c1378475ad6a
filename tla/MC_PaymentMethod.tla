-------------------------- MODULE MC_PaymentMethod --------------------------
(* Model-checking instance of PaymentMethod.                               *)
EXTENDS PaymentMethod, TLC

\* Accounts and institution ids are interchangeable.
Symmetry == Permutations(Account) \cup Permutations(InstitutionId)
=============================================================================
