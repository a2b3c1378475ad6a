----------------------- MODULE MC_InstitutionSettings -----------------------
(***************************************************************************)
(* Model-checking instance of InstitutionSettings: the three settings      *)
(* pallets with the accounts as a symmetry set.                            *)
(***************************************************************************)
EXTENDS InstitutionSettings, TLC

\* Accounts are interchangeable.
Symmetry == Permutations(Account)
=============================================================================
