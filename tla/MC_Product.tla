----------------------------- MODULE MC_Product -----------------------------
(* Model-checking instance of Product.                                     *)
EXTENDS Product, TLC

\* Accounts, product codes and institution codes are interchangeable.
Symmetry == Permutations(Account) \cup Permutations(ProductCode)
                \cup Permutations(InstitutionCode)
=============================================================================
