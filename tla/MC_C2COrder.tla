---------------------------- MODULE MC_C2COrder ----------------------------
(* Model-checking instance of C2COrder: the sets of accounts, codes and    *)
(* buckets are model values given in the .cfg files.                       *)
EXTENDS C2COrder, TLC

\* Accounts, order, member and institution codes are only compared for
\* equality, so permuting any of them maps behaviours to behaviours.
Symmetry ==
    Permutations(Account) \cup Permutations(OrderCode)
      \cup Permutations(MemberCode) \cup Permutations(InstitutionCode)
=============================================================================
