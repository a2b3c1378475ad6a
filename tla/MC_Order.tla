------------------------------ MODULE MC_Order ------------------------------
(* Model-checking instance of Order.                                       *)
EXTENDS Order, TLC

\* Accounts, order codes, member codes and institution codes are
\* interchangeable.
Symmetry == Permutations(Account) \cup Permutations(OrderCode)
                \cup Permutations(MemberCode) \cup Permutations(InstitutionCode)
=============================================================================
