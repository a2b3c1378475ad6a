---------------------------- MODULE MC_C2CToken ----------------------------
(* Model-checking instance of C2CToken.                                    *)
EXTENDS C2CToken, TLC

\* Accounts, token codes and institution codes are interchangeable.
Symmetry == Permutations(Account) \cup Permutations(TokenCode)
                \cup Permutations(InstitutionCode)
=============================================================================
