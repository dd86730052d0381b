-------------------------- MODULE MCServerAccounts --------------------------
(* Requests, handles and codes are interchangeable.                        *)
EXTENDS ServerAccounts, TLC

Symmetry == Permutations(Handles) \cup Permutations(Codes) \cup Permutations(Requests)

=============================================================================
