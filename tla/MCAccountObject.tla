--------------------------- MODULE MCAccountObject ---------------------------
(* Statements that succeed, and statements that may fail.  Accounts and       *)
(* devices are interchangeable.                                               *)
EXTENDS AccountObject, TLC

MCEnvs == {{}, {"sql"}}

Symmetry == Permutations(Dids) \cup Permutations(Devices)

=============================================================================
