---------------------------- MODULE MCWorkerSignup ----------------------------
(* Reliable signups, signups with lost calls, these with failing statements,  *)
(* and both with an operator who deletes accounts.  Requests and labels are   *)
(* interchangeable.                                                           *)
EXTENDS WorkerSignup, TLC

MCEnvs == {{}, {"lost", "sql"}, {"lost", "delete"}, {"lost", "sql", "delete"}}

Symmetry == Permutations(Signups) \cup Permutations(Labels)

=============================================================================
