---------------------------- MODULE MCRepoFirehose ----------------------------
(* Three write requests and one subscriber. *)
EXTENDS RepoFirehose, TLC

CONSTANTS k, v

CreateOp == [action |-> "create", key |-> k, value |-> v]
DeleteOp == [action |-> "delete", key |-> k]

MCRequests == [did : Dids, ops : {<<CreateOp>>, <<DeleteOp>>}, publish : {TRUE}]

\* With one account, the instance meets the premise of RepoFirehose_proofs.
ASSUME PremiseHolds == Cardinality(Dids) = 1 => OneRepository

Symmetry == Permutations(Tasks)

=============================================================================
