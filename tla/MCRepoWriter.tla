----------------------------- MODULE MCRepoWriter -----------------------------
(* Three requests over two repositories; every request may lose its client. *)
EXTENDS RepoWriter

CONSTANTS d1, d2, k, v1, v2

Op(action, v) == [action |-> action, key |-> k, value |-> v]
DeleteOp == [action |-> "delete", key |-> k]
Write(d, ops) == [did |-> d, ops |-> ops, publish |-> TRUE]

MCRequests == {
    Write(d1, <<Op("create", v1)>>),
    Write(d1, <<DeleteOp>>),
    Write(d2, <<Op("create", v1)>>),
    [did |-> d1, ops |-> <<Op("create", v1), Op("update", v2)>>, publish |-> FALSE],
    [did |-> d1, ops |-> <<>>, publish |-> FALSE] }

=============================================================================
