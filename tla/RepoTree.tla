------------------------------ MODULE RepoTree ------------------------------
(***************************************************************************)
(* The contents of one repository and what a batch of writes does to them. *)
(* The Merkle search tree of atrium_repo is abstracted to the map it        *)
(* stores: MST key ("collection/rkey") to record CID.  `add` refuses a key  *)
(* that is present, `update` and `delete` refuse one that is absent, and a  *)
(* batch is applied to ONE tree, op after op, failing as a whole.           *)
(***************************************************************************)
EXTENDS Naturals, Sequences

CONSTANTS
    Keys,       \* MST keys
    Values,     \* record CIDs
    NoRecord    \* "this key holds no record"

ASSUME NoRecordAssumption == NoRecord \notin Values

Trees == [Keys -> Values \cup {NoRecord}]

EmptyTree == [k \in Keys |-> NoRecord]

WriteOps == [action : {"create", "update"}, key : Keys, value : Values]
              \cup [action : {"delete"}, key : Keys]

CanApply(tree, op) ==
    IF op.action = "create" THEN tree[op.key] = NoRecord
                            ELSE tree[op.key] # NoRecord

ApplyOp(tree, op) ==
    [tree EXCEPT ![op.key] = IF op.action = "delete" THEN NoRecord ELSE op.value]

\* A batch takes `tree` to `new` through one intermediate tree per op: each op
\* finds the tree its predecessors left, and all of them must succeed.
Applies(tree, ops, new) ==
    \E h \in [0..Len(ops) -> Trees] :
        /\ h[0] = tree
        /\ \A i \in 1..Len(ops) : CanApply(h[i-1], ops[i]) /\ h[i] = ApplyOp(h[i-1], ops[i])
        /\ h[Len(ops)] = new

=============================================================================
