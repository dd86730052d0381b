------------------------------ MODULE RepoReads ------------------------------
(***************************************************************************)
(* Reading a repository: one record, a page of a collection, the list of   *)
(* collections, the head and the export.  A repository is its sequence of  *)
(* commits; the blocks of a commit are never changed or deleted, so a read  *)
(* is a function of the root it loaded.  Optional results are sets of at    *)
(* most one element.                                                        *)
(***************************************************************************)
EXTENDS Naturals, Sequences, SequencesExt

CONSTANTS
    Collections,    \* collections, as numbers in the order of "nsid/"
    Rkeys,          \* record keys, as numbers in their string order
    Values,         \* record CIDs
    NoRecord,       \* "this key holds no record"
    PageMax         \* 100 in the code

Keys == Collections \X Rkeys

INSTANCE RepoTree

\* MST keys are the strings "collection/rkey".  The keys of one collection are
\* those with the prefix "collection/", which is a range of the string order.
Before(a, b) == a[1] < b[1] \/ (a[1] = b[1] /\ a[2] < b[2])

load_repo_root(commits) == Len(commits)

TreeAt(commits, root) == IF root = 0 THEN EmptyTree ELSE commits[root].tree

entries(tree) == SetToSortSeq({k \in Keys : tree[k] # NoRecord}, Before)

entries_prefixed(tree, collection) ==
    SelectSeq(entries(tree), LAMBDA k : k[1] = collection)

get_record(tree, key) == {tree[key]} \ {NoRecord}

\* clamp left out.
clamp_None(limit) == limit

\* limit.clamp(1, 100)
clamp(limit) == IF limit < 1 THEN 1 ELSE IF limit > PageMax THEN PageMax ELSE limit

\* What comes strictly after the cursor, if there is one.
AfterCursor(listing, cursor) ==
    SelectSeq(listing, LAMBDA k : \A c \in cursor : Before(c, k))

\* One page of a listing, up to the limit.  Only a full page has a cursor, its
\* last item.
Page(rest, limit) ==
    LET page == SubSeq(rest, 1, IF Len(rest) < limit THEN Len(rest) ELSE limit)
    IN  [items  |-> page,
         cursor |-> IF page # <<>> /\ Len(page) = limit THEN {Last(page)} ELSE {}]

list_records(tree, collection, limit, cursor) ==
    Page(AfterCursor(entries_prefixed(tree, collection), cursor), clamp(limit))

\* Keys arrive in order, so only the last collection is compared.
list_collections(tree) ==
    FoldLeft(LAMBDA out, k : IF out # <<>> /\ Last(out) = k[1] THEN out ELSE Append(out, k[1]),
             <<>>, entries(tree))

\* The head and its rev, which is read out of the commit block.
latest_commit(commits) ==
    LET root == load_repo_root(commits)
    IN  IF root = 0 THEN {} ELSE {[root |-> root, rev |-> commits[root].rev]}

\* The whole repository under one root: commit, tree and records.
export_car(commits, root) == [root |-> root, tree |-> TreeAt(commits, root)]

==============================================================================
