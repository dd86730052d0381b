---------------------------- MODULE StorageTypes ----------------------------
(***************************************************************************)
(* What the three storage backends share.  A method of a backend is an     *)
(* operator from a store and arguments to the store after the call and the *)
(* answer; a read is an operator from a store to the answer.  Bytes are    *)
(* known by their CID, a hash by a number, an error by its variant of      *)
(* StorageError.                                                           *)
(***************************************************************************)
EXTENDS Naturals, Sequences, FiniteSets, SequencesExt, FiniteSetsExt

\* A column that is NULL.  An optional answer is a set of at most one value.
None == "None"

\* A Result that carries a number, one that carries nothing, and an error.
Ok(n) == <<"Ok", n>>
Done == <<"Ok">>
Err == <<"Err">>

\* A method's result: the store it leaves and what it answers; of an error, the
\* variant too.
Ret(store, answer) == [store |-> store, answer |-> answer, variant |-> None]
Refuse(store, variant) == [store |-> store, answer |-> Err, variant |-> variant]

\* Iterator::take and LIMIT.
Take(q, n) == SubSeq(q, 1, Min({n, Len(q)}))

\* The marker of a takedown: an empty reference becomes a timestamp.
Marker(ref) == IF ref = "" THEN "timestamp" ELSE ref

\* ORDER BY a column: rows that agree on it come in any order.
Orders(rows, column) ==
    {q \in SetToSeqs(rows) : \A i, j \in DOMAIN q : i < j => q[i][column] <= q[j][column]}
=============================================================================
