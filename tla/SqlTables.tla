------------------------------ MODULE SqlTables ------------------------------
(***************************************************************************)
(* SQLite as rust-core/src/storage/sqlite and rust-worker/src/store.rs use *)
(* it: a table is a set of rows, and a key is a set of column names.       *)
(***************************************************************************)

\* Two rows agree on the columns of a key.
SameKey(key, a, b) == \A col \in key : a[col] = b[col]

\* A row that a PRIMARY KEY or UNIQUE column already holds.
Conflict(table, key, row) == \E r \in table : SameKey(key, r, row)

InsertOrReplace(table, key, row) ==
    {r \in table : ~SameKey(key, r, row)} \cup {row}

InsertOrIgnore(table, key, row) ==
    IF Conflict(table, key, row) THEN table ELSE table \cup {row}

\* UPDATE ... SET col = value WHERE did = did.
UpdateWhereDid(table, did, col, value) ==
    {IF r.did = did THEN [r EXCEPT ![col] = value] ELSE r : r \in table}
=============================================================================
