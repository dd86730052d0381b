----------------------------- MODULE WorkerRecords -----------------------------
(***************************************************************************)
(* The record endpoints of an account's Durable Object (handlers.rs).  SQL  *)
(* does not suspend, so a handler that touches only tables is one step; a   *)
(* batch is one commit.  The bytes of a blob are in R2, and a call to it    *)
(* does suspend.  The call to the sequencer that follows a commit is in     *)
(* WorkerFirehose: its failure is logged and the answer stays the same.     *)
(***************************************************************************)
EXTENDS RecordTasks

\* The DID of the one account this object holds.
sole_account_did == hosted

\* The caller's own repository, and names that are valid; an rkey is required
\* except by createRecord.  The signing key is loaded before the record is looked at.
write_preamble(t) == req[t].own /\ ValidNames(req[t]) /\ req[t].rkey # {}

\* apply_parts whose failure is answered like success.
apply_parts_Optimistic(t, ops, body) ==
    \/ hosted /\ Commits(t, ops) /\ Answer(t, "OK", body)
    \/ UNCHANGED commits /\ Answer(t, "OK", body)

\* apply_one_parts and apply_many_parts, after the signing key was loaded.
apply_parts(t, ops, body) ==
    \/ hosted /\ Commits(t, ops) /\ Answer(t, "OK", body)
    \/ /\ hosted /\ ApplyMany(Tip, ops) = {}
       /\ UNCHANGED commits /\ Error(t, "Refused")
    \/ UNCHANGED commits /\ Error(t, "StoreError")

Reject(t) == UNCHANGED commits /\ Error(t, "InvalidRequest")

create_record(t) ==
    LET r == req[t]
        key == <<r.collection, RkeyOf(r.rkey, clock)>>
    IN
    /\ r.nsid = "createRecord" /\ pc[t] = "start"
    /\ UNCHANGED <<mix, server, hosted, blobs, cached, clock>>
    /\ IF ~r.own \/ ~ValidNames(r) \/ r.record = Null \/ json_value_to_ipld(r.record) = {}
       THEN Reject(t)
       ELSE apply_parts(t, <<Create(key, r.record)>>, {key})

\* Existence decides between create and update.
put_record(t) ==
    LET r == req[t]
        key == <<r.collection, RkeyOf(r.rkey, clock)>>
    IN
    /\ r.nsid = "putRecord" /\ pc[t] = "start"
    /\ UNCHANGED <<mix, server, hosted, blobs, cached, clock>>
    /\ IF ~write_preamble(t) THEN Reject(t)
       ELSE IF ~hosted THEN UNCHANGED commits /\ Error(t, "StoreError")
       ELSE IF r.record = Null \/ json_value_to_ipld(r.record) = {} THEN Reject(t)
       ELSE apply_parts(t, IF R!get_record(Tip, key) # {} THEN <<Update(key, r.record)>>
                                                          ELSE <<Create(key, r.record)>>, {key})

delete_record(t) ==
    LET r == req[t]
        key == <<r.collection, RkeyOf(r.rkey, clock)>>
    IN
    /\ r.nsid = "deleteRecord" /\ pc[t] = "start"
    /\ UNCHANGED <<mix, server, hosted, blobs, cached, clock>>
    /\ IF ~write_preamble(t) THEN Reject(t)
       ELSE IF R!get_record(Tip, key) = {}
            THEN UNCHANGED commits /\ Answer(t, IF hosted THEN "OK" ELSE "StoreError", {})
            ELSE apply_parts(t, <<Delete(key)>>, {key})

\* Only a create may leave out the rkey, and create and update need a value.
ValidWrite(w) ==
    /\ ValidNames(w) /\ w.action # "unknown"
    /\ w.rkey = {} => w.action = "create"
    /\ w.action # "delete" => w.value # Null /\ json_value_to_ipld(w.value) # {}

OpOf(w) ==
    LET key == <<w.collection, RkeyOf(w.rkey, clock)>>
    IN  CASE w.action = "create" -> Create(key, w.value)
          [] w.action = "update" -> Update(key, w.value)
          [] w.action = "delete" -> Delete(key)

\* Every write is validated before any is applied.
apply_writes(t) ==
    LET writes == req[t].writes IN
    /\ req[t].nsid = "applyWrites" /\ pc[t] = "start"
    /\ UNCHANGED <<mix, server, hosted, blobs, cached, clock>>
    /\ IF ~req[t].own \/ writes = <<>> \/ \E i \in DOMAIN writes : ~ValidWrite(writes[i])
       THEN Reject(t)
       ELSE apply_parts(t, [i \in DOMAIN writes |-> OpOf(writes[i])], {})

\* A read of the account held here: not found, an answer from the head, or an error.
Read(t, nsid, found, body) ==
    /\ req[t].nsid = nsid /\ pc[t] = "start"
    /\ UNCHANGED repo
    /\ \/ IF sole_account_did /\ found THEN Answer(t, "OK", body) ELSE Error(t, "NotFound")
       \/ StoreFails(t)

get_record(t) ==
    LET found == R!get_record(Tip, <<req[t].collection, RkeyOf(req[t].rkey, clock)>>)
    IN  Read(t, "getRecord", found # {}, found)

Limit(l) == IF l = {} THEN PageDefault ELSE CHOOSE n \in l : TRUE

list_records(t) ==
    Read(t, "listRecords", TRUE,
         R!list_records(Tip, req[t].collection, Limit(req[t].limit), req[t].cursor))

get_latest_commit(t) ==
    Read(t, "getLatestCommit", R!latest_commit(commits) # {}, R!latest_commit(commits))

get_repo(t) ==
    Read(t, "getRepo", R!load_repo_root(commits) # 0,
         R!export_car(commits, R!load_repo_root(commits)))

describe_repo(t) == Read(t, "describeRepo", TRUE, R!Range(R!list_collections(Tip)))

\* The bytes go to R2 before the row that makes them a blob of the account.
upload_blob(t) ==
    /\ req[t].nsid = "uploadBlob"
    /\ UNCHANGED <<mix, server, hosted, commits, cached, clock>>
    /\ \/ pc[t] = "start" /\ req[t].size = "fits" /\ UNCHANGED blobs /\ Goto(t, "stored")
       \/ pc[t] = "start" /\ req[t].size # "fits" /\ store_blob(t)
       \/ pc[t] = "stored" /\ store_blob(t)
       \/ pc[t] = "start" /\ UNCHANGED blobs /\ StoreFails(t)

\* The row decides; then the bytes are read.
get_blob(t) ==
    /\ req[t].nsid = "getBlob"
    /\ UNCHANGED repo
    /\ \/ /\ pc[t] = "start"
          /\ IF sole_account_did /\ req[t].blob \in blobs THEN Goto(t, "r2") ELSE Error(t, "NotFound")
       \/ pc[t] = "r2" /\ Answer(t, "OK", {req[t].blob})
       \/ pc[t] \in {"start", "r2"} /\ StoreFails(t)

BlobLimit(l) ==
    LET n == IF l = {} THEN BlobPageDefault ELSE CHOOSE x \in l : TRUE
    IN  IF n < 1 THEN 1 ELSE IF n > BlobPageMax THEN BlobPageMax ELSE n

list_blobs(t) ==
    Read(t, "listBlobs", TRUE,
         LET rest == {b \in blobs : \A c \in req[t].cursor : c < b}
         IN  R!Page(R!SetToSortSeq(rest, <), BlobLimit(req[t].limit)))

Handler(t) ==
    \/ create_record(t) \/ apply_writes(t) \/ put_record(t) \/ delete_record(t)
    \/ get_record(t) \/ describe_repo(t) \/ get_repo(t) \/ list_records(t)
    \/ get_latest_commit(t)
    \/ upload_blob(t) \/ get_blob(t) \/ list_blobs(t)

==============================================================================
