---------------------------- MODULE DesktopRecords ----------------------------
(***************************************************************************)
(* The record endpoints of the server binary (xrpc/repo.rs).  Every store   *)
(* call is an await; a batch is one commit per write.                       *)
(***************************************************************************)
EXTENDS RecordTasks

\* A cache hit, or a load that fills the cache; a missing key or a failing
\* store is an internal error.
load_signing_key_cached(t) ==
    \/ /\ cached \/ hosted
       /\ cached' = TRUE
       /\ Goto(t, IF req[t].nsid = "describeRepo" THEN "keyed" ELSE "ready")
    \/ /\ ~cached
       /\ UNCHANGED cached /\ Error(t, "StoreError")

build_writer(t) ==
    /\ pc[t] = "key"
    /\ UNCHANGED <<mix, server, hosted, commits, blobs, clock>>
    /\ load_signing_key_cached(t)

lookup_record_cid(key) == R!get_record(Tip, key)

\* A DID is taken as it is, a handle is looked up.
resolve_repo_did(t) == req[t].repo = "did" \/ (req[t].repo = "handle" /\ hosted)

create_record(t) ==
    LET r == req[t] IN
    /\ r.nsid = "createRecord"
    /\ UNCHANGED repo
    /\ \/ /\ pc[t] = "start"
          /\ IF r.own /\ ValidNames(r) THEN Goto(t, "key") ELSE Error(t, "InvalidRequest")
       \/ /\ pc[t] = "ready"
          /\ IF json_value_to_ipld(r.record) = {}
             THEN Error(t, "StoreError")
             ELSE Prepare(t, Create(<<r.collection, RkeyOf(r.rkey, clock)>>, r.record), "apply")
       \/ /\ pc[t] = "applied"
          /\ Answer(t, "OK", {op[t].key})

\* The write of a batch that is next: validated only when its turn comes.
Write(t) ==
    LET w == req[t].writes[done[t] + 1] IN
    IF ~ValidNames(w) THEN Error(t, "InvalidRequest")
    ELSE IF w.action # "delete" /\ json_value_to_ipld(w.value) = {} THEN Error(t, "StoreError")
    ELSE LET key == <<w.collection, RkeyOf(w.rkey, clock)>>
         IN  Prepare(t, CASE w.action = "create" -> Create(key, w.value)
                          [] w.action = "update" -> Update(key, w.value)
                          [] w.action = "delete" -> Delete(key), "apply")

\* The body is parsed as a whole, so an unknown $type is refused at once.
CheckBatch(t) ==
    LET r == req[t] IN
    CASE ~r.own \/ (\E i \in DOMAIN r.writes : r.writes[i].action = "unknown")
           -> Error(t, "InvalidRequest")
      [] r.writes = <<>> -> Answer(t, "OK", {})
      [] OTHER -> Goto(t, "key")

\* done[t] counts the writes the loop is through with.
NextWrite(t) ==
    /\ done' = [done EXCEPT ![t] = @ + 1]
    /\ pc' = [pc EXCEPT ![t] = "ready"]
    /\ UNCHANGED <<req, op, seen, got, from, reply>>

\* apply_writes that goes on after a write with an invalid name.
apply_writes_Skips(t) ==
    LET r == req[t] IN
    /\ r.nsid = "applyWrites"
    /\ UNCHANGED repo
    /\ \/ pc[t] = "start" /\ CheckBatch(t)
       \/ /\ pc[t] = "ready"
          /\ IF done[t] = Len(r.writes) THEN Answer(t, "OK", {})
             ELSE IF ValidNames(r.writes[done[t] + 1]) THEN Write(t) ELSE NextWrite(t)
       \/ pc[t] = "applied" /\ NextWrite(t)

apply_writes(t) ==
    LET r == req[t] IN
    /\ r.nsid = "applyWrites"
    /\ UNCHANGED repo
    /\ \/ pc[t] = "start" /\ CheckBatch(t)
       \/ /\ pc[t] = "ready"
          /\ IF done[t] = Len(r.writes) THEN Answer(t, "OK", {}) ELSE Write(t)
       \/ pc[t] = "applied" /\ NextWrite(t)

\* Whether the key exists is looked up before the writer and its lock.
put_record(t) ==
    LET r == req[t]
        key == <<r.collection, RkeyOf(r.rkey, clock)>>
    IN
    /\ r.nsid = "putRecord"
    /\ UNCHANGED repo
    /\ \/ /\ pc[t] = "start"
          /\ IF r.own /\ ValidNames(r) THEN Goto(t, "lookup") ELSE Error(t, "InvalidRequest")
       \/ /\ pc[t] = "lookup"
          /\ \/ json_value_to_ipld(r.record) = {} /\ Error(t, "StoreError")
             \/ /\ json_value_to_ipld(r.record) # {}
                /\ Prepare(t, IF lookup_record_cid(key) # {} THEN Update(key, r.record)
                                                             ELSE Create(key, r.record), "key")
             \/ Error(t, "StoreError")
       \/ pc[t] = "ready" /\ Goto(t, "apply")
       \/ pc[t] = "applied" /\ Answer(t, "OK", {key})

get_record(t) ==
    LET r == req[t]
        found == R!get_record(R!TreeAt(commits, seen[t]), <<r.collection, RkeyOf(r.rkey, clock)>>)
    IN
    /\ r.nsid = "getRecord"
    /\ UNCHANGED repo
    /\ \/ /\ pc[t] = "start"
          /\ IF resolve_repo_did(t) THEN LoadRoot(t, "read") ELSE Error(t, "InvalidRequest")
       \/ /\ pc[t] = "read"
          /\ IF found = {} THEN Error(t, "NotFound") ELSE Answer(t, "OK", found)
       \/ pc[t] \in {"start", "read"} /\ StoreFails(t)

\* A record that is not there is success without a commit.
delete_record(t) ==
    LET r == req[t]
        key == <<r.collection, RkeyOf(r.rkey, clock)>>
    IN
    /\ r.nsid = "deleteRecord"
    /\ UNCHANGED repo
    /\ \/ /\ pc[t] = "start"
          /\ IF r.own /\ ValidNames(r) THEN Goto(t, "lookup") ELSE Error(t, "InvalidRequest")
       \/ /\ pc[t] = "lookup"
          /\ \/ IF lookup_record_cid(key) = {} THEN Answer(t, "OK", {})
                                               ELSE Prepare(t, Delete(key), "key")
             \/ Error(t, "StoreError")
       \/ pc[t] = "ready" /\ Goto(t, "apply")
       \/ pc[t] = "applied" /\ Answer(t, "OK", {key})

\* A BTreeSet of the prefixes, so the order is that of the names.
list_collections(tree) == {k[1] : k \in R!Range(R!entries(tree))}

describe_repo(t) ==
    /\ req[t].nsid = "describeRepo"
    /\ UNCHANGED repo
    /\ \/ /\ pc[t] = "start"
          /\ IF resolve_repo_did(t) /\ hosted THEN LoadRoot(t, "key") ELSE Error(t, "InvalidRequest")
       \/ /\ pc[t] = "keyed"
          /\ Answer(t, "OK", list_collections(R!TreeAt(commits, seen[t])))
       \/ pc[t] \in {"start", "key"} /\ StoreFails(t)

\* The body limit of axum refuses a blob over 2 MiB before the handler runs.
upload_blob(t) ==
    LET r == req[t] IN
    /\ r.nsid = "uploadBlob" /\ pc[t] = "start"
    /\ UNCHANGED <<mix, server, hosted, commits, cached, clock>>
    /\ \/ /\ r.size \in {"empty", "over"}
          /\ UNCHANGED blobs /\ Error(t, "InvalidRequest")
       \/ /\ r.size = "fits"
          /\ blobs' = blobs \cup {r.blob} /\ Answer(t, "OK", {r.blob})
       \/ UNCHANGED blobs /\ Error(t, "StoreError")

get_blob(t) ==
    /\ req[t].nsid = "getBlob" /\ pc[t] = "start"
    /\ UNCHANGED repo
    /\ \/ IF req[t].blob \in blobs THEN Answer(t, "OK", {req[t].blob}) ELSE Error(t, "NotFound")
       \/ StoreFails(t)

\* The root is loaded once, and every block is read under it.
get_repo(t) ==
    /\ req[t].nsid = "getRepo"
    /\ UNCHANGED repo
    /\ \/ /\ pc[t] = "start"
          /\ IF R!load_repo_root(commits) = 0 THEN Error(t, "NotFound") ELSE LoadRoot(t, "read")
       \/ /\ pc[t] = "read"
          /\ Answer(t, "OK", R!export_car(commits, seen[t]))
       \/ pc[t] \in {"start", "read"} /\ StoreFails(t)

Limit(l) == IF l = {} THEN PageDefault ELSE R!clamp(CHOOSE n \in l : TRUE)

list_records(t) ==
    LET r == req[t] IN
    /\ r.nsid = "listRecords"
    /\ UNCHANGED repo
    /\ \/ /\ pc[t] = "start"
          /\ IF R!load_repo_root(commits) = 0 THEN Error(t, "NotFound") ELSE LoadRoot(t, "read")
       \/ /\ pc[t] = "read"
          /\ LET listing == R!entries_prefixed(R!TreeAt(commits, seen[t]), r.collection)
             IN  Answer(t, "OK", R!Page(R!AfterCursor(listing, r.cursor), Limit(r.limit)))
       \/ pc[t] \in {"start", "read"} /\ StoreFails(t)

Handler(t) ==
    \/ create_record(t) \/ apply_writes(t) \/ put_record(t) \/ delete_record(t)
    \/ build_writer(t) \/ apply_one(t)
    \/ get_record(t) \/ describe_repo(t) \/ get_repo(t) \/ list_records(t)
    \/ upload_blob(t) \/ get_blob(t)

==============================================================================
