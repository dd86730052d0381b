---------------------------- MODULE EmbeddedRecords ----------------------------
(***************************************************************************)
(* The record endpoints of the embedded server (server/repo.rs).  They      *)
(* mirror the server binary's; inputs are taken apart by hand, and keys are *)
(* generated before the signing key is loaded.                              *)
(***************************************************************************)
EXTENDS RecordTasks

\* The key is imported before it is cached.
load_signing_key(t) ==
    \/ /\ cached \/ hosted
       /\ cached' = TRUE
       /\ Goto(t, IF req[t].nsid = "describeRepo" THEN "keyed" ELSE "ready")
    \/ /\ ~cached
       /\ UNCHANGED cached /\ Error(t, "StoreError")

build_writer(t) ==
    /\ pc[t] = "key"
    /\ UNCHANGED <<mix, server, hosted, commits, blobs, clock>>
    /\ load_signing_key(t)

lookup_record_cid(key) == R!get_record(Tip, key)

resolve_repo_did(t) == req[t].repo = "did" \/ (req[t].repo = "handle" /\ hosted)

create_record(t) ==
    LET r == req[t] IN
    /\ r.nsid = "createRecord"
    /\ UNCHANGED repo
    /\ \/ /\ pc[t] = "start"
          /\ CASE ~r.own \/ ~ValidNames(r) \/ r.record = Null -> Error(t, "InvalidRequest")
               [] json_value_to_ipld(r.record) = {} -> Error(t, "StoreError")
               [] OTHER -> Prepare(t, Create(<<r.collection, RkeyOf(r.rkey, clock)>>, r.record), "key")
       \/ pc[t] = "ready" /\ Goto(t, "apply")
       \/ pc[t] = "applied" /\ Answer(t, "OK", {op[t].key})

\* put_record that does not look the key up.
put_record_Blind(t) ==
    LET r == req[t]
        key == <<r.collection, RkeyOf(r.rkey, clock)>>
    IN
    /\ r.nsid = "putRecord"
    /\ UNCHANGED repo
    /\ \/ /\ pc[t] = "start"
          /\ IF ~r.own \/ ~ValidNames(r) \/ r.record \in {Null, BadRecord}
             THEN Error(t, "InvalidRequest")
             ELSE Prepare(t, Update(key, r.record), "key")
       \/ pc[t] = "ready" /\ Goto(t, "apply")
       \/ pc[t] = "applied" /\ Answer(t, "OK", {key})

put_record(t) ==
    LET r == req[t]
        key == <<r.collection, RkeyOf(r.rkey, clock)>>
    IN
    /\ r.nsid = "putRecord"
    /\ UNCHANGED repo
    /\ \/ /\ pc[t] = "start"
          /\ CASE ~r.own \/ ~ValidNames(r) \/ r.record = Null -> Error(t, "InvalidRequest")
               [] json_value_to_ipld(r.record) = {} -> Error(t, "StoreError")
               [] OTHER -> Goto(t, "lookup")
       \/ /\ pc[t] = "lookup"
          /\ \/ Prepare(t, IF lookup_record_cid(key) # {} THEN Update(key, r.record)
                                                          ELSE Create(key, r.record), "key")
             \/ Error(t, "StoreError")
       \/ pc[t] = "ready" /\ Goto(t, "apply")
       \/ pc[t] = "applied" /\ Answer(t, "OK", {key})

delete_record(t) ==
    LET r == req[t]
        key == <<r.collection, RkeyOf(r.rkey, clock)>>
    IN
    /\ r.nsid = "deleteRecord"
    /\ UNCHANGED repo
    /\ \/ /\ pc[t] = "start"
          /\ IF r.own /\ ValidNames(r) THEN Goto(t, "lookup") ELSE Error(t, "InvalidRequest")
       \/ /\ pc[t] = "lookup"
          /\ \/ IF lookup_record_cid(key) = {} THEN Answer(t, "OK", {})
                                               ELSE Prepare(t, Delete(key), "key")
             \/ Error(t, "StoreError")
       \/ pc[t] = "ready" /\ Goto(t, "apply")
       \/ pc[t] = "applied" /\ Answer(t, "OK", {key})

\* The write of a batch that is next, its $type included, is checked when its
\* turn comes.
Write(t) ==
    LET w == req[t].writes[done[t] + 1]
        key == <<w.collection, RkeyOf(w.rkey, clock)>>
    IN
    CASE ~ValidNames(w) \/ w.action = "unknown" -> Error(t, "InvalidRequest")
      [] w.action = "delete" -> Prepare(t, Delete(key), "apply")
      [] json_value_to_ipld(w.value) = {} -> Error(t, "StoreError")
      [] w.action = "create" -> Prepare(t, Create(key, w.value), "apply")
      [] w.action = "update" -> Prepare(t, Update(key, w.value), "apply")

apply_writes(t) ==
    LET r == req[t] IN
    /\ r.nsid = "applyWrites"
    /\ UNCHANGED repo
    /\ \/ /\ pc[t] = "start"
          /\ CASE ~r.own -> Error(t, "InvalidRequest")
               [] r.writes = <<>> -> Answer(t, "OK", {})
               [] OTHER -> Goto(t, "key")
       \/ /\ pc[t] = "ready"
          /\ IF done[t] = Len(r.writes) THEN Answer(t, "OK", {}) ELSE Write(t)
       \/ /\ pc[t] = "applied"
          /\ done' = [done EXCEPT ![t] = @ + 1]
          /\ pc' = [pc EXCEPT ![t] = "ready"]
          /\ UNCHANGED <<req, op, seen, got, from, reply>>

get_record(t) ==
    LET r == req[t]
        found == R!get_record(R!TreeAt(commits, seen[t]), <<r.collection, RkeyOf(r.rkey, clock)>>)
    IN
    /\ r.nsid = "getRecord"
    /\ UNCHANGED repo
    /\ \/ /\ pc[t] = "start"
          /\ IF resolve_repo_did(t) THEN LoadRoot(t, "read") ELSE Error(t, "InvalidRequest")
       \/ /\ pc[t] = "read"
          /\ IF found = {} THEN Error(t, "NotFound") ELSE Answer(t, "OK", found)
       \/ pc[t] \in {"start", "read"} /\ StoreFails(t)

Limit(l) == IF l = {} THEN PageDefault ELSE R!clamp(CHOOSE n \in l : TRUE)

list_records(t) ==
    LET r == req[t] IN
    /\ r.nsid = "listRecords"
    /\ UNCHANGED repo
    /\ \/ /\ pc[t] = "start"
          /\ IF R!load_repo_root(commits) = 0 THEN Error(t, "NotFound") ELSE LoadRoot(t, "read")
       \/ /\ pc[t] = "read"
          /\ LET listing == R!entries_prefixed(R!TreeAt(commits, seen[t]), r.collection)
             IN  Answer(t, "OK", R!Page(R!AfterCursor(listing, r.cursor), Limit(r.limit)))
       \/ pc[t] \in {"start", "read"} /\ StoreFails(t)

\* A store that fails to give the root is taken for an empty repository: the
\* root 0 stands for both.  Every other failure of the store is an error.
describe_repo(t) ==
    /\ req[t].nsid = "describeRepo"
    /\ UNCHANGED repo
    /\ \/ /\ pc[t] = "start"
          /\ IF resolve_repo_did(t) /\ hosted
             THEN LoadRoot(t, "key") \/ Goto(t, "key")
             ELSE Error(t, "InvalidRequest")
       \/ /\ pc[t] = "keyed"
          /\ Answer(t, "OK", {k[1] : k \in R!Range(R!entries(R!TreeAt(commits, seen[t])))})
       \/ pc[t] \in {"start", "key"} /\ StoreFails(t)

upload_blob(t) ==
    /\ req[t].nsid = "uploadBlob" /\ pc[t] = "start"
    /\ UNCHANGED <<mix, server, hosted, commits, cached, clock>>
    /\ store_blob(t)

get_blob(t) ==
    /\ req[t].nsid = "getBlob" /\ pc[t] = "start"
    /\ UNCHANGED repo
    /\ \/ IF req[t].blob \in blobs THEN Answer(t, "OK", {req[t].blob}) ELSE Error(t, "NotFound")
       \/ StoreFails(t)

\* get_repo that loads the root a second time for the blocks.
get_repo_Reloads(t) ==
    /\ req[t].nsid = "getRepo"
    /\ UNCHANGED repo
    /\ \/ /\ pc[t] = "start"
          /\ IF R!load_repo_root(commits) = 0 THEN Error(t, "NotFound") ELSE LoadRoot(t, "read")
       \/ /\ pc[t] = "read"
          /\ Answer(t, "OK", [root |-> seen[t], tree |-> Tip])

get_repo(t) ==
    /\ req[t].nsid = "getRepo"
    /\ UNCHANGED repo
    /\ \/ /\ pc[t] = "start"
          /\ IF R!load_repo_root(commits) = 0 THEN Error(t, "NotFound") ELSE LoadRoot(t, "read")
       \/ /\ pc[t] = "read"
          /\ Answer(t, "OK", R!export_car(commits, seen[t]))
       \/ pc[t] \in {"start", "read"} /\ StoreFails(t)

Handler(t) ==
    \/ create_record(t) \/ apply_writes(t) \/ put_record(t) \/ delete_record(t)
    \/ build_writer(t) \/ apply_one(t)
    \/ get_record(t) \/ describe_repo(t) \/ get_repo(t) \/ list_records(t)
    \/ upload_blob(t) \/ get_blob(t)

==============================================================================
