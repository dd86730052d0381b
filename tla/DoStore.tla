------------------------------- MODULE DoStore -------------------------------
(***************************************************************************)
(* rust-worker/src/store.rs: tables in a Durable Object and blobs in R2.   *)
(* SQL does not suspend, so a method that only runs SQL is one step; it    *)
(* checks for existence itself where SQLite reports a constraint or a      *)
(* number of rows.  put_blob suspends between R2 and the metadata row.     *)
(***************************************************************************)
EXTENDS StorageTypes, SqlTables

\* SCHEMA, with the counter row, and the bucket.
Empty ==
    [blocks |-> {}, repo_seq |-> {}, seq_counter |-> 0, repo_roots |-> {},
     accounts |-> {}, invites |-> {}, invite_uses |-> {}, keys |-> {},
     blob_refs |-> {}, account_preferences |-> {}, oauth_par |-> {},
     oauth_auth_codes |-> {}, oauth_refresh_tokens |-> {}, oauth_dpop_jti |-> {},
     r2 |-> {}]

\* exists: SELECT count(*) > 0.
exists(rows) == rows # {}

-----------------------------------------------------------------------------
\* Blocks, roots and the sequencer.

\* Nothing stands for BlockNotFound.
read_block_bytes(s, cid) == s.blocks \cap {cid}

put_block(s, cid) == Ret([s EXCEPT !.blocks = @ \cup {cid}], "Ok")

max_seq(s) == Max({0} \cup {r.seq : r \in s.repo_seq})

backfill_page(s, after_seq, limit) ==
    LET rows == SetToSortSeq({r.seq : r \in {t \in s.repo_seq : t.seq > after_seq}}, <)
        event(n) == (CHOOSE r \in s.repo_seq : r.seq = n).event
    IN  Take([i \in DOMAIN rows |-> [seq |-> rows[i], event |-> event(rows[i])]], limit)

load_repo_root(s, did) == {r.root_cid : r \in {t \in s.repo_roots : t.did = did}}

update_repo_root(s, did, root) ==
    Ret([s EXCEPT !.repo_roots =
            InsertOrReplace(@, {"did"}, [did |-> did, root_cid |-> root])], "Ok")

\* The counter is incremented and read back before the row is inserted.
commit_blocks(s, blocks, did, root, event) ==
    LET seq == s.seq_counter + 1
    IN  Ret([s EXCEPT !.blocks = @ \cup blocks,
                      !.seq_counter = seq,
                      !.repo_seq = @ \cup {[seq |-> seq, did |-> did, event |-> event]},
                      !.repo_roots =
                        InsertOrReplace(@, {"did"}, [did |-> did, root_cid |-> root])],
            seq)

-----------------------------------------------------------------------------
\* Accounts, invites, preferences.

count_accounts(s) == Cardinality(s.accounts)

insert_account(s, did, handle, phc, now) ==
    IF \/ exists({r \in s.accounts : r.did = did})
       \/ exists({r \in s.accounts : r.handle = handle})
    THEN Refuse(s, "Constraint")
    ELSE Ret([s EXCEPT !.accounts = @ \cup
                {[did |-> did, handle |-> handle, phc |-> phc, created |-> now,
                  takedown |-> None]}], Done)

count_and_insert_account(s, did, handle, phc, now) ==
    LET before == count_accounts(s)
        r == insert_account(s, did, handle, phc, now)
    IN  IF r.answer = Err THEN r ELSE Ret(r.store, Ok(before))

get_account_by_handle(s, handle) ==
    {<<r.did, r.phc>> : r \in {a \in s.accounts : a.handle = handle /\ a.takedown = None}}

get_did_by_handle(s, handle) ==
    {r.did : r \in {a \in s.accounts : a.handle = handle /\ a.takedown = None}}

\* get_handle_by_did without the takedown column.
get_handle_by_did_AnyStatus(s, did) == {r.handle : r \in {a \in s.accounts : a.did = did}}

get_handle_by_did(s, did) ==
    {r.handle : r \in {a \in s.accounts : a.did = did /\ a.takedown = None}}

\* ORDER BY created_at, did.
list_accounts(s) ==
    {SetToSortSeq({[did |-> r.did, handle |-> r.handle, takedown |-> r.takedown,
                    created |-> r.created] : r \in s.accounts},
        LAMBDA a, b : a.created < b.created \/ (a.created = b.created /\ a.did < b.did))}

update_password(s, did, phc) ==
    IF ~exists({r \in s.accounts : r.did = did}) THEN Ret(s, 0)
    ELSE Ret([s EXCEPT !.accounts = UpdateWhereDid(@, did, "phc", phc)], 1)

set_takedown(s, did, ref) ==
    IF ~exists({r \in s.accounts : r.did = did}) THEN Ret(s, 0)
    ELSE Ret([s EXCEPT !.accounts = UpdateWhereDid(@, did, "takedown", Marker(ref))], 1)

clear_takedown(s, did) ==
    IF ~exists({r \in s.accounts : r.did = did}) THEN Ret(s, 0)
    ELSE Ret([s EXCEPT !.accounts = UpdateWhereDid(@, did, "takedown", None)], 1)

insert_invite(s, code, uses) ==
    IF exists({r \in s.invites : r.code = code}) THEN Refuse(s, "Constraint")
    ELSE Ret([s EXCEPT !.invites = @ \cup {[code |-> code, available_uses |-> uses]}],
             Done)

consume_invite(s, code, did) ==
    LET rows == {r \in s.invites : r.code = code}
        uses == {r \in s.invite_uses : r.code = code /\ r.used_by = did}
    IN  IF (~ \E r \in rows : r.available_uses > 0) \/ exists(uses) THEN Ret(s, FALSE)
        ELSE Ret([s EXCEPT !.invite_uses = @ \cup {[code |-> code, used_by |-> did]},
                           !.invites = {IF r \in rows
                                        THEN [r EXCEPT !.available_uses = @ - 1]
                                        ELSE r : r \in @}],
                 TRUE)

upsert_preferences(s, did, prefs) ==
    Ret([s EXCEPT !.account_preferences =
            InsertOrReplace(@, {"did"}, [did |-> did, prefs |-> prefs])], "Ok")

get_preferences(s, did) ==
    {r.prefs : r \in {t \in s.account_preferences : t.did = did}}

-----------------------------------------------------------------------------
\* Keys and blobs.

put_key_blob(s, id, c) ==
    Ret([s EXCEPT !.keys = InsertOrReplace(@, {"id"}, [id |-> id, ciphertext |-> c])],
        "Ok")

get_key_blob(s, id) == {r.ciphertext : r \in {t \in s.keys : t.id = id}}

\* blob_key names the object; the put to R2 comes first.
put_object(s, did, cid) == [s EXCEPT !.r2 = @ \cup {<<did, cid>>}]

\* R2, then the metadata row.
put_blob(s, did, cid, mime) ==
    Ret([put_object(s, did, cid) EXCEPT !.blob_refs =
            InsertOrReplace(@, {"did", "cid"},
                [did |-> did, cid |-> cid, mime_type |-> mime])], "Ok")

\* The row decides ownership; without its object there is no blob.
get_blob(s, did, cid) ==
    {r.mime_type : r \in {t \in s.blob_refs :
                        t.did = did /\ t.cid = cid /\ <<did, cid>> \in s.r2}}

\* From the rows, not from R2.
list_blobs(s, did, limit, cursor) ==
    Take(SetToSortSeq({r.cid : r \in {b \in s.blob_refs : b.did = did /\ b.cid > cursor}}, <),
         limit)

-----------------------------------------------------------------------------
\* OAuth state.

put_pushed_request(s, req) ==
    Ret([s EXCEPT !.oauth_par = InsertOrReplace(@, {"hash"}, req)], "Ok")

get_pushed_request(s, hash, now) ==
    {r \in s.oauth_par : r.hash = hash /\ r.expires > now}

delete_pushed_request(s, hash) ==
    Ret([s EXCEPT !.oauth_par = {r \in @ : r.hash # hash}], "Ok")

put_auth_code(s, code) ==
    Ret([s EXCEPT !.oauth_auth_codes = InsertOrReplace(@, {"hash"}, code)], "Ok")

\* Select, then delete in any case, with no await between.
consume_auth_code(s, hash, now) ==
    LET rows == {c \in s.oauth_auth_codes : c.hash = hash /\ c.expires > now}
    IN  Ret([s EXCEPT !.oauth_auth_codes = {c \in @ : c.hash # hash}], rows)

put_refresh_token(s, token) ==
    Ret([s EXCEPT !.oauth_refresh_tokens =
            {r \in @ : r.rec.hash # token.hash} \cup {[rec |-> token, used |-> FALSE]}],
        "Ok")

\* Read, then mark, with no await between.
consume_refresh_token(s, hash, now) ==
    LET rows == {r \in s.oauth_refresh_tokens : r.rec.hash = hash /\ r.rec.expires > now}
        row == CHOOSE r \in rows : TRUE
    IN  CASE rows = {} -> Ret(s, <<"NotFound">>)
          [] rows # {} /\ row.used -> Ret(s, <<"Reused", row.rec.sid>>)
          [] OTHER -> Ret([s EXCEPT !.oauth_refresh_tokens =
                            {IF r.rec.hash = hash THEN [r EXCEPT !.used = TRUE] ELSE r
                                : r \in @}],
                          <<"Consumed", row.rec>>)

\* Count, then delete.
revoke_session(s, sid) ==
    LET n == Cardinality({r \in s.oauth_refresh_tokens : r.rec.sid = sid})
    IN  Ret([s EXCEPT !.oauth_refresh_tokens = {r \in @ : r.rec.sid # sid}], n)

revoke_refresh_token(s, hash) ==
    LET rows == {r \in s.oauth_refresh_tokens : r.rec.hash = hash}
        sid == (CHOOSE r \in rows : TRUE).rec.sid
    IN  IF rows = {} THEN Ret(s, FALSE)
        ELSE Ret([s EXCEPT !.oauth_refresh_tokens = {r \in @ : r.rec.sid # sid}], TRUE)

\* ORDER BY issued_at DESC, token_hash ASC.
list_sessions_for_did(s, did, now) ==
    {SetToSortSeq({r.rec : r \in {t \in s.oauth_refresh_tokens :
                        t.rec.did = did /\ t.rec.expires > now /\ ~t.used}},
        LAMBDA a, b : a.issued > b.issued \/ (a.issued = b.issued /\ a.hash < b.hash))}

\* Check, then insert, with no await between.
record_dpop_jti(s, jti, expires) ==
    IF exists({r \in s.oauth_dpop_jti : r.jti = jti}) THEN Ret(s, FALSE)
    ELSE Ret([s EXCEPT !.oauth_dpop_jti = @ \cup {[jti |-> jti, expires |-> expires]}],
             TRUE)

\* Table by table: count what has expired, then delete it.
purge_expired(s, now) ==
    LET expired(table) == Cardinality({r \in table : r.expires <= now})
        old == {r \in s.oauth_refresh_tokens : r.rec.expires <= now}
        live(table) == {r \in table : r.expires > now}
    IN  Ret([s EXCEPT !.oauth_par = live(@), !.oauth_auth_codes = live(@),
                      !.oauth_refresh_tokens = @ \ old, !.oauth_dpop_jti = live(@)],
            expired(s.oauth_par) + expired(s.oauth_auth_codes) + Cardinality(old)
                + expired(s.oauth_dpop_jti))

-----------------------------------------------------------------------------
\* The conformance suite over this backend.
Suite == INSTANCE Conformance
=============================================================================
