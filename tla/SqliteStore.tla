----------------------------- MODULE SqliteStore -----------------------------
(***************************************************************************)
(* rust-core/src/storage/sqlite: tables behind one writer connection and a *)
(* pool of readers.  A method runs one statement or one IMMEDIATE          *)
(* transaction, which lands whole or not at all, so it is one step.        *)
(***************************************************************************)
EXTENDS StorageTypes, SqlTables

\* SCHEMA; autoinc is what AUTOINCREMENT remembers.
Empty ==
    [blocks |-> {}, repo_seq |-> {}, autoinc |-> 0, repo_roots |-> {},
     accounts |-> {}, invites |-> {}, invite_uses |-> {}, keys |-> {},
     blobs |-> {}, account_preferences |-> {}, oauth_par |-> {},
     oauth_auth_codes |-> {}, oauth_refresh_tokens |-> {}, oauth_dpop_jti |-> {}]

-----------------------------------------------------------------------------
\* Blocks, roots and the sequencer.

\* Nothing stands for BlockNotFound.
read_block_bytes(s, cid) == s.blocks \cap {cid}

put_block(s, cid) == Ret([s EXCEPT !.blocks = @ \cup {cid}], "Ok")

max_seq(s) == Max({r.seq : r \in s.repo_seq} \cup {0})

backfill_page(s, after_seq, limit) ==
    LET rows == SetToSortSeq({r \in s.repo_seq : r.seq > after_seq},
                             LAMBDA a, b : a.seq < b.seq)
    IN  Take([i \in DOMAIN rows |-> [seq |-> rows[i].seq, event |-> rows[i].event]],
             limit)

load_repo_root(s, did) ==
    {r.root_cid : r \in {t \in s.repo_roots : t.did = did}}

update_repo_root(s, did, root) ==
    Ret([s EXCEPT !.repo_roots =
            InsertOrReplace(@, {"did"}, [did |-> did, root_cid |-> root])], "Ok")

\* The blocks, the row and the root in one transaction; last_insert_rowid.
commit_blocks(s, blocks, did, root, event) ==
    LET seq == s.autoinc + 1
    IN  Ret([s EXCEPT !.blocks = @ \cup blocks,
                      !.autoinc = seq,
                      !.repo_seq = @ \cup {[seq |-> seq, did |-> did, event |-> event]},
                      !.repo_roots =
                        InsertOrReplace(@, {"did"}, [did |-> did, root_cid |-> root])],
            seq)

-----------------------------------------------------------------------------
\* Accounts, invites, preferences.

count_accounts(s) == Cardinality(s.accounts)

\* The failing statement's own error is passed on.
insert_account(s, did, handle, phc, now) ==
    LET row == [did |-> did, handle |-> handle, phc |-> phc, created |-> now,
                takedown |-> None]
    IN  IF Conflict(s.accounts, {"did"}, row) \/ Conflict(s.accounts, {"handle"}, row)
        THEN Refuse(s, "AsyncSqlite")
        ELSE Ret([s EXCEPT !.accounts = @ \cup {row}], Done)

\* The count and the insert share a transaction; a failed insert rolls back.
count_and_insert_account(s, did, handle, phc, now) ==
    LET n == count_accounts(s)
        row == [did |-> did, handle |-> handle, phc |-> phc, created |-> now,
                takedown |-> None]
    IN  IF Conflict(s.accounts, {"did"}, row) \/ Conflict(s.accounts, {"handle"}, row)
        THEN Refuse(s, "AsyncSqlite")
        ELSE Ret([s EXCEPT !.accounts = @ \cup {row}], Ok(n))

get_account_by_handle(s, handle) ==
    {<<r.did, r.phc>> : r \in {a \in s.accounts : a.handle = handle /\ a.takedown = None}}

get_did_by_handle(s, handle) ==
    {r.did : r \in {a \in s.accounts : a.handle = handle /\ a.takedown = None}}

get_handle_by_did(s, did) ==
    {r.handle : r \in {a \in s.accounts : a.did = did /\ a.takedown = None}}

\* ORDER BY created_at leaves rows of one instant in any order.
list_accounts(s) ==
    Orders({[did |-> r.did, handle |-> r.handle, takedown |-> r.takedown,
             created |-> r.created] : r \in s.accounts},
           "created")

update_password(s, did, phc) ==
    Ret([s EXCEPT !.accounts = UpdateWhereDid(@, did, "phc", phc)],
        Cardinality({r \in s.accounts : r.did = did}))

set_takedown(s, did, ref) ==
    Ret([s EXCEPT !.accounts = UpdateWhereDid(@, did, "takedown", Marker(ref))],
        Cardinality({r \in s.accounts : r.did = did}))

clear_takedown(s, did) ==
    Ret([s EXCEPT !.accounts = UpdateWhereDid(@, did, "takedown", None)],
        Cardinality({r \in s.accounts : r.did = did}))

insert_invite(s, code, uses) ==
    LET row == [code |-> code, available_uses |-> uses]
    IN  IF Conflict(s.invites, {"code"}, row) THEN Refuse(s, "AsyncSqlite")
        ELSE Ret([s EXCEPT !.invites = @ \cup {row}], Done)

\* Check, use and decrement in one transaction.
consume_invite(s, code, did) ==
    LET use == [code |-> code, used_by |-> did]
        open == {r \in s.invites : r.code = code /\ r.available_uses > 0}
    IN  IF open = {} \/ use \in s.invite_uses THEN Ret(s, FALSE)
        ELSE Ret([s EXCEPT !.invite_uses = @ \cup {use},
                           !.invites = (@ \ open) \cup
                             {[r EXCEPT !.available_uses = @ - 1] : r \in open}],
                 TRUE)

upsert_preferences(s, did, prefs) ==
    Ret([s EXCEPT !.account_preferences =
            InsertOrReplace(@, {"did"}, [did |-> did, prefs |-> prefs])], "Ok")

get_preferences(s, did) ==
    {r.prefs : r \in {t \in s.account_preferences : t.did = did}}

-----------------------------------------------------------------------------
\* Keys and blobs.

put_key_blob(s, id, c) ==
    Ret([s EXCEPT !.keys = InsertOrReplace(@, {"id"}, [id |-> id, ciphertext |-> c])],
        "Ok")

get_key_blob(s, id) == {r.ciphertext : r \in {t \in s.keys : t.id = id}}

put_blob(s, did, cid, mime) ==
    Ret([s EXCEPT !.blobs = InsertOrReplace(@, {"did", "cid"},
                        [did |-> did, cid |-> cid, mime_type |-> mime])], "Ok")

get_blob(s, did, cid) ==
    {r.mime_type : r \in {t \in s.blobs : t.did = did /\ t.cid = cid}}

list_blobs(s, did, limit, cursor) ==
    Take(SetToSortSeq({r.cid : r \in {b \in s.blobs : b.did = did /\ b.cid > cursor}}, <),
         limit)

-----------------------------------------------------------------------------
\* OAuth state.

put_pushed_request(s, req) ==
    Ret([s EXCEPT !.oauth_par = InsertOrReplace(@, {"hash"}, req)], "Ok")

\* get_pushed_request with the other comparison.
get_pushed_request_Inclusive(s, hash, now) ==
    {r \in s.oauth_par : r.hash = hash /\ r.expires >= now}

get_pushed_request(s, hash, now) ==
    {r \in s.oauth_par : r.hash = hash /\ r.expires > now}

delete_pushed_request(s, hash) ==
    Ret([s EXCEPT !.oauth_par = {r \in @ : r.hash # hash}], "Ok")

put_auth_code(s, code) ==
    Ret([s EXCEPT !.oauth_auth_codes = InsertOrReplace(@, {"hash"}, code)], "Ok")

\* SELECT the unexpired row, DELETE in any case, one transaction.
consume_auth_code(s, hash, now) ==
    Ret([s EXCEPT !.oauth_auth_codes = {c \in @ : c.hash # hash}],
        {c \in s.oauth_auth_codes : c.hash = hash /\ c.expires > now})

put_refresh_token(s, token) ==
    Ret([s EXCEPT !.oauth_refresh_tokens =
            {r \in @ : r.rec.hash # token.hash} \cup {[rec |-> token, used |-> FALSE]}],
        "Ok")

\* SELECT the unexpired row and mark it, one transaction.
consume_refresh_token(s, hash, now) ==
    LET rows == {r \in s.oauth_refresh_tokens : r.rec.hash = hash /\ r.rec.expires > now}
        row == CHOOSE r \in rows : TRUE
    IN  CASE rows = {} -> Ret(s, <<"NotFound">>)
          [] rows # {} /\ row.used -> Ret(s, <<"Reused", row.rec.sid>>)
          [] OTHER -> Ret([s EXCEPT !.oauth_refresh_tokens =
                                (@ \ {row}) \cup {[row EXCEPT !.used = TRUE]}],
                          <<"Consumed", row.rec>>)

revoke_session(s, sid) ==
    LET gone == {r \in s.oauth_refresh_tokens : r.rec.sid = sid}
    IN  Ret([s EXCEPT !.oauth_refresh_tokens = @ \ gone], Cardinality(gone))

revoke_refresh_token(s, hash) ==
    LET sids == {r.rec.sid : r \in {t \in s.oauth_refresh_tokens : t.rec.hash = hash}}
    IN  Ret([s EXCEPT !.oauth_refresh_tokens = {r \in @ : r.rec.sid \notin sids}],
            sids # {})

\* ORDER BY issued_at DESC leaves tokens of one instant in any order.
list_sessions_for_did(s, did, now) ==
    LET live == {t \in s.oauth_refresh_tokens :
                    t.rec.did = did /\ t.rec.expires > now /\ ~t.used}
    IN  {Reverse(q) : q \in Orders({r.rec : r \in live}, "issued")}

\* ON CONFLICT DO NOTHING; the answer is the number of rows inserted.
record_dpop_jti(s, jti, expires) ==
    LET row == [jti |-> jti, expires |-> expires]
    IN  Ret([s EXCEPT !.oauth_dpop_jti = InsertOrIgnore(@, {"jti"}, row)],
            ~Conflict(s.oauth_dpop_jti, {"jti"}, row))

purge_expired(s, now) ==
    LET par == {r \in s.oauth_par : r.expires <= now}
        codes == {r \in s.oauth_auth_codes : r.expires <= now}
        refresh == {r \in s.oauth_refresh_tokens : r.rec.expires <= now}
        jti == {r \in s.oauth_dpop_jti : r.expires <= now}
    IN  Ret([s EXCEPT !.oauth_par = @ \ par, !.oauth_auth_codes = @ \ codes,
                      !.oauth_refresh_tokens = @ \ refresh, !.oauth_dpop_jti = @ \ jti],
            Cardinality(par) + Cardinality(codes) + Cardinality(refresh)
                + Cardinality(jti))

-----------------------------------------------------------------------------
\* The conformance suite over this backend.
Suite == INSTANCE Conformance
=============================================================================
