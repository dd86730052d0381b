--------------------------- MODULE StorageBackends ---------------------------
(***************************************************************************)
(* The three implementations of StorageBackend side by side: every call is *)
(* made of all three, at the same time of the same clock.  The rest of the *)
(* server holds an Arc<dyn StorageBackend> and must not be able to tell    *)
(* which one it has.  The trait's domains share no state, so a behaviour   *)
(* exercises one of them.                                                  *)
(***************************************************************************)
EXTENDS StorageTypes

CONSTANTS Dids, Cids, Handles, Codes, Hashes, Sids, MaxTime, MaxSeq, MaxUses, Domains

ASSUME StorageAssumption ==
    /\ Dids \subseteq Nat /\ Cids \subseteq Nat \ {0} /\ Hashes \subseteq Nat
    /\ MaxTime \in Nat /\ MaxSeq \in Nat /\ MaxUses \in Nat
    /\ Domains \subseteq {"repo", "accounts", "invites", "blobs", "grants", "tokens"}

Mem == INSTANCE MemoryStore
Sql == INSTANCE SqliteStore
Do == INSTANCE DoStore

VARIABLES
    mem, sql, do,   \* the three stores
    answers,        \* what each answered to the last call
    variants,       \* the variant of the error each answered it with
    issued,         \* hashes of the secrets made so far
    won,            \* what has been redeemed or accepted so far
    again,          \* what was redeemed or accepted when it already had been
    clock, domain

vars == <<mem, sql, do, answers, variants, issued, won, again, clock, domain>>
spent == <<won, again>>

Init ==
    /\ mem = Mem!Empty /\ sql = Sql!Empty /\ do = Do!Empty
    /\ answers = <<>> /\ variants = <<>> /\ issued = {} /\ won = {} /\ again = {} /\ clock = 0
    /\ domain \in Domains

\* One call of the trait, made of all three backends.
Calls(m, q, d) ==
    /\ mem' = m.store /\ sql' = q.store /\ do' = d.store
    /\ answers' = <<m.answer, q.answer, d.answer>>
    /\ variants' = <<m.variant, q.variant, d.variant>>
    /\ UNCHANGED <<clock, domain>>

Call(m, q, d) == Calls(m, q, d) /\ UNCHANGED <<issued, spent>>

\* A call that stores a fresh random secret: its hash is put once.
Issue(hash, m, q, d) ==
    /\ hash \notin issued /\ issued' = issued \cup {hash}
    /\ Calls(m, q, d) /\ UNCHANGED spent

\* A call that spends something: key names it, and success is remembered.
Spend(key, success(_), m, q, d) ==
    LET ok == success(m.answer) \/ success(q.answer) \/ success(d.answer)
    IN  /\ Calls(m, q, d)
        /\ won' = IF ok THEN won \cup {key} ELSE won
        /\ again' = IF ok /\ key \in won THEN again \cup {key} ELSE again
        /\ UNCHANGED issued

-----------------------------------------------------------------------------
\* RepoStore

PutBlock(cid) ==
    /\ domain = "repo"
    /\ Call(Mem!put_block(mem, cid), Sql!put_block(sql, cid), Do!put_block(do, cid))

CommitBlocks(blocks, did, root) ==
    /\ domain = "repo" /\ root \in blocks /\ mem.next_seq < MaxSeq
    /\ Call(Mem!commit_blocks(mem, blocks, did, root, root),
            Sql!commit_blocks(sql, blocks, did, root, root),
            Do!commit_blocks(do, blocks, did, root, root))

UpdateRepoRoot(did, root) ==
    /\ domain = "repo"
    /\ Call(Mem!update_repo_root(mem, did, root), Sql!update_repo_root(sql, did, root),
            Do!update_repo_root(do, did, root))

\* AccountStore

InsertAccount(did, handle, phc) ==
    /\ domain = "accounts"
    /\ Call(Mem!insert_account(mem, did, handle, phc, clock),
            Sql!insert_account(sql, did, handle, phc, clock),
            Do!insert_account(do, did, handle, phc, clock))

CountAndInsertAccount(did, handle, phc) ==
    /\ domain = "accounts"
    /\ Call(Mem!count_and_insert_account(mem, did, handle, phc, clock),
            Sql!count_and_insert_account(sql, did, handle, phc, clock),
            Do!count_and_insert_account(do, did, handle, phc, clock))

UpdatePassword(did, phc) ==
    /\ domain = "accounts"
    /\ Call(Mem!update_password(mem, did, phc), Sql!update_password(sql, did, phc),
            Do!update_password(do, did, phc))

SetTakedown(did, ref) ==
    /\ domain = "accounts"
    /\ Call(Mem!set_takedown(mem, did, ref), Sql!set_takedown(sql, did, ref),
            Do!set_takedown(do, did, ref))

ClearTakedown(did) ==
    /\ domain = "accounts"
    /\ Call(Mem!clear_takedown(mem, did), Sql!clear_takedown(sql, did),
            Do!clear_takedown(do, did))

InsertInvite(code, uses) ==
    /\ domain = "invites"
    /\ Call(Mem!insert_invite(mem, code, uses), Sql!insert_invite(sql, code, uses),
            Do!insert_invite(do, code, uses))

ConsumeInvite(code, did) ==
    /\ domain = "invites"
    /\ Spend(<<"invite", code, did>>, LAMBDA a : a,
             Mem!consume_invite(mem, code, did), Sql!consume_invite(sql, code, did),
             Do!consume_invite(do, code, did))

UpsertPreferences(did, prefs) ==
    /\ domain = "invites"
    /\ Call(Mem!upsert_preferences(mem, did, prefs), Sql!upsert_preferences(sql, did, prefs),
            Do!upsert_preferences(do, did, prefs))

\* KeyStore and BlobStore

PutKeyBlob(id, c) ==
    /\ domain = "blobs"
    /\ Call(Mem!put_key_blob(mem, id, c), Sql!put_key_blob(sql, id, c),
            Do!put_key_blob(do, id, c))

PutBlob(did, cid, mime) ==
    /\ domain = "blobs"
    /\ Call(Mem!put_blob(mem, did, cid, mime), Sql!put_blob(sql, did, cid, mime),
            Do!put_blob(do, did, cid, mime))

\* The Durable Object stops between R2 and the metadata row: nobody answers.
PutBlobCut(did, cid) ==
    /\ domain = "blobs" /\ <<did, cid>> \notin do.r2
    /\ do' = Do!put_object(do, did, cid)
    /\ answers' = <<>> /\ variants' = <<>>
    /\ UNCHANGED <<mem, sql, issued, spent, clock, domain>>

\* OAuthStore

PutPushedRequest(hash, ttl) ==
    /\ domain = "grants"
    /\ LET req == [hash |-> hash, expires |-> clock + ttl]
       IN  Issue(<<"par", hash>>, Mem!put_pushed_request(mem, req),
                 Sql!put_pushed_request(sql, req), Do!put_pushed_request(do, req))

DeletePushedRequest(hash) ==
    /\ domain = "grants"
    /\ Call(Mem!delete_pushed_request(mem, hash), Sql!delete_pushed_request(sql, hash),
            Do!delete_pushed_request(do, hash))

PutAuthCode(hash, ttl) ==
    /\ domain = "grants"
    /\ LET code == [hash |-> hash, did |-> Min(Dids), expires |-> clock + ttl]
       IN  Issue(<<"code", hash>>, Mem!put_auth_code(mem, code),
                 Sql!put_auth_code(sql, code), Do!put_auth_code(do, code))

ConsumeAuthCode(hash) ==
    /\ domain = "grants"
    /\ Spend(<<"code", hash>>, LAMBDA a : a # {},
             Mem!consume_auth_code(mem, hash, clock), Sql!consume_auth_code(sql, hash, clock),
             Do!consume_auth_code(do, hash, clock))

RecordDpopJti(jti, ttl) ==
    /\ domain = "grants"
    /\ Spend(<<"jti", jti>>, LAMBDA a : a,
             Mem!record_dpop_jti(mem, jti, clock + ttl),
             Sql!record_dpop_jti(sql, jti, clock + ttl),
             Do!record_dpop_jti(do, jti, clock + ttl))

PutRefreshToken(hash, sid, did, ttl) ==
    /\ domain = "tokens"
    /\ LET token == [hash |-> hash, sid |-> sid, did |-> did, issued |-> clock,
                     expires |-> clock + ttl]
       IN  Issue(<<"token", hash>>, Mem!put_refresh_token(mem, token),
                 Sql!put_refresh_token(sql, token), Do!put_refresh_token(do, token))

ConsumeRefreshToken(hash) ==
    /\ domain = "tokens"
    /\ Spend(<<"token", hash>>, LAMBDA a : a[1] = "Consumed",
             Mem!consume_refresh_token(mem, hash, clock),
             Sql!consume_refresh_token(sql, hash, clock),
             Do!consume_refresh_token(do, hash, clock))

RevokeSession(sid) ==
    /\ domain = "tokens"
    /\ Call(Mem!revoke_session(mem, sid), Sql!revoke_session(sql, sid),
            Do!revoke_session(do, sid))

RevokeRefreshToken(hash) ==
    /\ domain = "tokens"
    /\ Call(Mem!revoke_refresh_token(mem, hash), Sql!revoke_refresh_token(sql, hash),
            Do!revoke_refresh_token(do, hash))

\* A purge forgets the proof ids that have expired; they may come again.
PurgeExpired ==
    /\ domain \in {"grants", "tokens"}
    /\ Calls(Mem!purge_expired(mem, clock), Sql!purge_expired(sql, clock),
             Do!purge_expired(do, clock))
    /\ won' = won \ {<<"jti", r.jti>> : r \in {t \in sql.oauth_dpop_jti : t.expires <= clock}}
    /\ UNCHANGED <<issued, again>>

Tick ==
    /\ clock < MaxTime /\ domain \in {"accounts", "grants", "tokens"}
    /\ clock' = clock + 1 /\ answers' = <<>> /\ variants' = <<>>
    /\ UNCHANGED <<mem, sql, do, issued, spent, domain>>

Next ==
    \/ \E cid \in Cids : PutBlock(cid)
    \/ \E blocks \in SUBSET Cids, did \in Dids, root \in Cids : CommitBlocks(blocks, did, root)
    \/ \E did \in Dids, root \in Cids : UpdateRepoRoot(did, root)
    \/ \E did \in Dids, handle \in Handles, phc \in {"p", "q"} :
            InsertAccount(did, handle, phc) \/ CountAndInsertAccount(did, handle, phc)
    \/ \E did \in Dids, phc \in {"p", "q"} : UpdatePassword(did, phc)
    \/ \E did \in Dids, ref \in {"", "spam"} : SetTakedown(did, ref)
    \/ \E did \in Dids : ClearTakedown(did)
    \/ \E code \in Codes, uses \in 0 .. MaxUses : InsertInvite(code, uses)
    \/ \E code \in Codes, did \in Dids : ConsumeInvite(code, did)
    \/ \E did \in Dids, prefs \in {"v", "w"} : UpsertPreferences(did, prefs)
    \/ \E id \in {"signing", "rotation"}, c \in {"c1", "c2"} : PutKeyBlob(id, c)
    \/ \E did \in Dids, cid \in Cids, mime \in {"png", "jpeg"} : PutBlob(did, cid, mime)
    \/ \E did \in Dids, cid \in Cids : PutBlobCut(did, cid)
    \/ \E hash \in Hashes, ttl \in {1, 2} :
            PutPushedRequest(hash, ttl) \/ PutAuthCode(hash, ttl) \/ RecordDpopJti(hash, ttl)
    \/ \E hash \in Hashes : DeletePushedRequest(hash) \/ ConsumeAuthCode(hash)
    \/ \E hash \in Hashes, sid \in Sids, did \in Dids, ttl \in {1, 2} :
            PutRefreshToken(hash, sid, did, ttl)
    \/ \E hash \in Hashes : ConsumeRefreshToken(hash) \/ RevokeRefreshToken(hash)
    \/ \E sid \in Sids : RevokeSession(sid)
    \/ PurgeExpired
    \/ Tick

Spec == Init /\ [][Next]_vars

-----------------------------------------------------------------------------
\* The shape of the three stores: rows with their keys, counters in bounds,
\* answers of all three or of none.
TypeOK ==
    /\ mem.next_seq \in 0 .. MaxSeq /\ sql.autoinc \in 0 .. MaxSeq
    /\ do.seq_counter \in 0 .. MaxSeq
    /\ DOMAIN mem.accounts \subseteq Dids
    /\ \A t \in {sql.accounts, do.accounts} :
            \A a, b \in t : (a.did = b.did \/ a.handle = b.handle) => a = b
    /\ Len(answers) \in {0, 3} /\ clock \in 0 .. MaxTime /\ domain \in Domains

\* Whatever calls came before, the three backends answer a call alike: the
\* same row counts, seqs, refusals, and the same verdict of a single-use check.  The
\* variant of an error is the same in memory and in the Durable Object; SQLite's
\* differs (see ConstraintIsNeutral), and no caller looks at it.
SameAnswers ==
    answers # <<>> =>
        answers[1] = answers[2] /\ answers[2] = answers[3] /\ variants[1] = variants[3]

\* storage/mod.rs: Constraint is "backend-neutral so callers can distinguish "this row
\* already exists" from a genuine backend failure".  SQLite answers a row that already
\* exists with the variant of any other failure.
ConstraintIsNeutral == variants # <<>> => variants[1] = variants[2]

\* After the same calls every read agrees.  A listing that SQLite leaves
\* unordered between equal times contains what the other two return.
SameReads ==
    /\ \A cid \in Cids :
          /\ Mem!read_block_bytes(mem, cid) = Sql!read_block_bytes(sql, cid)
          /\ Do!read_block_bytes(do, cid) = Sql!read_block_bytes(sql, cid)
    /\ Mem!max_seq(mem) = Sql!max_seq(sql) /\ Do!max_seq(do) = Sql!max_seq(sql)
    /\ \A after \in 0 .. MaxSeq, limit \in 1 .. MaxSeq :
          /\ Mem!backfill_page(mem, after, limit) = Sql!backfill_page(sql, after, limit)
          /\ Do!backfill_page(do, after, limit) = Sql!backfill_page(sql, after, limit)
    /\ \A did \in Dids :
          /\ Mem!load_repo_root(mem, did) = Sql!load_repo_root(sql, did)
          /\ Do!load_repo_root(do, did) = Sql!load_repo_root(sql, did)
          /\ Mem!get_handle_by_did(mem, did) = Sql!get_handle_by_did(sql, did)
          /\ Do!get_handle_by_did(do, did) = Sql!get_handle_by_did(sql, did)
          /\ Mem!get_preferences(mem, did) = Sql!get_preferences(sql, did)
          /\ Do!get_preferences(do, did) = Sql!get_preferences(sql, did)
          /\ Mem!list_sessions_for_did(mem, did, clock)
                \cup Do!list_sessions_for_did(do, did, clock)
                \subseteq Sql!list_sessions_for_did(sql, did, clock)
          /\ \A cid \in Cids :
                /\ Mem!get_blob(mem, did, cid) = Sql!get_blob(sql, did, cid)
                /\ Do!get_blob(do, did, cid) = Sql!get_blob(sql, did, cid)
          /\ \A limit \in 1 .. Cardinality(Cids), cursor \in Cids \cup {0} :
                /\ Mem!list_blobs(mem, did, limit, cursor) = Sql!list_blobs(sql, did, limit, cursor)
                /\ Do!list_blobs(do, did, limit, cursor) = Sql!list_blobs(sql, did, limit, cursor)
    /\ \A handle \in Handles :
          /\ Mem!get_account_by_handle(mem, handle) = Sql!get_account_by_handle(sql, handle)
          /\ Do!get_account_by_handle(do, handle) = Sql!get_account_by_handle(sql, handle)
          /\ Mem!get_did_by_handle(mem, handle) = Sql!get_did_by_handle(sql, handle)
          /\ Do!get_did_by_handle(do, handle) = Sql!get_did_by_handle(sql, handle)
    /\ Mem!count_accounts(mem) = Sql!count_accounts(sql)
    /\ Do!count_accounts(do) = Sql!count_accounts(sql)
    /\ Mem!list_accounts(mem) \cup Do!list_accounts(do) \subseteq Sql!list_accounts(sql)
    /\ \A id \in {"signing", "rotation"} :
          /\ Mem!get_key_blob(mem, id) = Sql!get_key_blob(sql, id)
          /\ Do!get_key_blob(do, id) = Sql!get_key_blob(sql, id)
    /\ \A hash \in Hashes :
          /\ Mem!get_pushed_request(mem, hash, clock) = Sql!get_pushed_request(sql, hash, clock)
          /\ Do!get_pushed_request(do, hash, clock) = Sql!get_pushed_request(sql, hash, clock)

\* The three backends cannot be told apart by the calls and the reads that a server
\* makes of them, which is what lets one core run on all three (store.rs), as long as it
\* does not look at SQLite's variant of an error; each keeps its keys unique and its
\* counters in bounds.
Indistinguishable == TypeOK /\ SameAnswers /\ SameReads

\* No backend redeems an authorization code, a refresh token or an account's
\* use of an invite twice, nor accepts a proof id again before it expired:
\* whatever was rotated, revoked or purged in between.
SingleUse == again = {}

\* Wherever the stores are fresh, as the suite's factory makes them, every
\* test passes on all three: the Durable Object's included, which the
\* repository cannot run it on.
Conforms ==
    mem = Mem!Empty /\ sql = Sql!Empty /\ do = Do!Empty =>
        Mem!Suite!Passes /\ Sql!Suite!Passes /\ Do!Suite!Passes

=============================================================================
