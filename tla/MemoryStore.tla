----------------------------- MODULE MemoryStore -----------------------------
(***************************************************************************)
(* rust-core/src/storage/memory/mod.rs: hash maps under one mutex, so that *)
(* every method is one step.  Nothing sets deactivated_at, disabled or     *)
(* invalidated, and they are left out.                                     *)
(***************************************************************************)
EXTENDS StorageTypes, TLC, Functions

\* Inner::default.
Empty ==
    [blocks |-> {}, repo_seq |-> <<>>, next_seq |-> 0, repo_roots |-> <<>>,
     accounts |-> <<>>, next_ordinal |-> 0, invites |-> <<>>, invite_uses |-> {},
     keys |-> <<>>, blobs |-> <<>>, prefs |-> <<>>,
     oauth_par |-> <<>>, oauth_codes |-> <<>>, oauth_refresh |-> <<>>,
     oauth_jti |-> <<>>]

\* HashMap::get, insert, remove and retain.
Lookup(map, k) == {map[j] : j \in DOMAIN map \cap {k}}
Put(map, k, v) == (k :> v) @@ map
Forget(map, k) == Restrict(map, DOMAIN map \ {k})
Retain(map, kept) == Restrict(map, DOMAIN map \cap kept)

-----------------------------------------------------------------------------
\* Blocks, roots and the sequencer.

\* Nothing stands for BlockNotFound.
read_block_bytes(s, cid) == s.blocks \cap {cid}

put_block(s, cid) == Ret([s EXCEPT !.blocks = @ \cup {cid}], "Ok")

max_seq(s) == IF s.repo_seq = <<>> THEN 0 ELSE Last(s.repo_seq).seq

backfill_page(s, after_seq, limit) ==
    Take(SelectSeq(s.repo_seq, LAMBDA r : r.seq > after_seq), limit)

load_repo_root(s, did) == Lookup(s.repo_roots, did)

update_repo_root(s, did, root) ==
    Ret([s EXCEPT !.repo_roots = Put(@, did, root)], "Ok")

\* One guard over the blocks, the counter, the row and the root.
commit_blocks(s, blocks, did, root, event) ==
    LET seq == s.next_seq + 1
    IN  Ret([s EXCEPT !.blocks = @ \cup blocks,
                      !.next_seq = seq,
                      !.repo_seq = Append(@, [seq |-> seq, event |-> event]),
                      !.repo_roots = Put(@, did, root)],
            seq)

-----------------------------------------------------------------------------
\* Accounts, invites, preferences.

\* Inner::active and active_by_handle: a taken-down account is not found.
active(s, did) ==
    {d \in DOMAIN s.accounts : d = did /\ s.accounts[d].takedown = None}
active_by_handle(s, handle) ==
    {d \in DOMAIN s.accounts :
        s.accounts[d].handle = handle /\ s.accounts[d].takedown = None}

count_accounts(s) == Cardinality(DOMAIN s.accounts)

\* insert_account_locked: the primary key and the unique handle.
insert_account(s, did, handle, phc, now) ==
    IF \/ did \in DOMAIN s.accounts
       \/ \E d \in DOMAIN s.accounts : s.accounts[d].handle = handle
    THEN Refuse(s, "Constraint")
    ELSE Ret([s EXCEPT !.next_ordinal = @ + 1,
                       !.accounts = Put(@, did,
                            [handle |-> handle, phc |-> phc, created |-> now,
                             takedown |-> None, ordinal |-> s.next_ordinal])],
             Done)

count_and_insert_account(s, did, handle, phc, now) ==
    LET r == insert_account(s, did, handle, phc, now)
    IN  IF r.answer = Err THEN r ELSE Ret(r.store, Ok(count_accounts(s)))

get_account_by_handle(s, handle) ==
    {<<d, s.accounts[d].phc>> : d \in active_by_handle(s, handle)}

get_did_by_handle(s, handle) == active_by_handle(s, handle)

get_handle_by_did(s, did) == {s.accounts[d].handle : d \in active(s, did)}

\* Sorted by creation time, then by insertion.
list_accounts(s) ==
    LET row(d) == [did |-> d, handle |-> s.accounts[d].handle,
                   takedown |-> s.accounts[d].takedown,
                   created |-> s.accounts[d].created]
        dids == SetToSortSeq(DOMAIN s.accounts,
                    LAMBDA a, b : \/ s.accounts[a].created < s.accounts[b].created
                                  \/ /\ s.accounts[a].created = s.accounts[b].created
                                     /\ s.accounts[a].ordinal < s.accounts[b].ordinal)
    IN  {[i \in DOMAIN dids |-> row(dids[i])]}

\* get_mut and an answer of one row or none.
UpdateAccount(s, did, field, value) ==
    IF did \in DOMAIN s.accounts
    THEN Ret([s EXCEPT !.accounts[did][field] = value], 1)
    ELSE Ret(s, 0)

update_password(s, did, phc) == UpdateAccount(s, did, "phc", phc)
set_takedown(s, did, ref) == UpdateAccount(s, did, "takedown", Marker(ref))
clear_takedown(s, did) == UpdateAccount(s, did, "takedown", None)

insert_invite(s, code, uses) ==
    IF code \in DOMAIN s.invites THEN Refuse(s, "Constraint")
    ELSE Ret([s EXCEPT !.invites = Put(@, code, uses)], Done)

\* consume_invite that does not look for an earlier use.
consume_invite_Repeats(s, code, did) ==
    IF code \notin DOMAIN s.invites \/ s.invites[code] <= 0 THEN Ret(s, FALSE)
    ELSE Ret([s EXCEPT !.invite_uses = @ \cup {<<code, did>>},
                       !.invites[code] = @ - 1], TRUE)

consume_invite(s, code, did) ==
    IF \/ code \notin DOMAIN s.invites
       \/ s.invites[code] <= 0
       \/ <<code, did>> \in s.invite_uses
    THEN Ret(s, FALSE)
    ELSE Ret([s EXCEPT !.invite_uses = @ \cup {<<code, did>>},
                       !.invites[code] = @ - 1], TRUE)

upsert_preferences(s, did, prefs) ==
    Ret([s EXCEPT !.prefs = Put(@, did, prefs)], "Ok")

get_preferences(s, did) == Lookup(s.prefs, did)

-----------------------------------------------------------------------------
\* Keys and blobs.

put_key_blob(s, id, c) == Ret([s EXCEPT !.keys = Put(@, id, c)], "Ok")

get_key_blob(s, id) == Lookup(s.keys, id)

put_blob(s, did, cid, mime) ==
    Ret([s EXCEPT !.blobs = Put(@, <<did, cid>>, mime)], "Ok")

get_blob(s, did, cid) == Lookup(s.blobs, <<did, cid>>)

\* The map has no order: collect, sort, skip to the cursor, take a page.
list_blobs(s, did, limit, cursor) ==
    LET cids == {k[2] : k \in {b \in DOMAIN s.blobs : b[1] = did}}
    IN  Take(SelectSeq(SetToSortSeq(cids, <), LAMBDA c : c > cursor), limit)

-----------------------------------------------------------------------------
\* OAuth state.

put_pushed_request(s, req) ==
    Ret([s EXCEPT !.oauth_par = Put(@, req.hash, req)], "Ok")

get_pushed_request(s, hash, now) ==
    {r \in Lookup(s.oauth_par, hash) : r.expires > now}

delete_pushed_request(s, hash) ==
    Ret([s EXCEPT !.oauth_par = Forget(@, hash)], "Ok")

put_auth_code(s, code) ==
    Ret([s EXCEPT !.oauth_codes = Put(@, code.hash, code)], "Ok")

\* Removed first, then decided.
consume_auth_code(s, hash, now) ==
    Ret([s EXCEPT !.oauth_codes = Forget(@, hash)],
        {c \in Lookup(s.oauth_codes, hash) : c.expires > now})

put_refresh_token(s, token) ==
    Ret([s EXCEPT !.oauth_refresh = Put(@, token.hash, [rec |-> token, used |-> FALSE])],
        "Ok")

consume_refresh_token(s, hash, now) ==
    IF hash \notin DOMAIN s.oauth_refresh THEN Ret(s, <<"NotFound">>)
    ELSE LET row == s.oauth_refresh[hash]
         IN  CASE row.rec.expires <= now -> Ret(s, <<"NotFound">>)
               [] row.rec.expires > now /\ row.used -> Ret(s, <<"Reused", row.rec.sid>>)
               [] OTHER -> Ret([s EXCEPT !.oauth_refresh[hash].used = TRUE],
                               <<"Consumed", row.rec>>)

\* retain the other sessions; the answer counts what went.
revoke_session(s, sid) ==
    LET map == s.oauth_refresh
        left == Retain(map, {h \in DOMAIN map : map[h].rec.sid # sid})
    IN  Ret([s EXCEPT !.oauth_refresh = left],
            Cardinality(DOMAIN s.oauth_refresh) - Cardinality(DOMAIN left))

revoke_refresh_token(s, hash) ==
    IF hash \notin DOMAIN s.oauth_refresh THEN Ret(s, FALSE)
    ELSE Ret(revoke_session(s, s.oauth_refresh[hash].rec.sid).store, TRUE)

list_sessions_for_did(s, did, now) ==
    LET live == {r \in Range(s.oauth_refresh) :
                    ~r.used /\ r.rec.did = did /\ r.rec.expires > now}
    IN  {SetToSortSeq({r.rec : r \in live},
            LAMBDA a, b : \/ a.issued > b.issued
                          \/ a.issued = b.issued /\ a.hash < b.hash)}

record_dpop_jti(s, jti, expires) ==
    IF jti \in DOMAIN s.oauth_jti THEN Ret(s, FALSE)
    ELSE Ret([s EXCEPT !.oauth_jti = Put(@, jti, expires)], TRUE)

purge_expired(s, now) ==
    LET par == Retain(s.oauth_par, {u \in DOMAIN s.oauth_par : s.oauth_par[u].expires > now})
        codes == Retain(s.oauth_codes,
                        {c \in DOMAIN s.oauth_codes : s.oauth_codes[c].expires > now})
        refresh == Retain(s.oauth_refresh,
                          {h \in DOMAIN s.oauth_refresh : s.oauth_refresh[h].rec.expires > now})
        jti == Retain(s.oauth_jti, {j \in DOMAIN s.oauth_jti : s.oauth_jti[j] > now})
        size(t) == Cardinality(DOMAIN t)
    IN  Ret([s EXCEPT !.oauth_par = par, !.oauth_codes = codes,
                      !.oauth_refresh = refresh, !.oauth_jti = jti],
            (size(s.oauth_par) + size(s.oauth_codes)
                + size(s.oauth_refresh) + size(s.oauth_jti))
            - (size(par) + size(codes) + size(refresh) + size(jti)))

-----------------------------------------------------------------------------
\* The conformance suite over this backend.
Suite == INSTANCE Conformance
=============================================================================
