----------------------------- MODULE Conformance -----------------------------
(***************************************************************************)
(* rust-core/src/storage/conformance.rs: the suite that every backend must *)
(* pass.  A test is a predicate over the backend's methods; a backend      *)
(* takes the suite with INSTANCE, as it invokes the macro in the code.     *)
(* Hashes, CIDs and DIDs are numbers, bytes are their CID.                 *)
(***************************************************************************)
EXTENDS StorageTypes

CONSTANTS
    Empty,
    put_block(_, _), read_block_bytes(_, _), load_repo_root(_, _),
    update_repo_root(_, _, _), commit_blocks(_, _, _, _, _), max_seq(_),
    backfill_page(_, _, _),
    insert_account(_, _, _, _, _), count_and_insert_account(_, _, _, _, _),
    count_accounts(_), get_account_by_handle(_, _), get_did_by_handle(_, _),
    get_handle_by_did(_, _), list_accounts(_), update_password(_, _, _),
    set_takedown(_, _, _), clear_takedown(_, _),
    insert_invite(_, _, _), consume_invite(_, _, _),
    upsert_preferences(_, _, _), get_preferences(_, _),
    put_key_blob(_, _, _), get_key_blob(_, _),
    put_blob(_, _, _, _), get_blob(_, _, _), list_blobs(_, _, _, _),
    put_pushed_request(_, _), get_pushed_request(_, _, _),
    delete_pushed_request(_, _), put_auth_code(_, _), consume_auth_code(_, _, _),
    put_refresh_token(_, _), consume_refresh_token(_, _, _),
    revoke_session(_, _), revoke_refresh_token(_, _),
    list_sessions_for_did(_, _, _), record_dpop_jti(_, _, _), purge_expired(_, _)

-----------------------------------------------------------------------------
\* Blocks, commits, roots, sequencer.

block_roundtrip_and_missing ==
    LET s == put_block(Empty, 1).store
    IN  read_block_bytes(s, 1) = {1} /\ read_block_bytes(s, 2) = {}

put_block_is_idempotent ==
    LET r == put_block(put_block(Empty, 1).store, 1)
    IN  r.answer = "Ok" /\ read_block_bytes(r.store, 1) = {1}

empty_repo_has_no_root == load_repo_root(Empty, 1) = {}

commit_sets_root_and_returns_increasing_seq ==
    LET a == commit_blocks(Empty, {1}, 1, 1, "e")
        b == commit_blocks(a.store, {2}, 1, 2, "e")
    IN  /\ a.answer > 0 /\ load_repo_root(a.store, 1) = {1}
        /\ b.answer = a.answer + 1 /\ load_repo_root(b.store, 1) = {2}

commit_persists_blocks_and_event_body ==
    LET r == commit_blocks(Empty, {1}, 1, 1, "e")
    IN  /\ read_block_bytes(r.store, 1) = {1}
        /\ backfill_page(r.store, r.answer - 1, 10)[1].event = "e"

max_seq_starts_at_zero_and_tracks_commits ==
    LET r == commit_blocks(Empty, {1}, 1, 1, "e")
    IN  max_seq(Empty) = 0 /\ max_seq(r.store) = r.answer

backfill_is_ordered_and_paged ==
    LET a == commit_blocks(Empty, {1}, 1, 1, "e1")
        b == commit_blocks(a.store, {2}, 1, 2, "e2")
        c == commit_blocks(b.store, {3}, 1, 3, "e3")
        d == commit_blocks(c.store, {4}, 1, 4, "e4")
        all == backfill_page(d.store, 0, 500)
        page1 == backfill_page(d.store, 0, 2)
        page2 == backfill_page(d.store, page1[2].seq, 500)
    IN  /\ all = <<[seq |-> a.answer, event |-> "e1"], [seq |-> b.answer, event |-> "e2"],
                   [seq |-> c.answer, event |-> "e3"], [seq |-> d.answer, event |-> "e4"]>>
        /\ Len(page1) = 2 /\ Len(page2) = 2 /\ page2[1].seq = c.answer

update_repo_root_overwrites ==
    LET a == update_repo_root(Empty, 1, 1).store
        b == update_repo_root(a, 1, 2).store
    IN  load_repo_root(a, 1) = {1} /\ load_repo_root(b, 1) = {2}

-----------------------------------------------------------------------------
\* Accounts.

account_insert_and_lookups ==
    LET s == insert_account(Empty, 1, "alice", "phc-a", 0).store
    IN  /\ get_account_by_handle(s, "alice") = {<<1, "phc-a">>}
        /\ get_did_by_handle(s, "alice") = {1} /\ get_handle_by_did(s, 1) = {"alice"}
        /\ get_did_by_handle(s, "nobody") = {} /\ get_handle_by_did(s, 2) = {}

duplicate_did_is_rejected ==
    LET s == insert_account(Empty, 1, "first", "phc", 0).store
    IN  insert_account(s, 1, "second", "phc", 0).answer = Err

duplicate_handle_is_rejected ==
    LET s == insert_account(Empty, 1, "taken", "phc", 0).store
    IN  insert_account(s, 2, "taken", "phc", 0).answer = Err

count_and_insert_returns_prior_count ==
    LET a == count_and_insert_account(Empty, 1, "c1", "phc", 0)
        b == count_and_insert_account(a.store, 2, "c2", "phc", 0)
    IN  /\ count_accounts(Empty) = 0 /\ a.answer = Ok(0) /\ b.answer = Ok(1)
        /\ count_accounts(b.store) = 2

failed_insert_leaves_backend_usable ==
    LET a == count_and_insert_account(Empty, 1, "first", "phc-1", 0)
        b == count_and_insert_account(a.store, 1, "second", "phc-2", 0)
        c == count_and_insert_account(b.store, 2, "fresh", "phc-3", 0)
    IN  b.answer = Err /\ c.answer = Ok(1)

takedown_hides_from_auth_lookups_and_clears ==
    LET s == insert_account(Empty, 1, "target", "phc", 0).store
        down == set_takedown(s, 1, "spam-42")
        up == clear_takedown(down.store, 1)
    IN  /\ get_handle_by_did(s, 1) # {} /\ down.answer = 1
        /\ get_handle_by_did(down.store, 1) = {} /\ get_did_by_handle(down.store, "target") = {}
        /\ get_account_by_handle(down.store, "target") = {}
        /\ up.answer = 1 /\ get_handle_by_did(up.store, 1) # {}

takedown_with_empty_reference_still_takes_effect ==
    LET down == set_takedown(insert_account(Empty, 1, "empty", "phc", 0).store, 1, "")
    IN  down.answer = 1 /\ get_handle_by_did(down.store, 1) = {}

takedown_on_unknown_did_affects_zero_rows ==
    set_takedown(Empty, 1, "x").answer = 0 /\ clear_takedown(Empty, 1).answer = 0

update_password_replaces_hash ==
    LET r == update_password(insert_account(Empty, 1, "bob", "old", 0).store, 1, "new")
    IN  /\ r.answer = 1 /\ get_account_by_handle(r.store, "bob") = {<<1, "new">>}
        /\ update_password(r.store, 2, "x").answer = 0

list_accounts_includes_taken_down_in_creation_order ==
    LET a == insert_account(Empty, 1, "l1", "phc", 0).store
        b == insert_account(a, 2, "l2", "phc", 1).store
    IN  \A q \in list_accounts(set_takedown(b, 2, "reason").store) :
            /\ Len(q) = 2 /\ q[1].did = 1 /\ q[2].did = 2
            /\ q[2].takedown = "reason"

-----------------------------------------------------------------------------
\* Invites, preferences.

invite_consumes_once_per_did ==
    LET a == consume_invite(insert_invite(Empty, "code", 1).store, "code", 1)
    IN  /\ a.answer /\ ~consume_invite(a.store, "code", 1).answer
        /\ ~consume_invite(a.store, "code", 2).answer

invite_with_multiple_uses_serves_distinct_dids ==
    LET a == consume_invite(insert_invite(Empty, "code", 2).store, "code", 1)
        b == consume_invite(a.store, "code", 2)
    IN  a.answer /\ b.answer /\ ~consume_invite(b.store, "code", 3).answer

unknown_invite_is_false_not_error == consume_invite(Empty, "never", 1).answer = FALSE

preferences_round_trip_and_overwrite ==
    LET a == upsert_preferences(Empty, 1, "v1").store
    IN  /\ get_preferences(Empty, 1) = {} /\ get_preferences(a, 1) = {"v1"}
        /\ get_preferences(upsert_preferences(a, 1, "v2").store, 1) = {"v2"}

-----------------------------------------------------------------------------
\* Keys and blobs.

key_blob_round_trip ==
    LET a == put_key_blob(Empty, "signing", "c1").store
    IN  /\ get_key_blob(Empty, "signing") = {} /\ get_key_blob(a, "signing") = {"c1"}
        /\ get_key_blob(put_key_blob(a, "signing", "c2").store, "signing") = {"c2"}

\* Inserted out of order; a page resumes after its cursor.
list_blobs_paginates_in_cid_order_and_is_did_scoped ==
    LET a == put_blob(Empty, 1, 3, "png").store
        b == put_blob(a, 1, 1, "png").store
        c == put_blob(b, 1, 4, "png").store
        d == put_blob(c, 1, 2, "png").store
        s == put_blob(d, 2, 1, "png").store
    IN  /\ list_blobs(s, 1, 50, 0) = <<1, 2, 3, 4>>
        /\ list_blobs(s, 1, 2, 0) = <<1, 2>>
        /\ list_blobs(s, 1, 2, 2) = <<3, 4>>
        /\ list_blobs(s, 1, 2, 4) = <<>>
        /\ list_blobs(s, 2, 50, 0) = <<1>>
        /\ list_blobs(s, 3, 50, 0) = <<>>

list_blobs_is_empty_for_an_account_with_none == list_blobs(Empty, 1, 50, 0) = <<>>

blob_round_trip_scoped_per_did ==
    LET a == put_blob(Empty, 1, 1, "png").store
    IN  /\ get_blob(Empty, 1, 1) = {} /\ get_blob(a, 1, 1) = {"png"}
        /\ get_blob(a, 2, 1) = {}
        /\ get_blob(put_blob(a, 1, 1, "jpeg").store, 1, 1) = {"jpeg"}

-----------------------------------------------------------------------------
\* OAuth.

par(hash, expires) == [hash |-> hash, expires |-> expires]
code(hash, expires) == [hash |-> hash, did |-> 1, expires |-> expires]
refresh(hash, sid, did, expires) ==
    [hash |-> hash, sid |-> sid, did |-> did, issued |-> 1, expires |-> expires]

pushed_request_round_trip_and_expiry ==
    LET s == put_pushed_request(Empty, par(1, 10)).store
    IN  /\ get_pushed_request(Empty, 1, 1) = {}
        /\ get_pushed_request(s, 1, 1) = {par(1, 10)}
        /\ get_pushed_request(s, 1, 11) = {}
        /\ get_pushed_request(delete_pushed_request(s, 1).store, 1, 1) = {}

auth_code_is_single_use ==
    LET a == consume_auth_code(put_auth_code(Empty, code(1, 10)).store, 1, 1)
    IN  a.answer = {code(1, 10)} /\ consume_auth_code(a.store, 1, 1).answer = {}

\* Eight tasks, whose calls are atomic and so come one after the other.
concurrent_auth_code_redemption_yields_one_winner ==
    LET redeem(t, i) == LET r == consume_auth_code(t.store, 1, 1)
                        IN  [store |-> r.store, wins |-> t.wins + Cardinality(r.answer)]
        start == [store |-> put_auth_code(Empty, code(1, 10)).store, wins |-> 0]
    IN  FoldLeft(redeem, start, [i \in 1 .. 8 |-> i]).wins = 1

expired_and_unknown_auth_codes_are_not_redeemable ==
    /\ consume_auth_code(Empty, 1, 1).answer = {}
    /\ consume_auth_code(put_auth_code(Empty, code(2, 5)).store, 2, 6).answer = {}

refresh_token_rotation_detects_reuse ==
    LET a == consume_refresh_token(put_refresh_token(Empty, refresh(1, "s", 1, 10)).store, 1, 2)
    IN  /\ a.answer = <<"Consumed", refresh(1, "s", 1, 10)>>
        /\ consume_refresh_token(a.store, 1, 2).answer = <<"Reused", "s">>

unknown_and_expired_refresh_tokens_are_not_found ==
    /\ consume_refresh_token(Empty, 1, 2).answer = <<"NotFound">>
    /\ consume_refresh_token(put_refresh_token(Empty, refresh(1, "s", 1, 5)).store, 1, 6).answer
            = <<"NotFound">>

revoking_a_session_kills_every_token_in_the_chain ==
    LET a == put_refresh_token(Empty, refresh(1, "a", 1, 10)).store
        b == put_refresh_token(a, refresh(2, "a", 1, 10)).store
        r == revoke_session(put_refresh_token(b, refresh(3, "b", 1, 10)).store, "a")
    IN  /\ r.answer = 2
        /\ consume_refresh_token(r.store, 2, 2).answer = <<"NotFound">>
        /\ consume_refresh_token(r.store, 3, 2).answer[1] = "Consumed"

revoking_one_token_revokes_its_chain ==
    LET a == put_refresh_token(Empty, refresh(1, "c", 1, 10)).store
        r == revoke_refresh_token(put_refresh_token(a, refresh(2, "c", 1, 10)).store, 1)
    IN  /\ r.answer /\ consume_refresh_token(r.store, 2, 2).answer = <<"NotFound">>
        /\ ~revoke_refresh_token(r.store, 9).answer

list_sessions_shows_only_live_unused_tokens_for_the_did ==
    LET a == put_refresh_token(Empty, refresh(1, "s1", 1, 10)).store
        b == put_refresh_token(a, refresh(2, "s2", 1, 10)).store
        s == put_refresh_token(b, refresh(3, "s3", 2, 10)).store
        count(t, now) == {Len(q) : q \in list_sessions_for_did(t, 1, now)}
    IN  /\ count(s, 2) = {2} /\ count(s, 50) = {0}
        /\ count(consume_refresh_token(s, 1, 2).store, 2) = {1}

dpop_jti_is_recorded_once ==
    LET a == record_dpop_jti(Empty, 1, 10)
    IN  /\ a.answer /\ ~record_dpop_jti(a.store, 1, 10).answer
        /\ record_dpop_jti(a.store, 2, 10).answer

concurrent_dpop_jti_yields_one_winner ==
    LET record(t, i) == LET r == record_dpop_jti(t.store, 1, 10)
                        IN  [store |-> r.store, wins |-> t.wins + (IF r.answer THEN 1 ELSE 0)]
    IN  FoldLeft(record, [store |-> Empty, wins |-> 0], [i \in 1 .. 8 |-> i]).wins = 1

purge_removes_only_expired_records ==
    LET a == put_pushed_request(put_pushed_request(Empty, par(1, 1)).store, par(2, 99)).store
        b == put_auth_code(put_auth_code(a, code(1, 1)).store, code(2, 99)).store
        c == put_refresh_token(b, refresh(1, "s", 1, 1)).store
        d == put_refresh_token(c, refresh(2, "s", 1, 99)).store
        e == record_dpop_jti(record_dpop_jti(d, 1, 1).store, 2, 99).store
        p == purge_expired(e, 5)
    IN  /\ p.answer = 4
        /\ get_pushed_request(p.store, 2, 5) # {}
        /\ consume_auth_code(p.store, 2, 5).answer # {}
        /\ consume_refresh_token(p.store, 2, 5).answer[1] = "Consumed"
        /\ record_dpop_jti(p.store, 1, 99).answer
        /\ ~record_dpop_jti(p.store, 2, 99).answer

-----------------------------------------------------------------------------
\* The whole suite.
Passes ==
    /\ block_roundtrip_and_missing /\ put_block_is_idempotent /\ empty_repo_has_no_root
    /\ commit_sets_root_and_returns_increasing_seq
    /\ commit_persists_blocks_and_event_body
    /\ max_seq_starts_at_zero_and_tracks_commits
    /\ backfill_is_ordered_and_paged /\ update_repo_root_overwrites
    /\ account_insert_and_lookups /\ duplicate_did_is_rejected
    /\ duplicate_handle_is_rejected /\ count_and_insert_returns_prior_count
    /\ failed_insert_leaves_backend_usable
    /\ takedown_hides_from_auth_lookups_and_clears
    /\ takedown_with_empty_reference_still_takes_effect
    /\ takedown_on_unknown_did_affects_zero_rows /\ update_password_replaces_hash
    /\ list_accounts_includes_taken_down_in_creation_order
    /\ invite_consumes_once_per_did /\ invite_with_multiple_uses_serves_distinct_dids
    /\ unknown_invite_is_false_not_error /\ preferences_round_trip_and_overwrite
    /\ key_blob_round_trip /\ list_blobs_paginates_in_cid_order_and_is_did_scoped
    /\ blob_round_trip_scoped_per_did /\ pushed_request_round_trip_and_expiry
    /\ list_blobs_is_empty_for_an_account_with_none
    /\ concurrent_auth_code_redemption_yields_one_winner
    /\ concurrent_dpop_jti_yields_one_winner
    /\ auth_code_is_single_use /\ expired_and_unknown_auth_codes_are_not_redeemable
    /\ refresh_token_rotation_detects_reuse
    /\ unknown_and_expired_refresh_tokens_are_not_found
    /\ revoking_a_session_kills_every_token_in_the_chain
    /\ revoking_one_token_revokes_its_chain
    /\ list_sessions_shows_only_live_unused_tokens_for_the_did
    /\ dpop_jti_is_recorded_once /\ purge_removes_only_expired_records
=============================================================================
