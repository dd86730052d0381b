------------------------------ MODULE DpopProofs ------------------------------
(***************************************************************************)
(* OAuth access tokens and the DPoP proofs that go with them, at the        *)
(* resource endpoints of the server binary.  A proof names its request, its *)
(* token, a nonce and a time, and may authorize one request only.           *)
(***************************************************************************)
EXTENDS AccessTasks

CONSTANTS
    NonceWindow,    \* 300 in the code
    MaxProofAge,    \* 300 in the code
    OAuthTtl        \* 3600 in the code

ASSUME DpopAssumption == {NonceWindow, MaxProofAge, OAuthTtl} \subseteq Nat \ {0}

issue_access_token(d, jkt, key, time) ==
    [scope |-> "oauth", sub |-> d, exp |-> time + OAuthTtl, jkt |-> jkt, key |-> key]

verify_access_token(token) ==
    token.scope = "oauth" /\ token.key = proc.as /\ token.exp > now

\* The secret of the nonces outlives the process: a nonce is its window.
nonce_for_window(w) == w

current_nonce(time) == nonce_for_window(time \div NonceWindow)

\* Only the nonce of this window.
nonce_is_valid_Current(nonce) == nonce = nonce_for_window(now \div NonceWindow)

nonce_is_valid(nonce) ==
    LET w == now \div NonceWindow
    IN  \/ nonce = nonce_for_window(w)
        \/ nonce = nonce_for_window(IF w = 0 THEN 0 ELSE w - 1)

\* A proof says what it is for; `learned` is when its client got the nonce.
ProofNonce(p) == {current_nonce(x) : x \in p.learned}

\* |now - iat| <= MaxProofAge.
Fresh(p) == p.iat >= now - MaxProofAge /\ p.iat <= now + MaxProofAge

\* The checks of a proof that need no store.
Verify(t, p) ==
    /\ p.htu = req[t].nsid
    /\ Fresh(p)
    /\ \E n \in ProofNonce(p) : nonce_is_valid(n)
    /\ p.ath \in req[t].token

\* Exactly one proof, a valid token, then the proof's own checks.
CheckProof(t) ==
    LET valid == /\ \A x \in req[t].token : verify_access_token(x)
                 /\ \A p \in req[t].proof : Verify(t, p)
    IN  IF req[t].proof = {} THEN Error(t, "AuthRequired")
        ELSE IF valid THEN Goto(t, "jti") ELSE Error(t, "InvalidToken")

Authorized(t, label) ==
    \E x \in req[t].token, p \in req[t].proof :
        IF p.jkt = x.jkt THEN Keep(t, label, [loc[t] EXCEPT !.did = x.sub])
        ELSE Error(t, "InvalidToken")

\* The jti is inserted, and whether it was there is not looked at.
record_dpop_jti_Ignored(t, label) ==
    \E p \in req[t].proof : jtis' = jtis \cup {p.jti} /\ Authorized(t, label)

record_dpop_jti(t, label) ==
    \E p \in req[t].proof :
        \/ p.jti \notin jtis /\ jtis' = jtis \cup {p.jti} /\ Authorized(t, label)
        \/ p.jti \in jtis /\ UNCHANGED jtis /\ Error(t, "InvalidToken")

\* The replay table is last; a failing store is answered like a bad proof.
RecordJti(t, label) ==
    /\ pc[t] = "jti"
    /\ UNCHANGED <<outside, accounts, claims, prefs, proc, issued>>
    /\ \/ record_dpop_jti(t, label)
       \/ /\ pc' = [pc EXCEPT ![t] = "done"]
          /\ loc' = [loc EXCEPT ![t].fault = TRUE]
          /\ reply' = [reply EXCEPT ![t] = [status |-> "InvalidToken", body |-> {}, at |-> now]]
          /\ UNCHANGED <<jtis, req, since>>

\* The insert of a handler that is gone.
OrphanJti(t) ==
    /\ pc[t] = "jti orphan"
    /\ jtis' = jtis \cup {p.jti : p \in req[t].proof}
    /\ UNCHANGED <<outside, accounts, claims, prefs, proc, issued>>
    /\ Goto(t, "gone")

\* The token endpoint: a new access token, under the key of this process.
Grant(d, jkt) ==
    /\ Event("grant")
    /\ issued' = issued \cup {issue_access_token(d, jkt, proc.as, now)}
    /\ UNCHANGED <<scene, now, directory, store, proc, task>>

\* The AS key is loaded, or cannot be and a new one is stored.
load_or_create_signing_key ==
    \/ Restart(proc.as)
    \/ proc.as < MaxKeys /\ Restart(proc.as + 1)

==============================================================================
