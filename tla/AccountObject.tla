---------------------------- MODULE AccountObject ----------------------------
(***************************************************************************)
(* One account's Durable Object on the Workers deployment                   *)
(* (rust-worker/src/handlers.rs over store.rs): the account row and its     *)
(* keys, what the account stores (commits, preferences, blobs), sign-in by  *)
(* approval on an enrolled device, and the deletion that frees the hostname *)
(* for a new account.                                                       *)
(*                                                                          *)
(* The object runs one event at a time and its SQL never suspends, so a     *)
(* handler is one step, except that an upload waits for R2.  A statement    *)
(* that fails leaves the earlier ones of its handler in place.              *)
(***************************************************************************)
EXTENDS Naturals

CONSTANTS
    Dids,       \* the accounts this hostname has, one after the other
    Cids,       \* blobs
    Uploads,    \* uploadBlob requests
    Devices,    \* device ids, random
    Requests,   \* sign-in request ids, random
    None,       \* no row
    SIGNIN_TTL, \* SIGNIN_TTL_SECS, in clock ticks
    MaxTime,    \* bound on the clock
    Envs        \* what may happen: sets of failing "sql" statements

\* None is no DID and no device.
ASSUME ConstantsAssumption ==
    /\ None \notin Dids \cup Devices
    /\ SIGNIN_TTL \in Nat /\ MaxTime \in Nat
    /\ Envs \subseteq SUBSET {"sql"}

VARIABLES
    env,                    \* the member of Envs that this behaviour is exposed to
    now,                    \* now_unix()
    accounts,               \* the DID of the account row, or None
    provisioned,            \* the DIDs that have had the row; their JWTs stay valid
    keys,                   \* DIDs with a signing and a rotation key
    blocks,                 \* DIDs that have written blocks
    repo_roots,             \* DIDs with a root
    account_preferences,    \* DIDs with preferences
    blob_refs,              \* <<did, cid>> of blob metadata
    r2,                     \* <<did, cid>> of the bytes in R2
    uploads,                \* upload -> where it is and its <<did, cid>>
    device_keys,            \* device -> the DID whose password enrolled it, or None
    signin_requests,        \* request -> its row or None
    started,                \* history: requests and devices handed out
    told_expired            \* history: requests whose client was told they expired

repo == <<keys, blocks, repo_roots, account_preferences>>
blobs == <<blob_refs, r2, uploads>>
signin == <<device_keys, signin_requests, started, told_expired>>
vars == <<env, now, accounts, provisioned, repo, blobs, signin>>

\* A signin_requests row.  `device` is kept for the properties.
Undecided == [status : {"pending"}, did : {None}, device : {None}, expires_at : Nat]
Denied == [status : {"denied"}, did : {None}, device : Devices, expires_at : Nat]
Approved == [status : {"approved"}, did : Dids, device : Devices, expires_at : Nat]

TypeOK ==
    /\ env \in Envs
    /\ now \in 0..MaxTime
    /\ accounts \in provisioned \cup {None}
    /\ provisioned \subseteq Dids
    /\ keys \subseteq provisioned
    /\ blocks \subseteq provisioned /\ repo_roots \subseteq blocks
    /\ account_preferences \subseteq provisioned
    /\ blob_refs \subseteq provisioned \X Cids /\ r2 \subseteq provisioned \X Cids
    /\ uploads \in [Uploads -> [at : {"put", "insert"}, blob : provisioned \X Cids] \cup {None}]
    /\ device_keys \in [Devices -> provisioned \cup {None}]
    /\ signin_requests \in [Requests -> Undecided \cup Denied \cup Approved \cup {None}]
    /\ started \subseteq Devices \cup Requests
    /\ told_expired \subseteq Requests

Init ==
    /\ env \in Envs
    /\ now = 0
    /\ accounts = None
    /\ provisioned = {} /\ keys = {} /\ blocks = {} /\ repo_roots = {}
    /\ account_preferences = {} /\ blob_refs = {} /\ r2 = {}
    /\ uploads = [u \in Uploads |-> None]
    /\ device_keys = [d \in Devices |-> None]
    /\ signin_requests = [r \in Requests |-> None]
    /\ started = {} /\ told_expired = {}

-----------------------------------------------------------------------------
(* The account and what it stores                                           *)

\* provision_account once the directory has the DID: the row, unless there is
\* one, then the keys.
Provision(did) ==
    /\ accounts = None
    /\ did \notin provisioned
    /\ accounts' = did
    /\ provisioned' = provisioned \cup {did}
    /\ \/ keys' = keys \cup {did}
       \/ "sql" \in env /\ UNCHANGED keys
    /\ UNCHANGED <<env, now, blocks, repo_roots, account_preferences, blobs, signin>>

\* createRecord and the other writes: the DID comes from the token, and the
\* commit is signed with its key.  commit_blocks stores the blocks first and the
\* root last.
Commit(did) ==
    /\ did \in keys
    /\ blocks' = blocks \cup {did}
    /\ \/ repo_roots' = repo_roots \cup {did}
       \/ "sql" \in env /\ UNCHANGED repo_roots
    /\ UNCHANGED <<env, now, accounts, provisioned, keys, account_preferences, blobs, signin>>

\* putPreferences asks only for a valid token.
PutPreferences(did) ==
    /\ did \in provisioned
    /\ account_preferences' = account_preferences \cup {did}
    /\ UNCHANGED <<env, now, accounts, provisioned, keys, blocks, repo_roots, blobs, signin>>

\* uploadBlob with a valid token: put_blob waits for R2 ...
UploadBlob(u, did, cid) ==
    /\ uploads[u] = None
    /\ did \in provisioned
    /\ uploads' = [uploads EXCEPT ![u] = [at |-> "put", blob |-> <<did, cid>>]]
    /\ UNCHANGED <<env, now, accounts, provisioned, repo, blob_refs, r2, signin>>

\* As PutObject, but the metadata is written first.
PutObject_RefFirst(u) ==
    /\ uploads[u] # None /\ uploads[u].at = "put"
    /\ blob_refs' = blob_refs \cup {uploads[u].blob}
    /\ uploads' = [uploads EXCEPT ![u].at = "insert"]
    /\ UNCHANGED <<env, now, accounts, provisioned, repo, r2, signin>>

\* ... R2 stores the bytes ...
PutObject(u) ==
    /\ uploads[u] # None /\ uploads[u].at = "put"
    /\ r2' = r2 \cup {uploads[u].blob}
    /\ uploads' = [uploads EXCEPT ![u].at = "insert"]
    /\ UNCHANGED <<env, now, accounts, provisioned, repo, blob_refs, signin>>

\* ... and the metadata row follows.
InsertBlobRef(u) ==
    /\ uploads[u] # None /\ uploads[u].at = "insert"
    /\ blob_refs' = blob_refs \cup {uploads[u].blob}
    /\ uploads' = [uploads EXCEPT ![u] = None]
    /\ UNCHANGED <<env, now, accounts, provisioned, repo, r2, signin>>

\* R2 fails, its answer is lost, or the object is evicted while it waits.
UploadFails(u) ==
    /\ uploads[u] # None
    /\ uploads' = [uploads EXCEPT ![u] = None]
    /\ UNCHANGED <<env, now, accounts, provisioned, repo, blob_refs, r2, signin>>

-----------------------------------------------------------------------------
(* Sign in with Stelyph                                                     *)

\* device_register: the password is the one of the account that is there.
DeviceRegister(device) ==
    /\ accounts # None
    /\ device \notin started
    /\ started' = started \cup {device}
    /\ device_keys' = [device_keys EXCEPT ![device] = accounts]
    /\ UNCHANGED <<env, now, accounts, provisioned, repo, blobs, signin_requests, told_expired>>

SigninStart(request) ==
    /\ request \notin started
    /\ started' = started \cup {request}
    /\ signin_requests' = [signin_requests EXCEPT ![request] =
         [status |-> "pending", did |-> None, device |-> None, expires_at |-> now + SIGNIN_TTL]]
    /\ UNCHANGED <<env, now, accounts, provisioned, repo, blobs, device_keys, told_expired>>

\* As Pending, but whatever was decided before.
Pending_Decided(request) == signin_requests[request] # None

Pending(request) ==
    signin_requests[request] # None /\ signin_requests[request].status = "pending"

Expired(request) == signin_requests[request].expires_at < now

\* signin_poll computes expiry on read.  The other answers leave no trace.
SigninPoll(request) ==
    /\ Pending(request) /\ Expired(request)
    /\ told_expired' = told_expired \cup {request}
    /\ UNCHANGED <<env, now, accounts, provisioned, repo, blobs, device_keys, signin_requests,
                   started>>

Decide(request, device, status, did) ==
    /\ signin_requests' = [signin_requests EXCEPT
         ![request].status = status, ![request].did = did, ![request].device = device]
    /\ UNCHANGED <<env, now, accounts, provisioned, repo, blobs, device_keys, started, told_expired>>

Approvable(request) == Pending(request) /\ ~Expired(request)

HasAccount == accounts # None

\* device_approve, signed by the enrolled device: the session is the account's.
DeviceApprove(request, device) ==
    /\ Approvable(request)
    /\ device_keys[device] # None
    /\ HasAccount
    /\ Decide(request, device, "approved", accounts)

\* device_deny: a request that has expired can still be denied.
DeviceDeny(request, device) ==
    /\ Pending(request)
    /\ device_keys[device] # None
    /\ Decide(request, device, "denied", None)

-----------------------------------------------------------------------------

\* As Wiped, but the devices stay enrolled.
Wiped_KeepsDevices(n) ==
    /\ keys' = IF n >= 2 THEN keys \ {accounts} ELSE keys
    /\ account_preferences' =
         IF n >= 3 THEN account_preferences \ {accounts} ELSE account_preferences
    /\ repo_roots' = IF n >= 4 THEN repo_roots \ {accounts} ELSE repo_roots
    /\ blob_refs' = IF n >= 5 THEN {b \in blob_refs : b[1] # accounts} ELSE blob_refs
    /\ UNCHANGED device_keys
    /\ signin_requests' = IF n >= 7 THEN [r \in Requests |-> None] ELSE signin_requests

\* The tables delete_account_data clears after the account row, in order, up to
\* the n-th: the two keys count as one, and so do repo_roots and repo_seq, of
\* which nothing here reads the second.  No statement clears the blocks.
Wiped(n) ==
    /\ keys' = IF n >= 2 THEN keys \ {accounts} ELSE keys
    /\ account_preferences' =
         IF n >= 3 THEN account_preferences \ {accounts} ELSE account_preferences
    /\ repo_roots' = IF n >= 4 THEN repo_roots \ {accounts} ELSE repo_roots
    /\ blob_refs' = IF n >= 5 THEN {b \in blob_refs : b[1] # accounts} ELSE blob_refs
    /\ device_keys' = IF n >= 6 THEN [d \in Devices |-> None] ELSE device_keys
    /\ signin_requests' = IF n >= 7 THEN [r \in Requests |-> None] ELSE signin_requests

\* delete_account: the account row first.
DeleteAccount(n) ==
    /\ accounts # None
    /\ n = 7 \/ "sql" \in env
    /\ accounts' = None
    /\ Wiped(n)
    /\ UNCHANGED <<env, now, provisioned, blocks, r2, uploads, started, told_expired>>

Tick ==
    /\ now < MaxTime
    /\ now' = now + 1
    /\ UNCHANGED <<env, accounts, provisioned, repo, blobs, signin>>

Next ==
    \/ \E did \in Dids : Provision(did) \/ Commit(did) \/ PutPreferences(did)
    \/ \E u \in Uploads :
         \/ \E did \in Dids, cid \in Cids : UploadBlob(u, did, cid)
         \/ PutObject(u) \/ InsertBlobRef(u) \/ UploadFails(u)
    \/ \E device \in Devices : DeviceRegister(device)
    \/ \E request \in Requests :
         \/ SigninStart(request) \/ SigninPoll(request)
         \/ \E device \in Devices : DeviceApprove(request, device) \/ DeviceDeny(request, device)
    \/ \E n \in 1..7 : DeleteAccount(n)
    \/ Tick

Spec == Init /\ [][Next]_vars

-----------------------------------------------------------------------------
(* Properties                                                               *)

\* A session that a client can poll for belongs to the account of this hostname,
\* and a device that this very account enrolled approved it: what was enrolled or
\* started before a deletion gives no session of the account that comes after, if
\* the deletion ran to its end.  And a client that was told that its request expired
\* is right to give up: no device approves it afterwards.
ApprovedByOwner ==
    \A r \in Requests : LET row == signin_requests[r] IN
        row # None /\ row.status = "approved" =>
            /\ r \notin told_expired
            /\ env = {} => row.did = accounts /\ device_keys[row.device] = accounts

\* store.rs, delete_account_data: "Blocks and blob metadata are cleared too so a reused
\* hostname starts genuinely empty".  No statement clears the blocks, although no root
\* leads to them any more.  No run checks it, see README, Observations.
StartsEmpty == env = {} /\ accounts = None => blocks = {}

\* approve_signin: "a second approval - or an approval racing a denial - cannot
\* overwrite a decided request".
DecisionIsFinal ==
    [][\A r \in Requests :
         signin_requests[r] # None /\ signin_requests[r].status # "pending"
            => signin_requests'[r] \in {signin_requests[r], None}]_vars

\* put_blob writes R2 first: metadata never points at bytes that do not exist,
\* whatever upload is cut off and whatever deletion it races (and the tables keep
\* their types).
BlobRefsHaveBytes == TypeOK /\ blob_refs \subseteq r2

=============================================================================
