------------------------ MODULE WorkerObjects_proofs ------------------------
(***************************************************************************)
(* Proofs about the two kinds of Durable Object of the Workers deployment.  *)
(*                                                                          *)
(* An account's object (AccountObject): for any number of accounts that     *)
(* follow each other on a hostname, of devices, requests, uploads and       *)
(* blobs.                                                                   *)
(*                                                                          *)
(* The sequencer with the objects that write to it (WorkerFirehose, the     *)
(* instance Firehose below): for any number of accounts, writes, relays and *)
(* connections.  Its assumption on its constants is a hypothesis of every   *)
(* theorem about it.                                                        *)
(***************************************************************************)
EXTENDS AccountObject, Sequences, TLAPS

\* R2 has the bytes of every metadata row and of every upload that is about to
\* write one.
BlobInv ==
    /\ blob_refs \subseteq r2
    /\ \A u \in Uploads : uploads[u] # None /\ uploads[u].at = "insert" => uploads[u].blob \in r2

\* A request id is used once, so an expired request stays expired: no later row
\* takes its place.
ExpiryInv ==
    \A r \in Requests :
        /\ signin_requests[r] # None \/ r \in told_expired => r \in started
        /\ r \in told_expired /\ signin_requests[r] # None =>
             signin_requests[r].status # "approved" /\ signin_requests[r].expires_at < now

\* Without failing statements a device that is enrolled was enrolled by the account
\* that is there, and so was one that approved.
OwnerInv ==
    env = {} =>
        /\ \A d \in Devices : device_keys[d] \in {None, accounts}
        /\ \A r \in Requests : signin_requests[r] # None /\ signin_requests[r].status = "approved" =>
             signin_requests[r].did = accounts /\ device_keys[signin_requests[r].device] = accounts

IInv == TypeOK /\ BlobInv /\ ExpiryInv /\ OwnerInv

\* The invariant holds initially.
LEMMA InitIInv == Init => IInv
  BY ConstantsAssumption DEF Init, IInv, TypeOK, BlobInv, ExpiryInv, OwnerInv

-----------------------------------------------------------------------------
(* The account and what it stores                                           *)

\* provision_account: no session and no device was left behind, unless a statement
\* of the deletion failed.
LEMMA ProvisionStep ==
    ASSUME IInv, NEW did \in Dids, Provision(did)
    PROVE  IInv'
<1> USE DEF Provision
<1>1. TypeOK' BY Zenon DEF IInv, TypeOK, blobs, signin
<1>2. BlobInv' BY Zenon DEF IInv, BlobInv, blobs
<1>3. ExpiryInv' BY Zenon DEF IInv, ExpiryInv, signin
<1>4. OwnerInv'
  <2>1. \A r \in Requests : signin_requests[r] # None /\ signin_requests[r].status = "approved" =>
          signin_requests[r].did \in Dids
    BY Zenon DEF IInv, TypeOK, Undecided, Denied, Approved
  <2> QED BY <2>1, ConstantsAssumption DEF IInv, OwnerInv, signin
<1> QED BY <1>1, <1>2, <1>3, <1>4, Zenon DEF IInv

\* The writes of a token's DID.
LEMMA StoreStep ==
    ASSUME IInv, NEW did \in Dids, Commit(did) \/ PutPreferences(did)
    PROVE  IInv'
<1> USE DEF Commit, PutPreferences
<1>1. TypeOK' BY Zenon DEF IInv, TypeOK, blobs, signin
<1>2. BlobInv' BY Zenon DEF IInv, BlobInv, blobs
<1>3. ExpiryInv' BY Zenon DEF IInv, ExpiryInv, signin
<1>4. OwnerInv' BY Zenon DEF IInv, OwnerInv, signin
<1> QED BY <1>1, <1>2, <1>3, <1>4, Zenon DEF IInv

\* An upload starts, moves, ends or is cut off.
LEMMA UploadStep ==
    ASSUME IInv, NEW u \in Uploads,
           \/ \E did \in Dids, cid \in Cids : UploadBlob(u, did, cid)
           \/ PutObject(u) \/ InsertBlobRef(u) \/ UploadFails(u)
    PROVE  IInv'
<1> USE DEF UploadBlob, PutObject, InsertBlobRef, UploadFails
<1>1. /\ uploads[u] # None => uploads[u].blob \in provisioned \X Cids
      /\ uploads \in [Uploads -> [at : {"put", "insert"}, blob : provisioned \X Cids] \cup {None}]
  BY Zenon DEF IInv, TypeOK
<1>2. /\ blob_refs' \subseteq provisioned \X Cids /\ r2' \subseteq provisioned \X Cids
      /\ uploads' \in [Uploads -> [at : {"put", "insert"}, blob : provisioned \X Cids] \cup {None}]
  BY <1>1 DEF IInv, TypeOK
<1>3. TypeOK' BY <1>2, Zenon DEF IInv, TypeOK, repo, signin
<1>4. BlobInv' BY <1>1 DEF IInv, BlobInv
<1>5. ExpiryInv' BY Zenon DEF IInv, ExpiryInv, signin
<1>6. OwnerInv' BY Zenon DEF IInv, OwnerInv, signin
<1> QED BY <1>3, <1>4, <1>5, <1>6, Zenon DEF IInv

-----------------------------------------------------------------------------
(* Sign in with Stelyph                                                     *)

\* device_register.
LEMMA DeviceRegisterStep ==
    ASSUME IInv, NEW device \in Devices, DeviceRegister(device)
    PROVE  IInv'
<1> USE DEF DeviceRegister
<1>1. TypeOK' BY Zenon DEF IInv, TypeOK, repo, blobs
<1>2. BlobInv' BY Zenon DEF IInv, BlobInv, blobs
<1>3. ExpiryInv' BY Zenon DEF IInv, ExpiryInv
<1>4. OwnerInv'
  <2>1. \A d \in Devices : device_keys'[d] \in {device_keys[d], accounts}
    BY Zenon DEF IInv, TypeOK
  <2>2. \A r \in Requests : signin_requests[r] # None /\ signin_requests[r].status = "approved" =>
          signin_requests[r].device \in Devices
    BY Zenon DEF IInv, TypeOK, Undecided, Denied, Approved
  <2> QED BY <2>1, <2>2, Zenon DEF IInv, OwnerInv
<1> QED BY <1>1, <1>2, <1>3, <1>4, Zenon DEF IInv

\* signin_start: the id is new.
LEMMA SigninStartStep ==
    ASSUME IInv, NEW request \in Requests, SigninStart(request)
    PROVE  IInv'
<1> USE DEF SigninStart
<1>1. now + SIGNIN_TTL \in Nat
  BY ConstantsAssumption DEF IInv, TypeOK
<1> DEFINE row == [status |-> "pending", did |-> None, device |-> None, expires_at |-> now + SIGNIN_TTL]
<1>2. row \in Undecided /\ row.status = "pending"
  BY <1>1, Zenon DEF Undecided
<1>3. signin_requests' = [signin_requests EXCEPT ![request] = row]
  BY Zenon
<1> HIDE DEF row
<1>4. signin_requests' \in [Requests -> Undecided \cup Denied \cup Approved \cup {None}]
  BY <1>2, <1>3, ZenonT(60) DEF IInv, TypeOK
<1>5. TypeOK' BY <1>4, Zenon DEF IInv, TypeOK, repo, blobs
<1>6. BlobInv' BY Zenon DEF IInv, BlobInv, blobs
<1>7. /\ signin_requests'[request] = row
      /\ \A r \in Requests : r # request => signin_requests'[r] = signin_requests[r]
  BY <1>3, Zenon DEF IInv, TypeOK
<1>8. ExpiryInv' BY <1>7, Zenon DEF IInv, ExpiryInv
<1>9. OwnerInv' BY <1>2, <1>7, ZenonT(60) DEF IInv, OwnerInv
<1> QED BY <1>5, <1>6, <1>8, <1>9, Zenon DEF IInv

\* signin_poll says "expired".
LEMMA SigninPollStep ==
    ASSUME IInv, NEW request \in Requests, SigninPoll(request)
    PROVE  IInv'
<1> USE DEF SigninPoll
<1>1. TypeOK' BY Zenon DEF IInv, TypeOK, repo, blobs
<1>2. BlobInv' BY Zenon DEF IInv, BlobInv, blobs
<1>3. ExpiryInv' BY Zenon DEF IInv, ExpiryInv, Pending, Expired
<1>4. OwnerInv' BY Zenon DEF IInv, OwnerInv
<1> QED BY <1>1, <1>2, <1>3, <1>4, Zenon DEF IInv

\* What a decision does to the rows.
LEMMA DecideFacts ==
    ASSUME TypeOK, NEW request \in Requests, Pending(request), NEW device \in Devices,
           NEW status, NEW did, Decide(request, device, status, did),
           \/ status = "approved" /\ did \in Dids
           \/ status = "denied" /\ did = None
    PROVE  /\ signin_requests' \in [Requests -> Undecided \cup Denied \cup Approved \cup {None}]
           /\ \A r \in Requests : r # request => signin_requests'[r] = signin_requests[r]
           /\ signin_requests'[request].status = status
           /\ signin_requests'[request].did = did
           /\ signin_requests'[request].device = device
           /\ signin_requests'[request].expires_at = signin_requests[request].expires_at
<1>1. PICK row \in Undecided : row = signin_requests[request]
  BY Zenon DEF TypeOK, Pending, Undecided, Denied, Approved
<1> DEFINE decided == [row EXCEPT !.status = status, !.did = did, !.device = device]
<1>2. signin_requests' = [signin_requests EXCEPT ![request] = decided]
  BY <1>1, Zenon DEF Decide, TypeOK
<1>3. decided \in Denied \cup Approved
  BY Zenon DEF Undecided, Denied, Approved
<1>4. /\ decided.status = status /\ decided.did = did /\ decided.device = device
      /\ decided.expires_at = row.expires_at
  BY Zenon DEF Undecided
<1> HIDE DEF decided
<1> QED BY <1>1, <1>2, <1>3, <1>4, Zenon DEF TypeOK

\* device_approve and device_deny: only a pending request is decided, and one that
\* has expired only to its denial.
LEMMA DecideStep ==
    ASSUME IInv, NEW request \in Requests, NEW device \in Devices,
           DeviceApprove(request, device) \/ DeviceDeny(request, device)
    PROVE  IInv'
<1>1. Pending(request) /\ device_keys[device] # None
  BY Zenon DEF DeviceApprove, DeviceDeny, Approvable
<1>2. PICK status, did :
        /\ Decide(request, device, status, did)
        /\ \/ status = "approved" /\ did = accounts /\ did \in Dids /\ ~Expired(request)
           \/ status = "denied" /\ did = None
  BY Zenon DEF DeviceApprove, DeviceDeny, Approvable, HasAccount, IInv, TypeOK
<1>3. /\ signin_requests' \in [Requests -> Undecided \cup Denied \cup Approved \cup {None}]
      /\ \A r \in Requests : r # request => signin_requests'[r] = signin_requests[r]
      /\ signin_requests'[request].status = status
      /\ signin_requests'[request].did = did
      /\ signin_requests'[request].device = device
      /\ signin_requests'[request].expires_at = signin_requests[request].expires_at
  BY <1>1, <1>2, DecideFacts, Zenon DEF IInv
<1>4. /\ UNCHANGED <<env, now, accounts, provisioned, device_keys, started, told_expired>>
      /\ UNCHANGED <<repo, blobs>>
  BY <1>2, Zenon DEF Decide
<1>5. TypeOK' BY <1>3, <1>4, Zenon DEF IInv, TypeOK, repo, blobs
<1>6. BlobInv' BY <1>4, Zenon DEF IInv, BlobInv, blobs
<1>7. ExpiryInv' BY <1>1, <1>2, <1>3, <1>4, Zenon DEF IInv, ExpiryInv, Pending, Expired
<1>8. OwnerInv' BY <1>1, <1>2, <1>3, <1>4, ZenonT(60) DEF IInv, OwnerInv
<1> QED BY <1>5, <1>6, <1>7, <1>8, Zenon DEF IInv

-----------------------------------------------------------------------------
(* The deletion and the clock                                               *)

\* delete_account, to its end or up to the statement that fails.
LEMMA DeleteAccountStep ==
    ASSUME IInv, NEW n \in 1..7, DeleteAccount(n)
    PROVE  IInv'
<1> USE DEF DeleteAccount
<1>1. /\ keys' \subseteq keys /\ account_preferences' \subseteq account_preferences
      /\ repo_roots' \subseteq repo_roots /\ blob_refs' \subseteq blob_refs
  BY Zenon DEF Wiped
<1>2. /\ device_keys' \in {device_keys, [d \in Devices |-> None]}
      /\ signin_requests' \in {signin_requests, [r \in Requests |-> None]}
      /\ env = {} => /\ device_keys' = [d \in Devices |-> None]
                     /\ signin_requests' = [r \in Requests |-> None]
  BY DEF Wiped
<1>3. TypeOK' BY <1>1, <1>2, Zenon DEF IInv, TypeOK
<1>4. BlobInv' BY <1>1, Zenon DEF IInv, BlobInv
<1>5. ExpiryInv' BY <1>2, Zenon DEF IInv, ExpiryInv
<1>6. OwnerInv' BY <1>2, Zenon DEF OwnerInv
<1> QED BY <1>3, <1>4, <1>5, <1>6, Zenon DEF IInv

\* The clock: what has expired stays expired.
LEMMA TickStep == ASSUME IInv, Tick PROVE IInv'
<1> USE DEF Tick
<1>1. now' \in 0..MaxTime
  BY ConstantsAssumption DEF IInv, TypeOK
<1>2. TypeOK' BY <1>1, Zenon DEF IInv, TypeOK, repo, blobs, signin
<1>3. BlobInv' BY Zenon DEF IInv, BlobInv, blobs
<1>4. \A r \in Requests : signin_requests[r] # None => signin_requests[r].expires_at \in Nat
  BY Zenon DEF IInv, TypeOK, Undecided, Denied, Approved
<1>5. ExpiryInv' BY <1>4 DEF IInv, TypeOK, ExpiryInv, signin
<1>6. OwnerInv' BY Zenon DEF IInv, OwnerInv, signin
<1> QED BY <1>2, <1>3, <1>5, <1>6, Zenon DEF IInv

-----------------------------------------------------------------------------
(* The theorems                                                             *)

\* Every step preserves the invariant.
LEMMA NextIInv == IInv /\ [Next]_vars => IInv'
<1> SUFFICES ASSUME IInv, [Next]_vars PROVE IInv'
  BY Zenon
<1>1. CASE Next
  BY <1>1, ProvisionStep, StoreStep, UploadStep, DeviceRegisterStep, SigninStartStep,
     SigninPollStep, DecideStep, DeleteAccountStep, TickStep, Zenon DEF Next
<1>2. CASE UNCHANGED vars
  BY <1>2, Zenon DEF IInv, TypeOK, BlobInv, ExpiryInv, OwnerInv, vars, repo, blobs, signin
<1> QED BY <1>1, <1>2, Zenon

\* The invariant holds throughout.
LEMMA Invariance == Spec => []IInv
  BY InitIInv, NextIInv, PTL DEF Spec

\* store.rs, put_blob: metadata never points at bytes that are not in R2.
THEOREM RefsHaveBytes == Spec => []BlobRefsHaveBytes
<1>1. IInv => BlobRefsHaveBytes
  BY Zenon DEF IInv, BlobInv, BlobRefsHaveBytes
<1> QED BY <1>1, Invariance, PTL

\* handlers.rs, device_approve and signin_poll: an approved request gives a session
\* of the account that is there, approved by a device that this account enrolled,
\* and no client was told that the request had expired.
THEOREM SessionsAreTheOwners == Spec => []ApprovedByOwner
<1>1. IInv => ApprovedByOwner
  BY Zenon DEF IInv, ExpiryInv, OwnerInv, ApprovedByOwner
<1> QED BY <1>1, Invariance, PTL

\* store.rs, approve_signin and deny_signin: a decision is never replaced by
\* another one.
THEOREM DecisionsAreFinal == Spec => DecisionIsFinal
<1>1. IInv /\ [Next]_vars =>
        [\A r \in Requests :
           signin_requests[r] # None /\ signin_requests[r].status # "pending"
             => signin_requests'[r] \in {signin_requests[r], None}]_vars
  <2> SUFFICES ASSUME IInv, Next, NEW r \in Requests,
                      signin_requests[r] # None, signin_requests[r].status # "pending"
               PROVE  signin_requests'[r] \in {signin_requests[r], None}
    BY Zenon
  <2>1. ASSUME NEW request \in Requests, SigninStart(request)
        PROVE  signin_requests'[r] = signin_requests[r]
    BY <2>1, Zenon DEF SigninStart, IInv, TypeOK, ExpiryInv
  <2>2. ASSUME NEW request \in Requests, NEW device \in Devices,
               DeviceApprove(request, device) \/ DeviceDeny(request, device)
        PROVE  signin_requests'[r] = signin_requests[r]
    BY <2>2, Zenon DEF DeviceApprove, DeviceDeny, Approvable, Pending, Decide, IInv, TypeOK
  <2>3. ASSUME NEW n \in 1..7, DeleteAccount(n)
        PROVE  signin_requests'[r] \in {signin_requests[r], None}
    BY <2>3, Zenon DEF DeleteAccount, Wiped
  <2>4. CASE \/ \E did \in Dids : Provision(did) \/ Commit(did) \/ PutPreferences(did)
             \/ \E u \in Uploads :
                  \/ \E did \in Dids, cid \in Cids : UploadBlob(u, did, cid)
                  \/ PutObject(u) \/ InsertBlobRef(u) \/ UploadFails(u)
             \/ \E device \in Devices : DeviceRegister(device)
             \/ \E request \in Requests : SigninPoll(request)
             \/ Tick
    BY <2>4, Zenon DEF Provision, Commit, PutPreferences, UploadBlob, PutObject, InsertBlobRef,
                UploadFails, DeviceRegister, SigninPoll, Tick, signin
  <2> QED BY <2>1, <2>2, <2>3, <2>4, Zenon DEF Next
<1> QED BY <1>1, Invariance, PTL DEF Spec, DecisionIsFinal

-----------------------------------------------------------------------------
(* The sequencer and the objects that write to it                           *)

CONSTANTS Repos, Writes, Clients, Nothing, MaxConnects, MaxInjects, FirehoseEnvs

VARIABLES firehose_env, commit_roots, repo_seq, pc, injects, next, firehose_log, socket, received,
          connects, from

Firehose == INSTANCE WorkerFirehose
            WITH Dids <- Repos, None <- Nothing, Envs <- FirehoseEnvs,
                 env <- firehose_env, repo_roots <- commit_roots

\* The rows are in the order of their seqs, and the counter is ahead of them; so
\* every seq divides them.
LogInv ==
    /\ \A i \in 1..Len(firehose_log) : firehose_log[i].seq < next
    /\ \A i, j \in 1..Len(firehose_log) : i < j => firehose_log[i].seq < firehose_log[j].seq
    /\ \A n \in Nat : \E k \in 0..Len(firehose_log) : Firehose!Divides(k, n)

\* Row i is one that an account's object put on the log.
Put(i) == firehose_log[i].by = "account"

\* A write that the sequencer was told of is in its account's store; one that its
\* account's object put on the log has been answered, and was put there once.
CommitInv ==
    /\ \A w \in Writes : pc[w] \in {"enqueue", "answered"} => Firehose!Committed(w)
    /\ \A i \in 1..Len(firehose_log) : Put(i) => pc[firehose_log[i].commit] = "answered"
    /\ \A i, j \in 1..Len(firehose_log) :
         Put(i) /\ Put(j) /\ firehose_log[i].commit = firehose_log[j].commit => i = j

\* The rows after the first k are what c has received and, while it is connected, what
\* is on the way to it.
Follows(c, k) ==
    /\ Firehose!Divides(k, from[c])
    /\ Firehose!IsRun(received[c], firehose_log, k)
    /\ socket[c] # Nothing =>
         /\ Firehose!IsRun(socket[c], firehose_log, k + Len(received[c]))
         /\ k + Len(received[c]) + Len(socket[c]) = Len(firehose_log)

StreamInv ==
    \A c \in Clients : from[c] < next /\ \E k \in 0..Len(firehose_log) : Follows(c, k)

FirehoseInv == Firehose!TypeOK /\ LogInv /\ CommitInv /\ StreamInv

\* The invariant holds initially: nothing is committed, logged or sent.
LEMMA InitFirehoseInv ==
    ASSUME Firehose!ConstantsAssumption
    PROVE  Firehose!Init => FirehoseInv
<1> SUFFICES ASSUME Firehose!Init PROVE FirehoseInv
  BY Zenon
<1>1. Firehose!TypeOK
  BY DEF Firehose!Init, Firehose!TypeOK, Firehose!FirstSeq
<1>2. LogInv
  BY DEF Firehose!Init, LogInv, Firehose!Divides, Firehose!FirstSeq
<1>3. CommitInv
  BY DEF Firehose!Init, CommitInv
<1>4. StreamInv
  BY DEF Firehose!Init, StreamInv, Follows, Firehose!Divides, Firehose!IsRun, Firehose!FirstSeq
<1> QED
  BY <1>1, <1>2, <1>3, <1>4, Zenon DEF FirehoseInv

-----------------------------------------------------------------------------
(* Runs of a log *)

\* Appending to a sequence keeps what it holds.
LEMMA AppendKeeps ==
    ASSUME NEW s \in Seq(Writes), NEW w \in Writes
    PROVE  \A i \in 1..Len(s) : i \in 1..Len(Append(s, w)) /\ Append(s, w)[i] = s[i]
OBVIOUS

\* Nothing is the run after the last row.
LEMMA EmptyRun ==
    ASSUME NEW T, NEW log \in Seq(T)
    PROVE  /\ <<>> \in Seq(T) /\ Firehose!IsRun(<<>>, log, Len(log))
           /\ Len(log) + Len(<<>>) = Len(log)
<1>1. Len(log) \in Nat /\ Len(<<>>) = 0 /\ <<>> \in Seq(T)
  OBVIOUS
<1>2. Len(log) + Len(<<>>) = Len(log) /\ Len(log) + Len(<<>>) <= Len(log) /\ 1..Len(<<>>) = {}
  BY <1>1
<1> QED
  BY <1>1, <1>2, Zenon DEF Firehose!IsRun

\* The run stays one when the log grows.
LEMMA RunKept ==
    ASSUME NEW T, NEW log \in Seq(T), NEW s \in Seq(T), NEW k \in Nat, NEW f \in T, Firehose!IsRun(s, log, k)
    PROVE  Firehose!IsRun(s, Append(log, f), k)
<1> DEFINE log2 == Append(log, f)
<1>1. Len(log) \in Nat /\ Len(s) \in Nat /\ Len(log2) = Len(log) + 1
  OBVIOUS
<1>2. \A i \in 1..Len(log) : log2[i] = log[i]
  OBVIOUS
<1> HIDE DEF log2
<1>3. k + Len(s) <= Len(log2)
  BY <1>1 DEF Firehose!IsRun
<1>4. ASSUME NEW i \in 1..Len(s) PROVE s[i] = log2[k + i]
  <2>1. k + i \in 1..Len(log)
    BY <1>1 DEF Firehose!IsRun
  <2> QED
    BY <1>2, <2>1, Zenon DEF Firehose!IsRun
<1>5. Firehose!IsRun(s, log2, k)
  BY <1>3, <1>4, Zenon DEF Firehose!IsRun
<1> QED
  BY <1>5, Zenon DEF log2

\* The run up to the end of the log takes the new row.
LEMMA RunGrows ==
    ASSUME NEW T, NEW log \in Seq(T), NEW s \in Seq(T), NEW k \in Nat, NEW f \in T,
           Firehose!IsRun(s, log, k), k + Len(s) = Len(log)
    PROVE  /\ Firehose!IsRun(Append(s, f), Append(log, f), k)
           /\ k + Len(Append(s, f)) = Len(Append(log, f))
<1> DEFINE log2 == Append(log, f)
           s2 == Append(s, f)
<1>1. Len(log) \in Nat /\ Len(s) \in Nat /\ Len(log2) = Len(log) + 1 /\ Len(s2) = Len(s) + 1
  OBVIOUS
<1>2. log2[Len(log) + 1] = f /\ \A i \in 1..Len(log) : log2[i] = log[i]
  OBVIOUS
<1>3. s2[Len(s) + 1] = f /\ \A i \in 1..Len(s) : s2[i] = s[i]
  OBVIOUS
<1> HIDE DEF log2, s2
<1>4. k + Len(s2) = Len(log2) /\ k + Len(s2) <= Len(log2)
  BY <1>1
<1>5. ASSUME NEW i \in 1..Len(s2) PROVE s2[i] = log2[k + i]
  <2>1. CASE i = Len(s) + 1
    <3>1. k + i = Len(log) + 1
      BY <1>1, <2>1, SMTT(30)
    <3> QED
      BY <1>2, <1>3, <2>1, <3>1, Zenon
  <2>2. CASE i # Len(s) + 1
    <3>1. i \in 1..Len(s) /\ k + i \in 1..Len(log)
      BY <1>1, <2>2
    <3> QED
      BY <1>2, <1>3, <3>1, Zenon DEF Firehose!IsRun
  <2> QED
    BY <2>1, <2>2, Zenon
<1>6. Firehose!IsRun(s2, log2, k)
  BY <1>4, <1>5, Zenon DEF Firehose!IsRun
<1> QED
  BY <1>4, <1>6, Zenon DEF log2, s2

\* Its first row moves to the run before it.
LEMMA RunMoves ==
    ASSUME NEW T, NEW log \in Seq(T), NEW r \in Seq(T), NEW s \in Seq(T), NEW k \in Nat,
           s # <<>>, Firehose!IsRun(r, log, k), Firehose!IsRun(s, log, k + Len(r))
    PROVE  /\ Append(r, Head(s)) \in Seq(T) /\ Tail(s) \in Seq(T)
           /\ Firehose!IsRun(Append(r, Head(s)), log, k)
           /\ Firehose!IsRun(Tail(s), log, k + Len(Append(r, Head(s))))
           /\ Len(Append(r, Head(s))) + Len(Tail(s)) = Len(r) + Len(s)
<1> DEFINE rr == Append(r, Head(s))
           t == Tail(s)
<1>1. Len(log) \in Nat /\ Len(r) \in Nat /\ Len(s) \in Nat \ {0}
  OBVIOUS
<1>2. Head(s) = s[1] /\ s[1] \in T
  BY <1>1
<1>3. t \in Seq(T) /\ Len(t) = Len(s) - 1 /\ \A i \in 1..(Len(s) - 1) : t[i] = s[i + 1]
  BY <1>1
<1>4. rr \in Seq(T) /\ Len(rr) = Len(r) + 1 /\ rr[Len(r) + 1] = s[1] /\ \A i \in 1..Len(r) : rr[i] = r[i]
  BY <1>1, <1>2
<1> HIDE DEF rr, t
<1>5. ASSUME NEW i \in 1..Len(rr) PROVE rr[i] = log[k + i]
  <2>1. CASE i = Len(r) + 1
    <3>1. 1 \in 1..Len(s) /\ k + i = k + Len(r) + 1
      BY <1>1, <2>1
    <3>2. s[1] = log[k + Len(r) + 1]
      BY <3>1, Zenon DEF Firehose!IsRun
    <3> QED
      BY <1>4, <2>1, <3>1, <3>2, Zenon
  <2>2. CASE i # Len(r) + 1
    <3>1. i \in 1..Len(r)
      BY <1>1, <1>4, <2>2, SMTT(30)
    <3> QED
      BY <1>4, <3>1, Zenon DEF Firehose!IsRun
  <2> QED
    BY <2>1, <2>2, Zenon
<1>6. ASSUME NEW i \in 1..Len(t) PROVE t[i] = log[k + Len(rr) + i]
  <2>1. i + 1 \in 1..Len(s) /\ i \in 1..(Len(s) - 1) /\ k + Len(r) + (i + 1) = k + Len(rr) + i
    BY <1>1, <1>3, <1>4
  <2>2. s[i + 1] = log[k + Len(r) + (i + 1)]
    BY <2>1, Zenon DEF Firehose!IsRun
  <2> QED
    BY <1>3, <2>1, <2>2, Zenon
<1>7. k + Len(r) + Len(s) <= Len(log)
  BY Zenon DEF Firehose!IsRun
<1>8. /\ k + Len(rr) <= Len(log) /\ k + Len(rr) + Len(t) <= Len(log)
      /\ Len(rr) + Len(t) = Len(r) + Len(s)
  BY <1>1, <1>3, <1>4, <1>7, SMTT(30)
<1>9. Firehose!IsRun(rr, log, k) /\ Firehose!IsRun(t, log, k + Len(rr))
  BY <1>5, <1>6, <1>8, Zenon DEF Firehose!IsRun
<1> QED
  BY <1>3, <1>4, <1>8, <1>9, Zenon DEF rr, t

\* Two runs that follow each other.
LEMMA RunsJoin ==
    ASSUME NEW T, NEW log \in Seq(T), NEW r \in Seq(T), NEW s \in Seq(T), NEW k \in Nat,
           Firehose!IsRun(r, log, k), Firehose!IsRun(s, log, k + Len(r))
    PROVE  Firehose!IsRun(r \o s, log, k) /\ Len(r \o s) = Len(r) + Len(s)
<1> DEFINE q == r \o s
<1>1. Len(log) \in Nat /\ Len(r) \in Nat /\ Len(s) \in Nat
  OBVIOUS
<1>2. Len(q) = Len(r) + Len(s)
  OBVIOUS
<1>3. \A i \in 1..(Len(r) + Len(s)) : q[i] = IF i <= Len(r) THEN r[i] ELSE s[i - Len(r)]
  OBVIOUS
<1> HIDE DEF q
<1>4. ASSUME NEW i \in 1..Len(q) PROVE q[i] = log[k + i]
  <2>1. CASE i <= Len(r)
    <3>1. i \in 1..Len(r) /\ i \in 1..(Len(r) + Len(s))
      BY <1>1, <1>2, <2>1
    <3> QED
      BY <1>3, <2>1, <3>1, Zenon DEF Firehose!IsRun
  <2>2. CASE ~(i <= Len(r))
    <3>1. i - Len(r) \in 1..Len(s) /\ k + Len(r) + (i - Len(r)) = k + i
      BY <1>1, <1>2, <2>2
    <3>2. s[i - Len(r)] = log[k + Len(r) + (i - Len(r))]
      BY <3>1, Zenon DEF Firehose!IsRun
    <3> QED
      BY <1>2, <1>3, <2>2, <3>1, <3>2, Zenon
  <2> QED
    BY <2>1, <2>2, Zenon
<1>5. k + Len(r) + Len(s) <= Len(log)
  BY Zenon DEF Firehose!IsRun
<1>6. k + Len(q) <= Len(log)
  BY <1>1, <1>2, <1>5
<1>7. Firehose!IsRun(q, log, k)
  BY <1>4, <1>6, Zenon DEF Firehose!IsRun
<1> QED
  BY <1>2, <1>7, Zenon DEF q

\* The rows after the first k.
LEMMA RunOfRest ==
    ASSUME NEW T, NEW log \in Seq(T), NEW k \in 0..Len(log)
    PROVE  /\ SubSeq(log, k + 1, Len(log)) \in Seq(T)
           /\ Firehose!IsRun(SubSeq(log, k + 1, Len(log)), log, k)
           /\ k + Len(SubSeq(log, k + 1, Len(log))) = Len(log)
<1> DEFINE q == SubSeq(log, k + 1, Len(log))
<1>1. Len(log) \in Nat /\ \A i \in 1..Len(log) : log[i] \in T
  OBVIOUS
<1>2. q = [i \in 1..(Len(log) - k) |-> log[k + i]]
  BY <1>1
<1>3. \A i \in 1..(Len(log) - k) : k + i \in 1..Len(log)
  BY <1>1
<1>4. q \in Seq(T) /\ Len(q) = Len(log) - k
  BY <1>1, <1>2, <1>3
<1> HIDE DEF q
<1>5. k + Len(q) = Len(log) /\ k + Len(q) <= Len(log)
  BY <1>1, <1>4
<1>6. Firehose!IsRun(q, log, k)
  BY <1>2, <1>4, <1>5, Zenon DEF Firehose!IsRun
<1> QED
  BY <1>4, <1>5, <1>6, Zenon DEF q
-----------------------------------------------------------------------------
(* The log *)

\* The rows are frames.
LEMMA LogRows ==
    ASSUME Firehose!TypeOK
    PROVE  /\ Len(firehose_log) \in Nat /\ DOMAIN firehose_log = 1..Len(firehose_log)
           /\ \A i \in 1..Len(firehose_log) :
                /\ firehose_log[i] \in Firehose!Frame
                /\ firehose_log[i].seq \in Nat /\ firehose_log[i].commit \in Writes
<1>1. \A f \in Firehose!Frame : f.seq \in Nat /\ f.commit \in Writes
  BY Zenon DEF Firehose!Frame
<1>2. Len(firehose_log) \in Nat /\ DOMAIN firehose_log = 1..Len(firehose_log)
  BY DEF Firehose!TypeOK
<1>3. \A i \in 1..Len(firehose_log) : firehose_log[i] \in Firehose!Frame
  BY DEF Firehose!TypeOK
<1> QED
  BY <1>1, <1>2, <1>3, Zenon

\* What a seq divides the log into is determined by it.
LEMMA RowsUpToIs ==
    ASSUME Firehose!TypeOK, NEW n \in Nat, NEW k \in 0..Len(firehose_log), Firehose!Divides(k, n)
    PROVE  Firehose!RowsUpTo(n) = k
<1>1. ASSUME NEW j \in 0..Len(firehose_log), Firehose!Divides(j, n) PROVE j = k
  <2>1. Len(firehose_log) \in Nat
    BY DEF Firehose!TypeOK
  <2>2. ~(j < k)
    BY <1>1, <2>1 DEF Firehose!Divides
  <2>3. ~(k < j)
    BY <1>1, <2>1 DEF Firehose!Divides
  <2> QED
    BY <2>1, <2>2, <2>3
<1> QED
  BY <1>1, Zenon DEF Firehose!RowsUpTo

-----------------------------------------------------------------------------
(* The steps. *)

\* What concerns the log and its readers only.
LEMMA Unsequenced ==
    ASSUME FirehoseInv, UNCHANGED <<Firehose!sequencer, socket, Firehose!relay>>
    PROVE  LogInv' /\ StreamInv'
BY Zenon DEF FirehoseInv, LogInv, StreamInv, Follows, Firehose!Divides, Firehose!sequencer, Firehose!relay

\* A write commits, or fails after some of its statements: the log is not touched, and
\* only a write that committed goes on to the sequencer.
LEMMA WriteStep ==
    ASSUME FirehoseInv, NEW w \in Writes, NEW d \in Repos, NEW n \in 0..2, Firehose!Write(w, d, n)
    PROVE  FirehoseInv'
<1>1. Firehose!TypeOK'
  BY DEF FirehoseInv, Firehose!TypeOK, Firehose!Write, Firehose!CommitBlocks, Firehose!sequencer,
         Firehose!relay
<1>2. LogInv' /\ StreamInv'
  BY Unsequenced, Zenon DEF Firehose!Write
<1>3. ASSUME NEW v \in Writes, Firehose!Committed(v) PROVE Firehose!Committed(v)'
  <2>1. PICK e \in Repos : \E i \in 1..Len(repo_seq[e]) : repo_seq[e][i] = v
    BY <1>3, Zenon DEF Firehose!Committed
  <2>2. PICK i \in 1..Len(repo_seq[e]) : repo_seq[e][i] = v
    BY <2>1, Zenon
  <2>3. repo_seq'[e] \in {repo_seq[e], Append(repo_seq[e], w)} /\ repo_seq[e] \in Seq(Writes)
    BY Zenon DEF FirehoseInv, Firehose!TypeOK, Firehose!Write, Firehose!CommitBlocks
  <2>4. i \in 1..Len(repo_seq'[e]) /\ repo_seq'[e][i] = v
    <3>1. CASE repo_seq'[e] = repo_seq[e]
      BY <2>2, <3>1, Zenon
    <3>2. CASE repo_seq'[e] = Append(repo_seq[e], w)
      BY <2>2, <2>3, <3>2, AppendKeeps, ZenonT(60)
    <3> QED
      BY <2>3, <3>1, <3>2, Zenon
  <2> QED
    BY <2>4, Zenon DEF Firehose!Committed
<1>4. n = 2 => Firehose!Committed(w)'
  <2> SUFFICES ASSUME n = 2 PROVE Firehose!Committed(w)'
    BY Zenon
  <2>1. repo_seq'[d] = Append(repo_seq[d], w) /\ repo_seq[d] \in Seq(Writes)
    BY DEF FirehoseInv, Firehose!TypeOK, Firehose!Write, Firehose!CommitBlocks
  <2>2. Len(repo_seq'[d]) \in 1..Len(repo_seq'[d]) /\ repo_seq'[d][Len(repo_seq'[d])] = w
    BY <2>1
  <2> QED
    BY <2>2, Zenon DEF Firehose!Committed
<1>5. CommitInv'
  <2>1. pc[w] = "idle" /\ pc'[w] = IF n = 2 THEN "enqueue" ELSE "failed"
    BY Zenon DEF FirehoseInv, Firehose!TypeOK, Firehose!Write
  <2>2. \A v \in Writes \ {w} : pc'[v] = pc[v]
    BY Zenon DEF FirehoseInv, Firehose!TypeOK, Firehose!Write
  <2>3. \A v \in Writes : pc'[v] \in {"enqueue", "answered"} => Firehose!Committed(v)'
    BY <1>3, <1>4, <2>1, <2>2, Zenon DEF FirehoseInv, CommitInv
  <2>4. firehose_log' = firehose_log /\ \A i \in 1..Len(firehose_log) : firehose_log[i].commit \in Writes
    BY LogRows, Zenon DEF FirehoseInv, Firehose!Write, Firehose!sequencer
  <2> QED
    BY <2>1, <2>2, <2>3, <2>4, Zenon DEF FirehoseInv, CommitInv, Put
<1> QED
  BY <1>1, <1>2, <1>5, Zenon DEF FirehoseInv

\* A call that is lost leaves its commit in the store and off the log.
LEMMA EnqueueLostStep ==
    ASSUME FirehoseInv, NEW w \in Writes, Firehose!EnqueueLost(w)
    PROVE  FirehoseInv'
<1>1. Firehose!TypeOK'
  BY Zenon DEF FirehoseInv, Firehose!TypeOK, Firehose!EnqueueLost, Firehose!account, Firehose!sequencer,
         Firehose!relay
<1>2. LogInv' /\ StreamInv'
  BY Unsequenced, Zenon DEF Firehose!EnqueueLost
<1>3. CommitInv'
  <2>1. pc[w] = "enqueue" /\ pc'[w] = "answered" /\ \A v \in Writes \ {w} : pc'[v] = pc[v]
    BY Zenon DEF FirehoseInv, Firehose!TypeOK, Firehose!EnqueueLost
  <2>2. /\ firehose_log' = firehose_log /\ repo_seq' = repo_seq
        /\ \A i \in 1..Len(firehose_log) : firehose_log[i].commit \in Writes
    BY LogRows, Zenon DEF FirehoseInv, Firehose!EnqueueLost, Firehose!account, Firehose!sequencer
  <2>3. \A v \in Writes : Firehose!Committed(v)' <=> Firehose!Committed(v)
    BY <2>2, Zenon DEF Firehose!Committed
  <2> QED
    BY <2>1, <2>2, <2>3, Zenon DEF FirehoseInv, CommitInv, Put
<1> QED
  BY <1>1, <1>2, <1>3, Zenon DEF FirehoseInv

\* The sequencer logs a frame: what a seq divides the rows into, before and after.
LEMMA Logged ==
    ASSUME FirehoseInv, next' = next + 1, NEW f \in Firehose!Frame, f.seq = next,
           firehose_log' = Append(firehose_log, f)
    PROVE  /\ LogInv'
           /\ \A n \in Nat, k \in 0..Len(firehose_log) :
                n < next /\ Firehose!Divides(k, n) => Firehose!Divides(k, n)'
<1> DEFINE L == Len(firehose_log)
<1>0. /\ L \in Nat /\ \A i \in 1..L : firehose_log[i].seq \in Nat
      /\ next \in Nat \ {0} /\ firehose_log \in Seq(Firehose!Frame)
  BY LogRows, Zenon DEF FirehoseInv, Firehose!TypeOK
<1>1. /\ L \in Nat /\ next \in Nat /\ Len(firehose_log') = L + 1
      /\ firehose_log'[L + 1].seq = next
      /\ \A i \in 1..L : firehose_log'[i] = firehose_log[i] /\ firehose_log[i].seq \in Nat
  BY <1>0
<1>2. \A i \in 1..L : firehose_log[i].seq < next
  BY Zenon DEF FirehoseInv, LogInv
<1>3. \A i \in 1..(L + 1) : firehose_log'[i].seq < next'
  BY <1>1, <1>2, SMTT(30)
<1>4. ASSUME NEW i \in 1..(L + 1), NEW j \in 1..(L + 1), i < j
      PROVE  firehose_log'[i].seq < firehose_log'[j].seq
  <2>1. CASE j = L + 1
    BY <1>1, <1>2, <1>4, <2>1
  <2>2. CASE j # L + 1
    <3>1. i \in 1..L /\ j \in 1..L
      BY <1>1, <1>4, <2>2
    <3>2. firehose_log[i].seq < firehose_log[j].seq
      BY <1>4, <3>1, Zenon DEF FirehoseInv, LogInv
    <3> QED
      BY <1>1, <3>1, <3>2, Zenon
  <2> QED
    BY <2>1, <2>2, Zenon
<1>5. ASSUME NEW n \in Nat, NEW k \in 0..L, n < next, Firehose!Divides(k, n)
      PROVE  Firehose!Divides(k, n)'
  <2> SUFFICES ASSUME NEW i \in 1..(L + 1) PROVE firehose_log'[i].seq <= n <=> i <= k
    BY <1>1, Zenon DEF Firehose!Divides
  <2>1. CASE i = L + 1
    BY <1>1, <1>5, <2>1, SMTT(30)
  <2>2. CASE i # L + 1
    BY <1>1, <1>5, <2>2 DEF Firehose!Divides
  <2> QED
    BY <2>1, <2>2, Zenon
<1>6. ASSUME NEW n \in Nat PROVE \E k \in 0..(L + 1) : Firehose!Divides(k, n)'
  <2>1. CASE n < next
    <3>1. PICK k \in 0..L : Firehose!Divides(k, n)
      BY Zenon DEF FirehoseInv, LogInv
    <3>2. Firehose!Divides(k, n)' /\ k \in 0..(L + 1)
      BY <1>1, <1>5, <2>1, <3>1
    <3> QED
      BY <3>2, Zenon
  <2>2. CASE ~(n < next)
    <3>1. \A i \in 1..(L + 1) : firehose_log'[i].seq <= n
      BY <1>1, <1>2, <2>2, SMTT(30)
    <3>2. PICK k \in 0..(L + 1) : k = L + 1
      BY <1>1
    <3>3. Firehose!Divides(k, n)'
      BY <1>1, <3>1, <3>2 DEF Firehose!Divides
    <3> QED
      BY <3>3, Zenon
  <2> QED
    BY <2>1, <2>2, Zenon
<1>7. LogInv'
  BY <1>1, <1>3, <1>4, <1>6, Zenon DEF LogInv
<1> QED
  BY <1>5, <1>7, Zenon

\* The frame is pushed to every connected socket in the step that logs it.
LEMMA LoggedStream ==
    ASSUME FirehoseInv, next' = next + 1, NEW frame \in Firehose!Frame, frame.seq = next,
           firehose_log' = Append(firehose_log, frame), Firehose!Push(frame),
           UNCHANGED Firehose!relay
    PROVE  StreamInv'
<1>1. frame \in Firehose!Frame /\ next \in Nat
  BY Zenon DEF FirehoseInv, Firehose!TypeOK
<1>2. firehose_log' = Append(firehose_log, frame) /\ Firehose!Push(frame)
  BY Zenon
<1> SUFFICES ASSUME NEW c \in Clients
             PROVE  from'[c] < next' /\ \E k \in 0..Len(firehose_log') : Follows(c, k)'
  BY Zenon DEF StreamInv
<1>3. from[c] < next /\ from[c] \in Nat /\ from' = from /\ received' = received
  BY Zenon DEF FirehoseInv, Firehose!TypeOK, StreamInv, Firehose!relay
<1>4. PICK k \in 0..Len(firehose_log) : Follows(c, k)
  BY Zenon DEF FirehoseInv, StreamInv
<1>5. /\ firehose_log \in Seq(Firehose!Frame) /\ received[c] \in Seq(Firehose!Frame)
      /\ socket[c] # Nothing => socket[c] \in Seq(Firehose!Frame)
      /\ Len(firehose_log) \in Nat /\ k \in Nat /\ k + Len(received[c]) \in Nat
  BY DEF FirehoseInv, Firehose!TypeOK
<1>6. Firehose!Divides(k, from[c])'
  <2>1. PICK n \in Nat : n = from[c]
    BY <1>3, Zenon
  <2>2. Firehose!Divides(k, n) /\ n < next
    BY <1>3, <1>4, <2>1, Zenon DEF Follows
  <2>3. Firehose!Divides(k, n)'
    BY <2>2, Logged, Zenon
  <2> QED
    BY <1>3, <2>1, <2>3, Zenon DEF Firehose!Divides
<1>7. Firehose!IsRun(received[c], firehose_log', k)
  BY <1>1, <1>2, <1>4, <1>5, RunKept, Zenon DEF Follows
<1>8. ASSUME socket'[c] # Nothing
      PROVE  /\ Firehose!IsRun(socket'[c], firehose_log', k + Len(received[c]))
             /\ k + Len(received[c]) + Len(socket'[c]) = Len(firehose_log')
  <2>1. socket[c] # Nothing /\ socket'[c] = Append(socket[c], frame)
    BY <1>2, <1>8, Zenon DEF Firehose!Push
  <2>2. /\ Firehose!IsRun(socket[c], firehose_log, k + Len(received[c]))
        /\ k + Len(received[c]) + Len(socket[c]) = Len(firehose_log)
    BY <1>4, <2>1, Zenon DEF Follows
  <2>3. socket[c] \in Seq(Firehose!Frame)
    BY <1>5, <2>1, Zenon
  <2>4. PICK m \in Nat : m = k + Len(received[c])
    BY <1>5, Zenon
  <2>5. Firehose!IsRun(socket[c], firehose_log, m) /\ m + Len(socket[c]) = Len(firehose_log)
    BY <2>2, <2>4, Zenon
  <2>6. /\ Firehose!IsRun(Append(socket[c], frame), Append(firehose_log, frame), m)
        /\ m + Len(Append(socket[c], frame)) = Len(Append(firehose_log, frame))
    <3>1. Firehose!IsRun(Append(socket[c], frame), Append(firehose_log, frame), m)
      BY <1>1, <1>5, <2>3, <2>5, RunGrows, Zenon
    <3>2. /\ Len(Append(socket[c], frame)) = Len(socket[c]) + 1 /\ Len(socket[c]) \in Nat
          /\ Len(Append(firehose_log, frame)) = Len(firehose_log) + 1
      BY <1>5, <2>3
    <3>3. PICK a \in Nat : a = Len(socket[c])
      BY <3>2, Zenon
    <3>4. m + (a + 1) = (m + a) + 1
      OBVIOUS
    <3> QED
      BY <2>5, <3>1, <3>2, <3>3, <3>4, Zenon
  <2> QED
    BY <1>2, <2>1, <2>4, <2>6, Zenon
<1>9. Follows(c, k)'
  BY <1>3, <1>6, <1>7, <1>8, Zenon DEF Follows
<1>10. k \in 0..Len(firehose_log') /\ from'[c] < next'
  BY <1>1, <1>2, <1>3, <1>5, SMTT(30)
<1> QED
  BY <1>9, <1>10, Zenon

\* enqueue: the seq is new, so the row is logged and pushed unless something fails.
LEMMA SequenceStep ==
    ASSUME FirehoseInv, NEW w \in Writes, NEW by \in {"account", "operator"}, NEW ok \in BOOLEAN,
           Firehose!Sequence(w, by, ok), UNCHANGED Firehose!relay
    PROVE  /\ next' \in Nat \ {0} /\ firehose_log' \in Seq(Firehose!Frame)
           /\ socket' \in [Clients -> Seq(Firehose!Frame) \cup {Nothing}]
           /\ LogInv' /\ StreamInv'
           /\ \/ firehose_log' = firehose_log
              \/ firehose_log' = Append(firehose_log, [seq |-> next, commit |-> w, by |-> by])
<1> DEFINE frame == [seq |-> next, commit |-> w, by |-> by]
           L == Len(firehose_log)
<1>1. next' = next + 1 /\ next \in Nat \ {0} /\ UNCHANGED Firehose!relay
  BY Zenon DEF FirehoseInv, Firehose!TypeOK, Firehose!Sequence, Firehose!Bump
<1>2. \/ firehose_log' = Append(firehose_log, frame) /\ Firehose!Push(frame)
      \/ UNCHANGED <<firehose_log, socket>>
  BY Zenon DEF Firehose!Sequence
<1>3. frame \in Firehose!Frame /\ frame.seq = next
  BY <1>1, Zenon DEF Firehose!Frame
<1>4. next' \in Nat \ {0}
  BY <1>1
<1>5. firehose_log' \in Seq(Firehose!Frame)
  <2>1. firehose_log \in Seq(Firehose!Frame)
    BY Zenon DEF FirehoseInv, Firehose!TypeOK
  <2> HIDE DEF frame
  <2> QED
    BY <1>2, <1>3, <2>1
<1>6. socket' \in [Clients -> Seq(Firehose!Frame) \cup {Nothing}]
  <2>1. socket \in [Clients -> Seq(Firehose!Frame) \cup {Nothing}]
    BY Zenon DEF FirehoseInv, Firehose!TypeOK
  <2> HIDE DEF frame
  <2>2. \A s \in Seq(Firehose!Frame) : Append(s, frame) \in Seq(Firehose!Frame)
    BY <1>3, SMTT(30)
  <2> QED
    BY <1>2, <2>1, <2>2, Zenon DEF Firehose!Push
<1>7. LogInv' /\ StreamInv'
  <2> HIDE DEF frame
  <2>1. CASE firehose_log' = Append(firehose_log, frame) /\ Firehose!Push(frame)
    BY <1>1, <1>3, <2>1, Logged, LoggedStream, Zenon
  <2>2. CASE UNCHANGED <<firehose_log, socket>>
    <3>1. \A i \in 1..L : firehose_log[i].seq \in Nat
      BY LogRows, Zenon DEF FirehoseInv
    <3>2. \A i \in 1..L : firehose_log[i].seq < next'
      <4> SUFFICES ASSUME NEW i \in 1..L, NEW x, x = firehose_log[i].seq PROVE x < next'
        BY Zenon
      <4>1. x \in Nat /\ x < next
        BY <3>1, Zenon DEF FirehoseInv, LogInv
      <4> QED
        BY <1>1, <4>1
    <3>5. LogInv'
      BY <2>2, <3>2, Zenon DEF FirehoseInv, LogInv, Firehose!Divides
    <3>3. \A c \in Clients : from'[c] < next'
      BY <1>1 DEF FirehoseInv, Firehose!TypeOK, StreamInv, Firehose!relay
    <3>4. \A c \in Clients, k \in 0..L : Follows(c, k) => Follows(c, k)'
      BY <1>1, <2>2, ZenonT(60) DEF Follows, Firehose!Divides, Firehose!IsRun, Firehose!relay
    <3> QED
      BY <2>2, <3>3, <3>4, <3>5, Zenon DEF FirehoseInv, StreamInv
  <2> QED
    BY <1>2, <2>1, <2>2, Zenon
<1> QED
  BY <1>2, <1>4, <1>5, <1>6, <1>7, Zenon

\* A row that is appended is the last one, and the others stay where they are.
LEMMA Appended ==
    ASSUME FirehoseInv, NEW f \in Firehose!Frame, firehose_log' = Append(firehose_log, f)
    PROVE  \E m \in 1..Len(firehose_log') :
             /\ firehose_log'[m] = f
             /\ \A i \in 1..Len(firehose_log') :
                  i = m \/ (i \in 1..Len(firehose_log) /\ firehose_log'[i] = firehose_log[i])
<1> DEFINE L == Len(firehose_log)
<1>1. firehose_log \in Seq(Firehose!Frame) /\ L \in Nat
  BY LogRows, Zenon DEF FirehoseInv, Firehose!TypeOK
<1>2. /\ Len(firehose_log') = L + 1 /\ firehose_log'[L + 1] = f
      /\ \A i \in 1..L : firehose_log'[i] = firehose_log[i]
  BY <1>1, SMTT(30)
<1>3. L + 1 \in 1..(L + 1) /\ \A i \in 1..(L + 1) : i = L + 1 \/ i \in 1..L
  BY <1>1
<1>4. \A i \in 1..Len(firehose_log') :
        i = L + 1 \/ (i \in 1..L /\ firehose_log'[i] = firehose_log[i])
  BY <1>2, <1>3, Zenon
<1>5. L + 1 \in 1..Len(firehose_log') /\ firehose_log'[L + 1] = f
  BY <1>2, <1>3, Zenon
<1> QED
  BY <1>4, <1>5, Zenon

\* An account's object hands its commit over.  The write is answered either way, so its
\* commit is never handed over again.
LEMMA EnqueueStep ==
    ASSUME FirehoseInv, NEW w \in Writes, NEW ok \in BOOLEAN, Firehose!Enqueue(w, ok)
    PROVE  FirehoseInv'
<1> DEFINE L == Len(firehose_log)
<1>1. /\ UNCHANGED <<firehose_env, Firehose!account, injects, Firehose!relay>>
      /\ pc[w] = "enqueue" /\ pc' = [pc EXCEPT ![w] = "answered"]
      /\ Firehose!Sequence(w, "account", ok)
  BY Zenon DEF Firehose!Enqueue
<1>2. /\ next' \in Nat \ {0} /\ firehose_log' \in Seq(Firehose!Frame)
      /\ socket' \in [Clients -> Seq(Firehose!Frame) \cup {Nothing}]
      /\ LogInv' /\ StreamInv'
      /\ \/ firehose_log' = firehose_log
         \/ firehose_log' = Append(firehose_log, [seq |-> next, commit |-> w, by |-> "account"])
  BY <1>1, SequenceStep, Zenon
<1>3. Firehose!TypeOK'
  <2>1. pc' \in [Writes -> {"idle", "enqueue", "answered", "failed"}]
    BY <1>1, Zenon DEF FirehoseInv, Firehose!TypeOK
  <2> QED
    BY <1>1, <1>2, <2>1, Zenon DEF FirehoseInv, Firehose!TypeOK, Firehose!account, Firehose!relay
<1>4. CommitInv'
  <2>1. pc'[w] = "answered" /\ \A v \in Writes \ {w} : pc'[v] = pc[v]
    BY <1>1, Zenon DEF FirehoseInv, Firehose!TypeOK
  <2>2. \A v \in Writes : Firehose!Committed(v)' <=> Firehose!Committed(v)
    BY <1>1, Zenon DEF Firehose!Committed, Firehose!account
  <2>3. \A i \in 1..L : firehose_log[i].commit \in Writes
    BY LogRows, Zenon DEF FirehoseInv
  <2>4. \A i \in 1..L : Put(i) => firehose_log[i].commit # w
    BY <1>1, Zenon DEF FirehoseInv, CommitInv
  <2>5. \A v \in Writes : pc'[v] \in {"enqueue", "answered"} => Firehose!Committed(v)'
    BY <1>1, <2>1, <2>2, Zenon DEF FirehoseInv, CommitInv
  <2>6. CASE firehose_log' = firehose_log
    BY <2>1, <2>3, <2>5, <2>6, Zenon DEF FirehoseInv, CommitInv, Put
  <2>7. CASE firehose_log' = Append(firehose_log, [seq |-> next, commit |-> w, by |-> "account"])
    <3>1. PICK m \in 1..Len(firehose_log') :
             /\ firehose_log'[m].commit = w /\ firehose_log'[m].by = "account"
             /\ \A i \in 1..Len(firehose_log') :
                  i = m \/ (i \in 1..L /\ firehose_log'[i] = firehose_log[i])
      <4> DEFINE f == [seq |-> next, commit |-> w, by |-> "account"]
      <4>1. f \in Firehose!Frame
        BY Zenon DEF FirehoseInv, Firehose!TypeOK, Firehose!Frame
      <4>2. f.commit = w /\ f.by = "account"
        BY Zenon
      <4>3. firehose_log' = Append(firehose_log, f)
        BY <2>7, Zenon
      <4> HIDE DEF f
      <4>4. PICK m \in 1..Len(firehose_log') :
             /\ firehose_log'[m] = f
             /\ \A i \in 1..Len(firehose_log') :
                  i = m \/ (i \in 1..L /\ firehose_log'[i] = firehose_log[i])
        BY <4>1, <4>3, Appended, Zenon
      <4> QED
        BY <4>2, <4>4, Zenon
    <3>2. ASSUME NEW i \in 1..Len(firehose_log'), Put(i)'
          PROVE  pc'[firehose_log'[i].commit] = "answered"
      <4>1. CASE i = m
        BY <2>1, <3>1, <4>1, Zenon
      <4>2. CASE i \in 1..L /\ firehose_log'[i] = firehose_log[i]
        <5>1. firehose_log[i].commit \in Writes /\ pc[firehose_log[i].commit] = "answered"
          BY <2>3, <3>2, <4>2, Zenon DEF FirehoseInv, CommitInv, Put
        <5> QED
          BY <2>1, <4>2, <5>1, Zenon
      <4> QED
        BY <3>1, <4>1, <4>2, Zenon
    <3>3. \A i, j \in 1..Len(firehose_log') :
            Put(i)' /\ Put(j)' /\ firehose_log'[i].commit = firehose_log'[j].commit => i = j
      BY <2>4, <3>1, Zenon DEF FirehoseInv, CommitInv, Put
    <3> QED
      BY <2>5, <3>2, <3>3, Zenon DEF CommitInv
  <2> QED
    BY <1>2, <2>6, <2>7, Zenon
<1> QED
  BY <1>2, <1>3, <1>4, Zenon DEF FirehoseInv

\* The operator's push is a row of its own kind: no write moves.
LEMMA InjectStep ==
    ASSUME FirehoseInv, NEW w \in Writes, NEW ok \in BOOLEAN, Firehose!Inject(w, ok),
           MaxInjects \in Nat
    PROVE  FirehoseInv'
<1> DEFINE L == Len(firehose_log)
<1>1. /\ UNCHANGED <<firehose_env, Firehose!account, pc, Firehose!relay>>
      /\ injects < MaxInjects /\ injects' = injects + 1
      /\ Firehose!Sequence(w, "operator", ok)
  BY Zenon DEF Firehose!Inject
<1>2. /\ next' \in Nat \ {0} /\ firehose_log' \in Seq(Firehose!Frame)
      /\ socket' \in [Clients -> Seq(Firehose!Frame) \cup {Nothing}]
      /\ LogInv' /\ StreamInv'
      /\ \/ firehose_log' = firehose_log
         \/ firehose_log' = Append(firehose_log, [seq |-> next, commit |-> w, by |-> "operator"])
  BY <1>1, SequenceStep, Zenon
<1>3. Firehose!TypeOK'
  <2>1. injects \in 0..MaxInjects
    BY Zenon DEF FirehoseInv, Firehose!TypeOK
  <2>2. injects' \in 0..MaxInjects
    BY <1>1, <2>1
  <2> QED
    BY <1>1, <1>2, <2>2, Zenon DEF FirehoseInv, Firehose!TypeOK, Firehose!account, Firehose!relay
<1>4. CommitInv'
  <2>1. \A v \in Writes : Firehose!Committed(v)' <=> Firehose!Committed(v)
    BY <1>1, Zenon DEF Firehose!Committed, Firehose!account
  <2>2. \A v \in Writes : pc'[v] \in {"enqueue", "answered"} => Firehose!Committed(v)'
    BY <1>1, <2>1, Zenon DEF FirehoseInv, CommitInv
  <2>3. \A i \in 1..Len(firehose_log') :
          Put(i)' => i \in 1..L /\ firehose_log'[i] = firehose_log[i]
    <3>1. CASE firehose_log' = firehose_log
      BY <3>1, Zenon
    <3>2. CASE firehose_log' = Append(firehose_log, [seq |-> next, commit |-> w, by |-> "operator"])
      <4>1. PICK m \in 1..Len(firehose_log') :
               /\ firehose_log'[m].commit = w /\ firehose_log'[m].by = "operator"
               /\ \A i \in 1..Len(firehose_log') :
                    i = m \/ (i \in 1..L /\ firehose_log'[i] = firehose_log[i])
        <5> DEFINE f == [seq |-> next, commit |-> w, by |-> "operator"]
        <5>1. f \in Firehose!Frame
          BY Zenon DEF FirehoseInv, Firehose!TypeOK, Firehose!Frame
        <5>2. f.commit = w /\ f.by = "operator"
          BY Zenon
        <5>3. firehose_log' = Append(firehose_log, f)
          BY <3>2, Zenon
        <5> HIDE DEF f
        <5>4. PICK m \in 1..Len(firehose_log') :
               /\ firehose_log'[m] = f
               /\ \A i \in 1..Len(firehose_log') :
                    i = m \/ (i \in 1..L /\ firehose_log'[i] = firehose_log[i])
          BY <5>1, <5>3, Appended, Zenon
        <5> QED
          BY <5>2, <5>4, Zenon
      <4>2. "operator" # "account"
        OBVIOUS
      <4> QED
        BY <4>1, <4>2, Zenon DEF Put
    <3> QED
      BY <1>2, <3>1, <3>2, Zenon
  <2>4. \A i \in 1..Len(firehose_log') :
          Put(i)' => Put(i) /\ i \in 1..L /\ firehose_log'[i].commit = firehose_log[i].commit
    BY <2>3, Zenon DEF Put
  <2>5. \A i \in 1..Len(firehose_log') : Put(i)' => pc'[firehose_log'[i].commit] = "answered"
    BY <1>1, <2>4, Zenon DEF FirehoseInv, CommitInv
  <2>6. \A i, j \in 1..Len(firehose_log') :
          Put(i)' /\ Put(j)' /\ firehose_log'[i].commit = firehose_log'[j].commit => i = j
    BY <2>4, Zenon DEF FirehoseInv, CommitInv
  <2> QED
    BY <2>2, <2>5, <2>6, Zenon DEF CommitInv
<1> QED
  BY <1>2, <1>3, <1>4, Zenon DEF FirehoseInv

\* A step that leaves the log and the writes alone.
LEMMA Unwritten ==
    ASSUME FirehoseInv, UNCHANGED <<Firehose!account, pc, Firehose!sequencer>>
    PROVE  LogInv' /\ CommitInv'
<1>1. LogInv'
  BY Zenon DEF FirehoseInv, LogInv, Firehose!Divides, Firehose!sequencer
<1>2. \A w \in Writes : Firehose!Committed(w)' <=> Firehose!Committed(w)
  BY Zenon DEF Firehose!Committed, Firehose!account
<1> QED
  BY <1>1, <1>2, Zenon DEF FirehoseInv, CommitInv, Put, Firehose!sequencer

\* The other clients.
LEMMA Others ==
    ASSUME FirehoseInv, UNCHANGED Firehose!sequencer, NEW e \in Clients,
           received'[e] = received[e], socket'[e] = socket[e], from'[e] = from[e]
    PROVE  from'[e] < next' /\ \E k \in 0..Len(firehose_log') : Follows(e, k)'
<1>1. firehose_log' = firehose_log /\ next' = next
  BY Zenon DEF Firehose!sequencer
<1>2. PICK k \in 0..Len(firehose_log) : Follows(e, k)
  BY Zenon DEF FirehoseInv, StreamInv
<1>3. Firehose!Divides(k, from[e])'
  BY <1>1, <1>2, Zenon DEF Follows, Firehose!Divides
<1>4. Follows(e, k)'
  BY <1>1, <1>2, <1>3, Zenon DEF Follows
<1> QED
  BY <1>1, <1>2, <1>4, Zenon DEF FirehoseInv, StreamInv

\* A connection that ends leaves the client with the prefix it received.
LEMMA CloseStep ==
    ASSUME FirehoseInv, NEW c \in Clients, Firehose!Close(c)
    PROVE  FirehoseInv'
<1>1. Firehose!TypeOK'
  BY Zenon DEF FirehoseInv, Firehose!TypeOK, Firehose!Close, Firehose!account, Firehose!sequencer,
         Firehose!relay
<1>2. LogInv' /\ CommitInv'
  BY Unwritten, Zenon DEF Firehose!Close
<1>3. StreamInv'
  <2>1. /\ socket'[c] = Nothing /\ \A e \in Clients \ {c} : socket'[e] = socket[e]
        /\ UNCHANGED <<Firehose!sequencer, Firehose!relay>>
    BY Zenon DEF FirehoseInv, Firehose!TypeOK, Firehose!Close
  <2>2. from'[c] < next' /\ \E k \in 0..Len(firehose_log') : Follows(c, k)'
    BY <2>1, Zenon DEF FirehoseInv, StreamInv, Follows, Firehose!Divides, Firehose!IsRun,
                Firehose!sequencer, Firehose!relay
  <2>3. \A e \in Clients \ {c} : from'[e] < next' /\ \E k \in 0..Len(firehose_log') : Follows(e, k)'
    BY <2>1, Others, Zenon DEF Firehose!relay
  <2> QED
    BY <2>2, <2>3, Zenon DEF StreamInv
<1> QED
  BY <1>1, <1>2, <1>3, Zenon DEF FirehoseInv

\* The first frame on the way is the next row of the client's stream.
LEMMA ReceiveStep ==
    ASSUME FirehoseInv, NEW c \in Clients, Firehose!Receive(c)
    PROVE  FirehoseInv'
<1> DEFINE R == received[c]
           S == socket[c]
<1>1. /\ S # Nothing /\ S \in Seq(Firehose!Frame) /\ S # <<>>
      /\ R \in Seq(Firehose!Frame) /\ firehose_log \in Seq(Firehose!Frame)
      /\ received' = [received EXCEPT ![c] = Append(R, Head(S))]
      /\ socket' = [socket EXCEPT ![c] = Tail(S)]
      /\ UNCHANGED <<firehose_env, Firehose!account, pc, injects, Firehose!sequencer, connects, from>>
  BY Zenon DEF FirehoseInv, Firehose!TypeOK, Firehose!Receive
<1>2. /\ received'[c] = Append(R, Head(S)) /\ socket'[c] = Tail(S)
      /\ \A e \in Clients \ {c} : received'[e] = received[e] /\ socket'[e] = socket[e]
  BY <1>1, Zenon DEF FirehoseInv, Firehose!TypeOK
<1>3. PICK k \in 0..Len(firehose_log) : Follows(c, k)
  BY Zenon DEF FirehoseInv, StreamInv
<1>4. k \in Nat /\ Len(R) \in Nat /\ Len(S) \in Nat
  BY <1>1
<1>5. /\ Firehose!IsRun(R, firehose_log, k) /\ Firehose!IsRun(S, firehose_log, k + Len(R))
      /\ k + Len(R) + Len(S) = Len(firehose_log)
  BY <1>1, <1>3, Zenon DEF Follows
<1>6. /\ received'[c] \in Seq(Firehose!Frame) /\ socket'[c] \in Seq(Firehose!Frame)
      /\ Firehose!IsRun(received'[c], firehose_log, k)
      /\ Firehose!IsRun(socket'[c], firehose_log, k + Len(received'[c]))
      /\ Len(received'[c]) + Len(socket'[c]) = Len(R) + Len(S)
  <2>1. /\ Append(R, Head(S)) \in Seq(Firehose!Frame) /\ Tail(S) \in Seq(Firehose!Frame)
        /\ Firehose!IsRun(Append(R, Head(S)), firehose_log, k)
        /\ Firehose!IsRun(Tail(S), firehose_log, k + Len(Append(R, Head(S))))
        /\ Len(Append(R, Head(S))) + Len(Tail(S)) = Len(R) + Len(S)
    <3> HIDE DEF R, S
    <3>1. /\ R \in Seq(Firehose!Frame) /\ S \in Seq(Firehose!Frame) /\ S # <<>>
          /\ firehose_log \in Seq(Firehose!Frame)
      BY <1>1, Zenon
    <3> QED
      BY <1>4, <1>5, <3>1, RunMoves, SMTT(20)
  <2> QED
    BY <1>2, <2>1, Zenon
<1>7. Firehose!TypeOK'
  BY <1>1, <1>2, <1>6, Zenon DEF FirehoseInv, Firehose!TypeOK, Firehose!account, Firehose!sequencer
<1>8. LogInv' /\ CommitInv'
  BY <1>1, Unwritten, Zenon
<1>9. from'[c] < next' /\ \E j \in 0..Len(firehose_log') : Follows(c, j)'
  <2>1. Firehose!Divides(k, from[c])' /\ firehose_log' = firehose_log /\ next' = next /\ from' = from
    BY <1>1, <1>3, Zenon DEF Follows, Firehose!Divides, Firehose!sequencer
  <2>2. k + Len(received'[c]) + Len(socket'[c]) = Len(firehose_log)
    <3>1. Len(received'[c]) \in Nat /\ Len(socket'[c]) \in Nat
      BY <1>6
    <3>2. PICK a \in Nat, b \in Nat, x \in Nat, y \in Nat :
            a = Len(R) /\ b = Len(S) /\ x = Len(received'[c]) /\ y = Len(socket'[c])
      BY <1>4, <3>1, Zenon
    <3>3. x + y = a + b /\ k + a + b = Len(firehose_log)
      BY <1>5, <1>6, <3>2, Zenon
    <3>4. k + x + y = k + a + b
      <4>1. x + y = a + b /\ k \in Nat
        BY <1>4, <3>3, Zenon
      <4> QED
        BY <4>1
    <3> QED
      BY <3>2, <3>3, <3>4, Zenon
  <2>3. Follows(c, k)'
    BY <1>6, <2>1, <2>2, Zenon DEF Follows
  <2> QED
    BY <2>1, <2>3, Zenon DEF FirehoseInv, StreamInv
<1>10. \A e \in Clients \ {c} : from'[e] < next' /\ \E j \in 0..Len(firehose_log') : Follows(e, j)'
  BY <1>1, <1>2, Others, Zenon
<1>11. StreamInv'
  BY <1>9, <1>10, Zenon DEF StreamInv
<1> QED
  BY <1>7, <1>8, <1>11, Zenon DEF FirehoseInv

\* SELECT ... WHERE seq > after: the rows after the ones up to it.
LEMMA BacklogIs ==
    ASSUME Firehose!TypeOK, NEW n \in Nat, NEW k \in 0..Len(firehose_log), Firehose!Divides(k, n)
    PROVE  /\ Firehose!Backlog(n) \in Seq(Firehose!Frame)
           /\ Firehose!IsRun(Firehose!Backlog(n), firehose_log, k)
           /\ k + Len(Firehose!Backlog(n)) = Len(firehose_log)
<1>1. Firehose!Backlog(n) = SubSeq(firehose_log, k + 1, Len(firehose_log))
  BY RowsUpToIs, Zenon DEF Firehose!Backlog
<1>2. firehose_log \in Seq(Firehose!Frame)
  BY Zenon DEF Firehose!TypeOK
<1> QED
  BY <1>1, <1>2, RunOfRest, Zenon

\* Subscribe's parts: where the client's stream goes on (after what it received last, or
\* after its cursor), what it is sent, and where its stream started.
After(c, cursor) == IF received[c] # <<>> THEN received[c][Len(received[c])].seq ELSE cursor

Sent(after) == IF after = Nothing THEN <<>> ELSE Firehose!Backlog(after)

Start(c, after) ==
    IF received[c] # <<>> THEN from[c]
    ELSE IF after = Nothing \/ after > next - 1 THEN next - 1 ELSE after

\* Given where it starts, the rows received and the backlog that is sent are the rest
\* of the log: the last frame received is a row of the log, and its seq divides the
\* log right after it.
LEMMA Resumes ==
    ASSUME Firehose!ConstantsAssumption, FirehoseInv, NEW c \in Clients,
           NEW cursor \in 0..next \cup {Nothing},
           NEW S, S = Sent(After(c, cursor)), NEW f, f = Start(c, After(c, cursor))
    PROVE  /\ f \in Nat /\ f < next /\ S \in Seq(Firehose!Frame)
           /\ \E j \in 0..Len(firehose_log) :
                /\ Firehose!Divides(j, f) /\ Firehose!IsRun(received[c], firehose_log, j)
                /\ Firehose!IsRun(S, firehose_log, j + Len(received[c]))
                /\ j + Len(received[c]) + Len(S) = Len(firehose_log)
<1> DEFINE R == received[c]
           head == next - 1
           after == After(c, cursor)
<1>0. /\ after = (IF R # <<>> THEN R[Len(R)].seq ELSE cursor)
      /\ S = (IF after = Nothing THEN <<>> ELSE Firehose!Backlog(after))
      /\ f = IF R # <<>> THEN from[c] ELSE IF after = Nothing \/ after > head THEN head ELSE after
  BY Zenon DEF After, Sent, Start
<1>1. /\ Firehose!TypeOK /\ next \in Nat \ {0} /\ R \in Seq(Firehose!Frame)
      /\ from[c] \in Nat /\ Nothing \notin Nat
  BY Zenon DEF FirehoseInv, Firehose!TypeOK
<1>2. Len(R) \in Nat /\ head \in Nat /\ head < next /\ \A n \in Nat : n < next <=> n <= head
  BY <1>1
<1> HIDE DEF R, head, after
<1>3. /\ Len(firehose_log) \in Nat
      /\ \A i \in 1..Len(firehose_log) : firehose_log[i].seq \in Nat /\ firehose_log[i].seq < next
  BY <1>1, LogRows, Zenon DEF FirehoseInv, LogInv
<1>4. PICK k \in 0..Len(firehose_log) : Follows(c, k)
  BY Zenon DEF FirehoseInv, StreamInv
<1>5. CASE R # <<>>
  <2> DEFINE m == k + Len(R)
  <2>1. Len(R) \in 1..Len(R)
    BY <1>1, <1>5
  <2>2. Firehose!IsRun(R, firehose_log, k) /\ Firehose!Divides(k, from[c])
    BY <1>4, Zenon DEF Follows, R
  <2>3. R[Len(R)] = firehose_log[m] /\ m <= Len(firehose_log)
    BY <2>1, <2>2, Zenon DEF Firehose!IsRun
  <2>4. m \in 1..Len(firehose_log) /\ m \in 0..Len(firehose_log)
    BY <1>2, <1>3, <2>1, <2>3
  <2> HIDE DEF m
  <2>5. after = firehose_log[m].seq /\ after \in Nat
    BY <1>0, <1>3, <1>5, <2>3, <2>4, Zenon
  <2>6. ASSUME NEW i \in 1..Len(firehose_log) PROVE firehose_log[i].seq <= after <=> i <= m
    <3> DEFINE x == firehose_log[i].seq
    <3>1. x \in Nat /\ (i < m => x < after) /\ (m < i => after < x) /\ (i = m => x = after)
      BY <1>3, <2>4, <2>5, Zenon DEF FirehoseInv, LogInv
    <3> HIDE DEF x
    <3>2. x <= after <=> i <= m
      BY <2>4, <2>5, <3>1, SMTT(30)
    <3> QED
      BY <3>2, Zenon DEF x
  <2>7. Firehose!Divides(m, after)
    BY <2>6, Zenon DEF Firehose!Divides
  <2>8. S = Firehose!Backlog(after) /\ f = from[c]
    BY <1>0, <1>1, <1>5, <2>5, Zenon
  <2>9. S \in Seq(Firehose!Frame) /\ Firehose!IsRun(S, firehose_log, m) /\ m + Len(S) = Len(firehose_log)
    <3>1. Firehose!TypeOK /\ after \in Nat /\ m \in 0..Len(firehose_log)
      BY <1>1, <2>4, <2>5, Zenon
    <3>2. /\ Firehose!Backlog(after) \in Seq(Firehose!Frame)
          /\ Firehose!IsRun(Firehose!Backlog(after), firehose_log, m)
          /\ m + Len(Firehose!Backlog(after)) = Len(firehose_log)
      BY <2>7, <3>1, BacklogIs, Zenon
    <3> QED
      BY <2>8, <3>2, Zenon
  <2>10. f \in Nat /\ f < next
    BY <1>1, <2>8, Zenon DEF FirehoseInv, StreamInv
  <2> QED
    BY <1>4, <2>2, <2>8, <2>9, <2>10, Zenon DEF m, R
<1>6. ASSUME R = <<>>, NEW j \in 0..Len(firehose_log), Firehose!Divides(j, f), f \in Nat, f < next,
             S \in Seq(Firehose!Frame), Firehose!IsRun(S, firehose_log, j), j + Len(S) = Len(firehose_log)
      PROVE  /\ Firehose!IsRun(R, firehose_log, j) /\ Firehose!IsRun(S, firehose_log, j + Len(R))
             /\ j + Len(R) + Len(S) = Len(firehose_log)
  <2>1. Len(R) = 0 /\ j + Len(R) = j /\ j <= Len(firehose_log)
    BY <1>3, <1>6, SMTT(30)
  <2>2. Firehose!IsRun(R, firehose_log, j)
    BY <2>1 DEF Firehose!IsRun
  <2> QED
    BY <1>6, <2>1, <2>2, Zenon
<1>7. CASE R = <<>> /\ (cursor = Nothing \/ cursor > head)
  <2>1. f = head /\ after = cursor
    BY <1>0, <1>7, Zenon
  <2>2. Len(firehose_log) \in 0..Len(firehose_log)
    BY <1>3
  <2>3. \A i \in 1..Len(firehose_log) : firehose_log[i].seq <= head
    <3> SUFFICES ASSUME NEW i \in 1..Len(firehose_log), NEW x, x = firehose_log[i].seq
                 PROVE  x <= head
      BY Zenon
    <3>1. x \in Nat /\ x < next
      BY <1>3, Zenon
    <3> QED
      BY <1>2, <3>1, Zenon
  <2>4. \A i \in 1..Len(firehose_log) : i <= Len(firehose_log)
    BY <1>3
  <2>5. Firehose!Divides(Len(firehose_log), head)
    BY <2>3, <2>4, Zenon DEF Firehose!Divides
  <2>6. /\ S \in Seq(Firehose!Frame) /\ Firehose!IsRun(S, firehose_log, Len(firehose_log))
        /\ Len(firehose_log) + Len(S) = Len(firehose_log)
    <3>1. CASE cursor = Nothing
      <4>1. S = <<>>
        BY <1>0, <2>1, <3>1, Zenon
      <4>2. firehose_log \in Seq(Firehose!Frame)
        BY <1>1, Zenon DEF Firehose!TypeOK
      <4> QED
        BY <2>2, <4>1, <4>2, EmptyRun, Zenon
    <3>2. CASE cursor # Nothing
      <4>1. cursor \in Nat /\ cursor > head
        BY <1>1, <1>7, <3>2
      <4>2. ASSUME NEW i \in 1..Len(firehose_log), NEW x, x = firehose_log[i].seq PROVE x <= cursor
        <5>1. x \in Nat /\ x <= head
          BY <1>3, <2>3, <4>2, Zenon
        <5> QED
          BY <1>2, <4>1, <5>1
      <4>3. Firehose!Divides(Len(firehose_log), cursor)
        BY <2>4, <4>2, Zenon DEF Firehose!Divides
      <4>4. S = Firehose!Backlog(cursor)
        BY <1>0, <2>1, <3>2, Zenon
      <4> QED
        BY <1>1, <2>2, <4>1, <4>3, <4>4, BacklogIs, ZenonT(60)
    <3> QED
      BY <3>1, <3>2, Zenon
  <2> QED
    BY <1>2, <1>6, <1>7, <2>1, <2>2, <2>5, <2>6, Zenon DEF R
<1>8. CASE R = <<>> /\ cursor # Nothing /\ ~(cursor > head)
  <2>1. cursor \in Nat /\ cursor < next
    <3>1. cursor \in Nat
      BY <1>1, <1>8
    <3> QED
      BY <1>2, <1>8, <3>1
  <2>2. PICK j \in 0..Len(firehose_log) : Firehose!Divides(j, cursor)
    BY <2>1, Zenon DEF FirehoseInv, LogInv
  <2>3. f = cursor /\ S = Firehose!Backlog(cursor)
    BY <1>0, <1>8, Zenon
  <2>4. S \in Seq(Firehose!Frame) /\ Firehose!IsRun(S, firehose_log, j) /\ j + Len(S) = Len(firehose_log)
    BY <1>1, <2>1, <2>2, <2>3, BacklogIs, Zenon
  <2> QED
    BY <1>6, <1>8, <2>1, <2>2, <2>3, <2>4, Zenon DEF R
<1> QED
  BY <1>5, <1>7, <1>8, Zenon

\* subscribe: the client is connected, and its stream is complete again.
LEMMA SubscribeStep ==
    ASSUME Firehose!ConstantsAssumption, FirehoseInv, NEW c \in Clients,
           NEW cursor \in 0..next \cup {Nothing}, Firehose!Subscribe(c, cursor)
    PROVE  FirehoseInv'
<1> DEFINE R == received[c]
           S == Sent(After(c, cursor))
           f == Start(c, After(c, cursor))
<1>1. /\ socket' = [socket EXCEPT ![c] = S]
      /\ connects[c] < MaxConnects /\ connects' = [connects EXCEPT ![c] = @ + 1]
      /\ from' = IF R # <<>> THEN from ELSE [from EXCEPT ![c] = f]
      /\ UNCHANGED <<firehose_env, Firehose!account, pc, injects, Firehose!sequencer, received>>
  BY Zenon DEF Firehose!Subscribe, Sent, After, Start
<1>2. /\ f \in Nat /\ f < next /\ S \in Seq(Firehose!Frame)
      /\ \E j \in 0..Len(firehose_log) :
           /\ Firehose!Divides(j, f) /\ Firehose!IsRun(R, firehose_log, j)
           /\ Firehose!IsRun(S, firehose_log, j + Len(R))
           /\ j + Len(R) + Len(S) = Len(firehose_log)
  BY Resumes, Zenon
<1>3. from' = [from EXCEPT ![c] = f]
  <2>1. from \in [Clients -> Nat]
    BY Zenon DEF FirehoseInv, Firehose!TypeOK
  <2>2. CASE R # <<>>
    <3>1. from' = from /\ f = from[c]
      BY <1>1, <2>2, Zenon DEF Start
    <3> HIDE DEF f
    <3> QED
      BY <2>1, <3>1, Zenon
  <2>3. CASE R = <<>>
    BY <1>1, <2>3, Zenon
  <2> QED
    BY <2>2, <2>3, Zenon
<1> HIDE DEF R, S, f
<1>4. /\ socket'[c] = S /\ from'[c] = f /\ received'[c] = R /\ received' = received
      /\ \A e \in Clients \ {c} : socket'[e] = socket[e] /\ from'[e] = from[e]
  <2>1. socket \in [Clients -> Seq(Firehose!Frame) \cup {Nothing}] /\ from \in [Clients -> Nat]
    BY Zenon DEF FirehoseInv, Firehose!TypeOK
  <2> QED
    BY <1>1, <1>3, <2>1, Zenon DEF R
<1>5. Firehose!TypeOK'
  <2>1. connects' \in [Clients -> 0..MaxConnects]
    BY <1>1 DEF FirehoseInv, Firehose!TypeOK
  <2>2. socket' \in [Clients -> Seq(Firehose!Frame) \cup {Nothing}]
    BY <1>1, <1>2, Zenon DEF FirehoseInv, Firehose!TypeOK
  <2>3. from' \in [Clients -> Nat]
    BY <1>2, <1>3, Zenon DEF FirehoseInv, Firehose!TypeOK
  <2> QED
    BY <1>1, <2>1, <2>2, <2>3, Zenon DEF FirehoseInv, Firehose!TypeOK, Firehose!account,
                                         Firehose!sequencer
<1>6. LogInv' /\ CommitInv'
  BY <1>1, Unwritten, Zenon
<1>7. firehose_log' = firehose_log /\ next' = next
  BY <1>1, Zenon DEF Firehose!sequencer
<1>8. from'[c] < next' /\ \E j \in 0..Len(firehose_log') : Follows(c, j)'
  BY <1>2, <1>4, <1>7, Zenon DEF Follows, Firehose!Divides
<1>9. \A e \in Clients \ {c} : from'[e] < next' /\ \E j \in 0..Len(firehose_log') : Follows(e, j)'
  BY <1>1, <1>4, Others, Zenon
<1>10. StreamInv'
  BY <1>8, <1>9, Zenon DEF StreamInv
<1> QED
  BY <1>5, <1>6, <1>10, Zenon DEF FirehoseInv

-----------------------------------------------------------------------------

\* Every step preserves the invariant.
LEMMA NextFirehoseInv ==
    ASSUME Firehose!ConstantsAssumption
    PROVE  FirehoseInv /\ [Firehose!Next]_(Firehose!vars) => FirehoseInv'
<1> SUFFICES ASSUME FirehoseInv, [Firehose!Next]_(Firehose!vars) PROVE FirehoseInv'
  BY Zenon
<1>1. ASSUME NEW w \in Writes, NEW d \in Repos, NEW n \in 0..2, Firehose!Write(w, d, n) PROVE FirehoseInv'
  BY <1>1, WriteStep, Zenon
<1>2. ASSUME NEW w \in Writes, Firehose!EnqueueLost(w) PROVE FirehoseInv'
  BY <1>2, EnqueueLostStep, Zenon
<1>3. ASSUME NEW w \in Writes, NEW ok \in BOOLEAN, Firehose!Enqueue(w, ok) PROVE FirehoseInv'
  BY <1>3, EnqueueStep, Zenon
<1>8. ASSUME NEW w \in Writes, NEW ok \in BOOLEAN, Firehose!Inject(w, ok) PROVE FirehoseInv'
  BY <1>8, InjectStep, Zenon DEF Firehose!ConstantsAssumption
<1>4. ASSUME NEW c \in Clients, NEW cursor \in 0..next \cup {Nothing}, Firehose!Subscribe(c, cursor)
      PROVE  FirehoseInv'
  BY <1>4, SubscribeStep, Zenon
<1>5. ASSUME NEW c \in Clients, Firehose!Receive(c) PROVE FirehoseInv'
  BY <1>5, ReceiveStep, Zenon
<1>6. ASSUME NEW c \in Clients, Firehose!Close(c) PROVE FirehoseInv'
  BY <1>6, CloseStep, Zenon
<1>7. CASE UNCHANGED Firehose!vars
  <2>1. Firehose!TypeOK' /\ LogInv'
    BY <1>7, Zenon DEF FirehoseInv, Firehose!TypeOK, LogInv, Firehose!Divides, Firehose!vars
  <2>2. \A w \in Writes : Firehose!Committed(w)' <=> Firehose!Committed(w)
    BY <1>7, Zenon DEF Firehose!Committed, Firehose!vars
  <2>3. CommitInv'
    BY <1>7, <2>2, Zenon DEF FirehoseInv, CommitInv, Put, Firehose!vars
  <2>4. \A c \in Clients, k \in 0..Len(firehose_log) : Follows(c, k)' <=> Follows(c, k)
    BY <1>7, ZenonT(60) DEF Follows, Firehose!Divides, Firehose!IsRun, Firehose!vars
  <2>5. StreamInv'
    BY <1>7, <2>4, Zenon DEF FirehoseInv, StreamInv, Firehose!vars
  <2> QED
    BY <2>1, <2>3, <2>5, Zenon DEF FirehoseInv
<1> QED
  BY <1>1, <1>2, <1>3, <1>4, <1>5, <1>6, <1>7, <1>8, Zenon DEF Firehose!Next

\* The invariant holds throughout.
LEMMA FirehoseInvariance ==
    ASSUME Firehose!ConstantsAssumption
    PROVE  Firehose!Spec => []FirehoseInv
<1>1. Firehose!Init => FirehoseInv
  BY InitFirehoseInv, Zenon
<1>2. FirehoseInv /\ [Firehose!Next]_(Firehose!vars) => FirehoseInv'
  BY NextFirehoseInv, Zenon
<1> QED BY <1>1, <1>2, PTL DEF Firehose!Spec

\* What was received and what is on the way are one run.
LEMMA InvStream == FirehoseInv => Firehose!StreamIsLog
<1> SUFFICES ASSUME FirehoseInv, NEW c \in Clients
             PROVE  \E k \in 0..Len(firehose_log) :
                      /\ Firehose!Divides(k, from[c])
                      /\ Firehose!IsRun(Firehose!Stream(c), firehose_log, k)
                      /\ socket[c] # Nothing => k + Len(Firehose!Stream(c)) = Len(firehose_log)
  BY Zenon DEF Firehose!StreamIsLog
<1>1. PICK k \in 0..Len(firehose_log) : Follows(c, k)
  BY Zenon DEF FirehoseInv, StreamInv
<1>2. /\ firehose_log \in Seq(Firehose!Frame) /\ received[c] \in Seq(Firehose!Frame)
      /\ (socket[c] # Nothing => socket[c] \in Seq(Firehose!Frame)) /\ k \in Nat
  BY DEF FirehoseInv, Firehose!TypeOK
<1>3. CASE socket[c] = Nothing
  <2>1. received[c] \o <<>> = received[c]
    BY <1>2
  <2> QED
    BY <1>1, <1>3, <2>1, Zenon DEF Follows, Firehose!Stream
<1>4. CASE socket[c] # Nothing
  <2>1. Firehose!Stream(c) = received[c] \o socket[c]
    BY <1>4, Zenon DEF Firehose!Stream
  <2>2. /\ Firehose!IsRun(received[c], firehose_log, k)
        /\ Firehose!IsRun(socket[c], firehose_log, k + Len(received[c]))
        /\ k + Len(received[c]) + Len(socket[c]) = Len(firehose_log) /\ Firehose!Divides(k, from[c])
    BY <1>1, <1>4, Zenon DEF Follows
  <2>3. /\ Firehose!IsRun(Firehose!Stream(c), firehose_log, k)
        /\ Len(Firehose!Stream(c)) = Len(received[c]) + Len(socket[c])
    <3>1. socket[c] \in Seq(Firehose!Frame)
      BY <1>2, <1>4, Zenon
    <3>2. /\ Firehose!IsRun(received[c] \o socket[c], firehose_log, k)
          /\ Len(received[c] \o socket[c]) = Len(received[c]) + Len(socket[c])
      <4>1. Firehose!IsRun(received[c] \o socket[c], firehose_log, k)
        BY <1>2, <2>2, <3>1, RunsJoin, Zenon
      <4>2. Len(received[c] \o socket[c]) = Len(received[c]) + Len(socket[c])
        BY <1>2, <3>1
      <4> QED
        BY <4>1, <4>2, Zenon
    <3> QED
      BY <2>1, <3>2, Zenon
  <2>4. k + Len(Firehose!Stream(c)) = Len(firehose_log)
    <3>1. Len(received[c]) \in Nat /\ Len(socket[c]) \in Nat
      BY <1>2, <1>4
    <3> QED
      <4>1. PICK a \in Nat, b \in Nat : a = Len(received[c]) /\ b = Len(socket[c])
        BY <3>1, Zenon
      <4>2. k + a + b = Len(firehose_log) /\ Len(Firehose!Stream(c)) = a + b
        BY <2>2, <2>3, <4>1, Zenon
      <4>3. k + (a + b) = k + a + b
        <5>1. k \in Nat
          BY <1>2, Zenon
        <5> QED
          BY <5>1
      <4> QED
        BY <4>2, <4>3, Zenon
  <2> QED
    BY <2>2, <2>3, <2>4, Zenon
<1> QED
  BY <1>3, <1>4, Zenon

\* sequencer.rs, enqueue and subscribe: over all its connections, and whatever is
\* lost, fails or closes, a relay sees every row of the log after its start once and
\* in order.
THEOREM StreamsAreTheLog ==
    ASSUME Firehose!ConstantsAssumption
    PROVE  Firehose!Spec => []Firehose!StreamIsLog
<1>1. Firehose!Spec => []FirehoseInv
  BY FirehoseInvariance, Zenon
<1>2. FirehoseInv => Firehose!StreamIsLog
  BY InvStream, Zenon
<1> QED BY <1>1, <1>2, PTL

\* durable.rs and sequencer.rs: every commit that an account's object put on the
\* firehose is in the account's store and was put there once, whatever the operator
\* pushes.
THEOREM CommitsAreSequencedOnce ==
    ASSUME Firehose!ConstantsAssumption
    PROVE  Firehose!Spec => []Firehose!SequencedOnce
<1>1. FirehoseInv => Firehose!SequencedOnce
  <2> SUFFICES ASSUME FirehoseInv PROVE Firehose!SequencedOnce
    BY Zenon
  <2>1. /\ DOMAIN firehose_log = 1..Len(firehose_log)
        /\ \A i \in 1..Len(firehose_log) : firehose_log[i].commit \in Writes
    BY LogRows, Zenon DEF FirehoseInv
  <2>2. \A i \in 1..Len(firehose_log) : Put(i) => Firehose!Committed(firehose_log[i].commit)
    BY <2>1, Zenon DEF FirehoseInv, CommitInv
  <2> QED
    BY <2>1, <2>2, Zenon DEF FirehoseInv, CommitInv, Put, Firehose!SequencedOnce
<1>2. Firehose!Spec => []FirehoseInv
  BY FirehoseInvariance, Zenon
<1> QED BY <1>1, <1>2, PTL

=============================================================================
