--------------------------- MODULE ServerAccounts ---------------------------
(***************************************************************************)
(* Account creation on the server (rust-pds/src/xrpc/server.rs over         *)
(* storage/sqlite/account.rs): create_account_inner with its invite gate,   *)
(* DID registration, account row and keys, and the operator's commands of   *)
(* `stelyph admin`.                                                         *)
(*                                                                          *)
(* Nothing locks a registration: requests interleave between any two of     *)
(* their storage calls, each of which is one SQLite statement or            *)
(* transaction, and any of them may end early.                              *)
(***************************************************************************)
EXTENDS Naturals, FiniteSets

CONSTANTS
    Requests,   \* createAccount requests; each has a did:plc of its own
    Handles,    \* well-formed handles under the server's domain
    Codes,      \* invite codes, random
    WebDid,     \* a did:web that callers may bring
    None,
    MaxUses     \* bound on the uses of a code

Dids == Requests \cup {WebDid}

\* WebDid is not a did:plc.
ASSUME ConstantsAssumption ==
    /\ WebDid \notin Requests
    /\ None \notin Dids \cup Codes
    /\ MaxUses \in Nat

VARIABLES
    open_registration,  \* of the configuration
    accounts,           \* did -> its row or None
    keys,               \* <<did, purpose>> -> the request whose key it is, or None
    available_uses,     \* code -> uses left, or None while it does not exist
    invite_uses,        \* the <<code, used_by>> rows
    ledger,             \* DIDs the PLC directory has
    pc,                 \* request -> the call it makes next
    input,              \* request -> its CreateAccountInput
    invite_consumed,    \* request -> whether it used up an invite
    minted              \* history: code -> the uses it was created with

store == <<accounts, keys, available_uses, invite_uses>>
vars == <<open_registration, store, ledger, pc, input, invite_consumed, minted>>

CreateAccountInput ==
    [handle : Handles, invite_code : Codes \cup {None}, web : BOOLEAN, password : BOOLEAN]

\* An accounts row.  The request that inserted it is kept for the properties.
Account == [handle : Handles, takedown : BOOLEAN, by : Requests]

\* None is no row and no number of uses.
ASSUME NoneAssumption == None \notin Account /\ None \notin 0..MaxUses

Purposes == {"signing", "rotation"}

TypeOK ==
    /\ open_registration \in BOOLEAN
    /\ accounts \in [Dids -> Account \cup {None}]
    /\ keys \in [Dids \X Purposes -> Requests \cup {None}]
    /\ available_uses \in [Codes -> 0..MaxUses \cup {None}]
    /\ invite_uses \subseteq Codes \X Handles
    /\ ledger \subseteq Requests
    /\ pc \in [Requests -> {"idle", "lookup", "count", "consume", "register", "insert",
                            "signing", "rotation", "created", "failed"}]
    /\ input \in [Requests -> CreateAccountInput \cup {None}]
    /\ invite_consumed \in [Requests -> BOOLEAN]
    /\ minted \in [Codes -> 0..MaxUses]

Init ==
    /\ open_registration \in BOOLEAN
    /\ accounts = [d \in Dids |-> None]
    /\ keys = [k \in Dids \X Purposes |-> None]
    /\ available_uses = [c \in Codes |-> None]
    /\ invite_uses = {}
    /\ ledger = {}
    /\ pc = [r \in Requests |-> "idle"]
    /\ input = [r \in Requests |-> None]
    /\ invite_consumed = [r \in Requests |-> FALSE]
    /\ minted = [c \in Codes |-> 0]

-----------------------------------------------------------------------------
(* create_account_inner                                                     *)

Goto(r, call) == pc' = [pc EXCEPT ![r] = call]

Did(r) == IF input[r].web THEN WebDid ELSE r

Rows == {accounts[d] : d \in Dids} \ {None}

\* validate_handle and the domain check accept the handle.
CreateAccount(r) ==
    /\ pc[r] = "idle"
    /\ Goto(r, "lookup")
    /\ \E form \in CreateAccountInput : input' = [input EXCEPT ![r] = form]
    /\ UNCHANGED <<open_registration, store, ledger, invite_consumed, minted>>

\* get_account_by_handle does not see accounts that are taken down.
GetAccountByHandle(r) ==
    /\ pc[r] = "lookup"
    /\ Goto(r, IF \E row \in Rows : row.handle = input[r].handle /\ ~row.takedown
               THEN "failed" ELSE "count")
    /\ UNCHANGED <<open_registration, store, ledger, input, invite_consumed, minted>>

\* The gate: no invite for the first account or with open registration.
CountAccounts(r) ==
    /\ pc[r] = "count"
    /\ Goto(r, IF Rows = {} \/ open_registration THEN "register"
               ELSE IF input[r].invite_code = None THEN "failed" ELSE "consume")
    /\ UNCHANGED <<open_registration, store, ledger, input, invite_consumed, minted>>

\* As Consumable, but a handle may use a code again.
Consumable_Again(code, used_by) == available_uses[code] # None /\ available_uses[code] > 0

Consumable(code, used_by) ==
    /\ available_uses[code] # None
    /\ available_uses[code] > 0
    /\ <<code, used_by>> \notin invite_uses

\* consume_invite, one transaction.
ConsumeInvite(r) ==
    LET code == input[r].invite_code
        used_by == input[r].handle
    IN  /\ pc[r] = "consume"
        /\ \/ /\ Consumable(code, used_by)
              /\ invite_uses' = invite_uses \cup {<<code, used_by>>}
              /\ available_uses' = [available_uses EXCEPT ![code] = @ - 1]
              /\ invite_consumed' = [invite_consumed EXCEPT ![r] = TRUE]
              /\ Goto(r, "register")
           \/ /\ ~Consumable(code, used_by)
              /\ Goto(r, "failed")
              /\ UNCHANGED <<available_uses, invite_uses, invite_consumed>>
        /\ UNCHANGED <<open_registration, accounts, keys, ledger, input, minted>>

\* The password is looked at once the DID is registered.
CheckPassword(r) == Goto(r, IF input[r].password THEN "insert" ELSE "failed")

\* A did:web resolves, or the directory accepts the did:plc.
RegisterDid(r) ==
    /\ pc[r] = "register"
    /\ ledger' = IF input[r].web THEN ledger ELSE ledger \cup {r}
    /\ CheckPassword(r)
    /\ UNCHANGED <<open_registration, store, input, invite_consumed, minted>>

RegisterFails(r) ==
    /\ pc[r] = "register"
    /\ Goto(r, "failed")
    /\ UNCHANGED <<open_registration, store, ledger, input, invite_consumed, minted>>

\* As Insertable, but a row of the same DID is replaced.
Insertable_Replace(r) == \A d \in Dids \ {Did(r)} :
    accounts[d] # None => accounts[d].handle # input[r].handle

\* did is the primary key and handle is UNIQUE.
Insertable(r) ==
    /\ accounts[Did(r)] = None
    /\ \A row \in Rows : row.handle # input[r].handle

\* As LostRace, but trusting the count read at the gate.
LostRace_Stale(r) == FALSE

\* The count of the transaction says that another account came first.
LostRace(r) == Rows # {} /\ ~open_registration /\ ~invite_consumed[r]

\* count_and_insert_account, one transaction, and the check that follows it.
InsertAccount(r) ==
    /\ pc[r] = "insert"
    /\ \/ /\ Insertable(r)
          /\ accounts' = [accounts EXCEPT ![Did(r)] =
               [handle |-> input[r].handle, takedown |-> FALSE, by |-> r]]
          /\ Goto(r, IF LostRace(r) THEN "failed" ELSE "signing")
       \/ /\ ~Insertable(r)
          /\ Goto(r, "failed")
          /\ UNCHANGED accounts
    /\ UNCHANGED <<open_registration, keys, available_uses, invite_uses, ledger, input,
                   invite_consumed, minted>>

\* store_key, for the signing key and then the rotation key.
StoreKey(r) ==
    /\ pc[r] \in Purposes
    /\ keys' = [keys EXCEPT ![<<Did(r), pc[r]>>] = r]
    /\ Goto(r, IF pc[r] = "signing" THEN "rotation" ELSE "created")
    /\ UNCHANGED <<open_registration, accounts, available_uses, invite_uses, ledger, input,
                   invite_consumed, minted>>

\* A storage call fails, the client is gone and the handler is dropped, or the
\* server stops.
Abort(r) ==
    /\ pc[r] \notin {"idle", "created", "failed"}
    /\ Goto(r, "failed")
    /\ UNCHANGED <<open_registration, store, ledger, input, invite_consumed, minted>>

-----------------------------------------------------------------------------
(* stelyph admin, a process of its own on the same database                 *)

CreateInvite(code, uses) ==
    /\ available_uses[code] = None
    /\ available_uses' = [available_uses EXCEPT ![code] = uses]
    /\ minted' = [minted EXCEPT ![code] = uses]
    /\ UNCHANGED <<open_registration, accounts, keys, invite_uses, ledger, pc, input,
                   invite_consumed>>

\* takedown and untakedown.
SetTakedown(did, takedown) ==
    /\ accounts[did] # None
    /\ accounts' = [accounts EXCEPT ![did].takedown = takedown]
    /\ UNCHANGED <<open_registration, keys, available_uses, invite_uses, ledger, pc, input,
                   invite_consumed, minted>>

Registration(r) ==
    \/ CreateAccount(r)
    \/ GetAccountByHandle(r)
    \/ CountAccounts(r)
    \/ ConsumeInvite(r)
    \/ RegisterDid(r)
    \/ RegisterFails(r)
    \/ InsertAccount(r)
    \/ StoreKey(r)
    \/ Abort(r)

Next ==
    \/ \E r \in Requests : Registration(r)
    \/ \E code \in Codes, uses \in 1..MaxUses : CreateInvite(code, uses)
    \/ \E did \in Dids, takedown \in BOOLEAN : SetTakedown(did, takedown)

Spec == Init /\ [][Next]_vars

-----------------------------------------------------------------------------
(* Properties                                                               *)

Created == {r \in Requests : pc[r] = "created"}

\* consume_invite: every use that is gone from a code is one invite_uses row and
\* one request that passed the gate with it, however the requests interleave and
\* wherever they end (and every variable keeps its type: no count goes below 0).
InvitesConserved ==
  /\ TypeOK
  /\ \A c \in Codes : available_uses[c] # None =>
        LET used == minted[c] - available_uses[c]
        IN  /\ used = Cardinality({u \in invite_uses : u[1] = c})
            /\ used = Cardinality({r \in Requests :
                                     invite_consumed[r] /\ input[r].invite_code = c})

\* The gate of a closed server: of the requests that are answered with a session
\* at most one got there without an invite, the first account.
OneFreeAccount ==
    ~open_registration => Cardinality({r \in Created : ~invite_consumed[r]}) <= 1

\* A request answered with a session has its account: the row is its own, and so
\* are both keys, which no later request for the DID overwrites.  And because
\* create_account_inner registers the DID first, no account has a did:plc that the
\* directory does not know, wherever its request stopped.
CreatedIsComplete ==
  /\ \A d \in Requests : accounts[d] # None => d \in ledger
  /\ \A r \in Created :
        /\ accounts[Did(r)] # None
        /\ accounts[Did(r)].by = r /\ accounts[Did(r)].handle = input[r].handle
        /\ \A purpose \in Purposes : keys[<<Did(r), purpose>>] = r

\* "If a race is detected ..., we reject with InvalidInviteCode rather than
\* inserting a second account without an invite."
\* The code does not keep this one: no run checks it, see README, Observations.
NoSecondFreeAccount ==
    ~open_registration => Cardinality({row \in Rows : ~invite_consumed[row.by]}) <= 1

=============================================================================
