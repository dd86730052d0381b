----------------------- MODULE ServerAccounts_proofs -----------------------
(***************************************************************************)
(* Proofs about ServerAccounts: for any number of requests, handles and     *)
(* invite codes.                                                            *)
(***************************************************************************)
EXTENDS ServerAccounts, FiniteSetTheorems, TLAPS

\* The calls of a request whose row was inserted and kept.
Kept == {"signing", "rotation", "created"}

\* A request past its first line has its input; one that used up an invite is past
\* the gate.
FormInv ==
    \A r \in Requests :
        /\ pc[r] # "idle" => input[r] \in CreateAccountInput
        /\ pc[r] = "consume" => input[r].invite_code \in Codes
        /\ invite_consumed[r] => pc[r] \in {"register", "insert", "failed"} \cup Kept

\* The directory knows the did:plc of a request that is about to insert it, and of
\* every row.
LedgerInv ==
    /\ \A d \in Requests : accounts[d] # None => d \in ledger
    /\ \A r \in Requests : pc[r] = "insert" /\ ~input[r].web => r \in ledger

\* The row of a request that goes on to store keys is its own, so no other request
\* stores keys for that DID.
RowInv ==
    \A r \in Requests : pc[r] \in Kept =>
        /\ accounts[Did(r)] # None
        /\ accounts[Did(r)].by = r /\ accounts[Did(r)].handle = input[r].handle
        /\ pc[r] # "signing" => keys[<<Did(r), "signing">>] = r
        /\ pc[r] = "created" => keys[<<Did(r), "rotation">>] = r

\* The transaction of the insert lets one request through without an invite.
FreeInv ==
    ~open_registration =>
        \A r, q \in Requests :
            /\ pc[r] \in Kept /\ ~invite_consumed[r]
            /\ pc[q] \in Kept /\ ~invite_consumed[q]
            => r = q

UsesOf(c) == {u \in invite_uses : u[1] = c}
ConsumersOf(c) == {r \in Requests : invite_consumed[r] /\ input[r].invite_code = c}

\* The count of a code; nothing used a code that does not exist.
UsesInv ==
    \A c \in Codes :
        /\ IsFiniteSet(UsesOf(c)) /\ IsFiniteSet(ConsumersOf(c))
        /\ available_uses[c] = None => UsesOf(c) = {} /\ ConsumersOf(c) = {}
        /\ available_uses[c] # None =>
             /\ minted[c] - available_uses[c] = Cardinality(UsesOf(c))
             /\ minted[c] - available_uses[c] = Cardinality(ConsumersOf(c))

IInv == TypeOK /\ FormInv /\ LedgerInv /\ RowInv /\ FreeInv /\ UsesInv

Calls == {"idle", "lookup", "count", "consume", "register", "insert",
          "signing", "rotation", "created", "failed"}

-----------------------------------------------------------------------------
(* Steps                                                                    *)

\* The invariant holds initially.
LEMMA InitIInv == Init => IInv
<1> SUFFICES ASSUME Init PROVE IInv
  BY Zenon
<1>1. TypeOK BY ConstantsAssumption DEF Init, TypeOK
<1>2. FormInv /\ LedgerInv /\ RowInv /\ FreeInv
  BY Zenon DEF Init, FormInv, LedgerInv, RowInv, FreeInv, Kept, Dids
<1>3. UsesInv
  <2>1. \A c \in Codes : UsesOf(c) = {} /\ ConsumersOf(c) = {} /\ available_uses[c] = None
    BY Zenon DEF Init, UsesOf, ConsumersOf
  <2> QED BY <2>1, FS_EmptySet, Zenon DEF UsesInv
<1> QED BY <1>1, <1>2, <1>3, Zenon DEF IInv

\* A request that moves is the only one that does.
LEMMA GotoFacts ==
    ASSUME TypeOK, NEW r \in Requests, NEW call \in Calls, Goto(r, call)
    PROVE  /\ pc' \in [Requests -> Calls]
           /\ pc'[r] = call
           /\ \A x \in Requests : x # r => pc'[x] = pc[x]
  BY Zenon DEF TypeOK, Goto, Calls

\* The invites are counted alike while no invite changes.
LEMMA UsesFrame ==
    ASSUME UsesInv, UNCHANGED <<available_uses, invite_uses, invite_consumed, minted>>,
           \A r \in Requests : invite_consumed[r] => input'[r] = input[r]
    PROVE  UsesInv'
<1>1. \A c \in Codes : UsesOf(c)' = UsesOf(c) /\ ConsumersOf(c)' = ConsumersOf(c)
  BY Zenon DEF UsesOf, ConsumersOf
<1> QED BY <1>1, Zenon DEF UsesInv

\* A step of a request that changes no table and leaves it short of its insert.
LEMMA MoveFrame ==
    ASSUME IInv, NEW r \in Requests, NEW call \in {"count", "consume", "register", "failed"},
           Goto(r, call), pc[r] # "idle",
           call = "consume" => input[r].invite_code \in Codes,
           invite_consumed[r] => call \in {"register", "failed"},
           UNCHANGED <<open_registration, store, ledger, input, invite_consumed, minted>>
    PROVE  IInv'
<1>1. /\ pc' \in [Requests -> Calls]
      /\ pc'[r] = call
      /\ \A x \in Requests : x # r => pc'[x] = pc[x]
  BY GotoFacts, Zenon DEF IInv, Calls
<1>2. TypeOK' BY <1>1, Zenon DEF IInv, TypeOK, Calls, store
<1>3. FormInv' BY <1>1, Zenon DEF IInv, FormInv, Kept
<1>4. LedgerInv' BY <1>1, Zenon DEF IInv, LedgerInv, store
<1>5. RowInv' BY <1>1, ZenonT(60) DEF IInv, RowInv, Kept, Did, store
<1>6. FreeInv' BY <1>1, Zenon DEF IInv, FreeInv, Kept
<1>7. UsesInv' BY UsesFrame, Zenon DEF IInv, store
<1> QED BY <1>2, <1>3, <1>4, <1>5, <1>6, <1>7, Zenon DEF IInv

\* The request comes in.
LEMMA CreateAccountStep ==
    ASSUME IInv, NEW r \in Requests, CreateAccount(r)
    PROVE  IInv'
<1> USE DEF CreateAccount
<1>1. /\ pc' \in [Requests -> Calls]
      /\ pc'[r] = "lookup"
      /\ \A x \in Requests : x # r => pc'[x] = pc[x]
  BY GotoFacts, Zenon DEF IInv, Calls
<1>2. /\ input' \in [Requests -> CreateAccountInput \cup {None}]
      /\ input'[r] \in CreateAccountInput
      /\ \A x \in Requests : x # r => input'[x] = input[x]
  BY ZenonT(60) DEF IInv, TypeOK
<1>3. ~invite_consumed[r] BY Zenon DEF IInv, FormInv, Kept
<1>4. TypeOK' BY <1>1, <1>2, Zenon DEF IInv, TypeOK, Calls, store
<1>5. FormInv' BY <1>1, <1>2, <1>3, Zenon DEF IInv, FormInv
<1>6. LedgerInv' BY <1>1, <1>2, Zenon DEF IInv, LedgerInv, store
<1>7. RowInv' BY <1>1, <1>2 DEF IInv, RowInv, Kept, Did, store
<1>8. FreeInv' BY <1>1, Zenon DEF IInv, FreeInv, Kept
<1>9. UsesInv' BY <1>2, <1>3, UsesFrame, Zenon DEF IInv, store
<1> QED BY <1>4, <1>5, <1>6, <1>7, <1>8, <1>9, Zenon DEF IInv

\* The lookup, the gate, and the ways to fail.
LEMMA MoveStep ==
    ASSUME IInv, NEW r \in Requests,
           GetAccountByHandle(r) \/ CountAccounts(r) \/ RegisterFails(r) \/ Abort(r)
    PROVE  IInv'
<1>1. UNCHANGED <<open_registration, store, ledger, input, invite_consumed, minted>>
  BY Zenon DEF GetAccountByHandle, CountAccounts, RegisterFails, Abort
<1>2. pc[r] # "idle" /\ input[r] \in CreateAccountInput
  BY Zenon DEF GetAccountByHandle, CountAccounts, RegisterFails, Abort, IInv, FormInv
<1>3. CASE GetAccountByHandle(r)
  BY <1>1, <1>2, <1>3, MoveFrame, Zenon DEF GetAccountByHandle, IInv, FormInv, Kept
<1>4. CASE CountAccounts(r)
  <2>1. ~invite_consumed[r] BY <1>4, Zenon DEF CountAccounts, IInv, FormInv, Kept
  <2>2. input[r].invite_code # None => input[r].invite_code \in Codes
    BY <1>2, Zenon DEF CreateAccountInput
  <2> QED BY <1>1, <1>2, <1>4, <2>1, <2>2, MoveFrame, Zenon DEF CountAccounts
<1>5. CASE RegisterFails(r) \/ Abort(r)
  BY <1>1, <1>2, <1>5, MoveFrame, Zenon DEF RegisterFails, Abort
<1> QED BY <1>3, <1>4, <1>5, Zenon

\* consume_invite: one row, one use and one request.
LEMMA ConsumeInviteStep ==
    ASSUME IInv, NEW r \in Requests, ConsumeInvite(r)
    PROVE  IInv'
<1>1. PICK code \in Codes : code = input[r].invite_code
  BY Zenon DEF ConsumeInvite, IInv, FormInv
<1>2. pc[r] = "consume" /\ ~invite_consumed[r] /\ input[r] \in CreateAccountInput
  BY Zenon DEF ConsumeInvite, IInv, FormInv, Kept
<1>3. PICK used_by \in Handles : used_by = input[r].handle
  BY <1>2, Zenon DEF CreateAccountInput
<1>4. CASE ~Consumable(code, used_by)
  BY <1>1, <1>2, <1>3, <1>4, MoveFrame, Zenon DEF ConsumeInvite, store
<1>5. CASE Consumable(code, used_by)
  <2>1. /\ Goto(r, "register")
        /\ invite_uses' = invite_uses \cup {<<code, used_by>>}
        /\ available_uses' = [available_uses EXCEPT ![code] = @ - 1]
        /\ invite_consumed' = [invite_consumed EXCEPT ![r] = TRUE]
        /\ UNCHANGED <<open_registration, accounts, keys, ledger, input, minted>>
    BY <1>1, <1>3, <1>5, Zenon DEF ConsumeInvite
  <2>2. /\ pc' \in [Requests -> Calls]
        /\ pc'[r] = "register"
        /\ \A x \in Requests : x # r => pc'[x] = pc[x]
    BY <2>1, GotoFacts, Zenon DEF IInv, Calls
  <2>3. /\ invite_consumed' \in [Requests -> BOOLEAN] /\ invite_consumed'[r]
        /\ \A x \in Requests : x # r => invite_consumed'[x] = invite_consumed[x]
    BY <2>1, Zenon DEF IInv, TypeOK
  <2>4. /\ available_uses[code] \in 1..MaxUses
        /\ available_uses'[code] = available_uses[code] - 1
        /\ available_uses'[code] # None /\ available_uses[code] # None
        /\ available_uses' \in [Codes -> 0..MaxUses \cup {None}]
        /\ \A c \in Codes : c # code => available_uses'[c] = available_uses[c]
    BY <1>5, <2>1, ConstantsAssumption, NoneAssumption, SMTT(30) DEF Consumable, IInv, TypeOK
  <2>5. TypeOK' BY <2>1, <2>2, <2>3, <2>4, SMTT(30) DEF IInv, TypeOK, Calls
  <2>6. FormInv' BY <1>2, <2>1, <2>2, <2>3, Zenon DEF IInv, FormInv
  <2>7. LedgerInv' BY <2>1, <2>2, Zenon DEF IInv, LedgerInv
  <2>8. RowInv' BY <2>1, <2>2, ZenonT(60) DEF IInv, RowInv, Kept, Did
  <2>9. FreeInv' BY <2>1, <2>2, <2>3, Zenon DEF IInv, FreeInv, Kept
  <2>10. \A c \in Codes : c # code => UsesOf(c)' = UsesOf(c) /\ ConsumersOf(c)' = ConsumersOf(c)
    BY <1>1, <2>1, <2>3 DEF UsesOf, ConsumersOf
  <2>11. UsesOf(code)' = UsesOf(code) \cup {<<code, used_by>>} /\ <<code, used_by>> \notin UsesOf(code)
    BY <1>5, <2>1 DEF UsesOf, Consumable
  <2>12. ConsumersOf(code)' = ConsumersOf(code) \cup {r} /\ r \notin ConsumersOf(code)
    BY <1>1, <1>2, <2>1, <2>3, Zenon DEF ConsumersOf
  <2>13. IsFiniteSet(UsesOf(code)) /\ IsFiniteSet(ConsumersOf(code))
    BY Zenon DEF IInv, UsesInv
  <2>14. /\ IsFiniteSet(UsesOf(code)') /\ IsFiniteSet(ConsumersOf(code)')
         /\ Cardinality(UsesOf(code)') = Cardinality(UsesOf(code)) + 1
         /\ Cardinality(ConsumersOf(code)') = Cardinality(ConsumersOf(code)) + 1
    BY <2>11, <2>12, <2>13, FS_AddElement, SMTT(30)
  <2>15. minted[code] \in Nat BY ConstantsAssumption DEF IInv, TypeOK
  <2>16. UsesInv' 
    <3> SUFFICES ASSUME NEW c \in Codes
                 PROVE  /\ IsFiniteSet(UsesOf(c)') /\ IsFiniteSet(ConsumersOf(c)')
                        /\ available_uses'[c] = None => UsesOf(c)' = {} /\ ConsumersOf(c)' = {}
                        /\ available_uses'[c] # None =>
                             /\ minted'[c] - available_uses'[c] = Cardinality(UsesOf(c)')
                             /\ minted'[c] - available_uses'[c] = Cardinality(ConsumersOf(c)')
      BY Zenon DEF UsesInv
    <3>1. CASE c # code
      BY <2>1, <2>4, <2>10, <3>1, Zenon DEF IInv, UsesInv
    <3>2. CASE c = code
      <4>1. /\ minted[code] - available_uses[code] = Cardinality(UsesOf(code))
            /\ minted[code] - available_uses[code] = Cardinality(ConsumersOf(code))
        BY <2>4, Zenon DEF IInv, UsesInv
      <4> QED BY <2>1, <2>4, <2>14, <2>15, <3>2, <4>1, SMTT(30)
    <3> QED BY <3>1, <3>2, Zenon
  <2> QED BY <2>5, <2>6, <2>7, <2>8, <2>9, <2>16, Zenon DEF IInv
<1> QED BY <1>4, <1>5, Zenon

\* A did:web resolves or the directory accepts the did:plc.
LEMMA RegisterDidStep ==
    ASSUME IInv, NEW r \in Requests, RegisterDid(r)
    PROVE  IInv'
<1> USE DEF RegisterDid
<1>1. PICK call \in {"insert", "failed"} : Goto(r, call)
  BY Zenon DEF CheckPassword
<1>2. /\ pc' \in [Requests -> Calls]
      /\ pc'[r] = call
      /\ \A x \in Requests : x # r => pc'[x] = pc[x]
  BY <1>1, GotoFacts, Zenon DEF IInv, Calls
<1>3. ledger \subseteq ledger' /\ ledger' \subseteq Requests /\ (~input[r].web => r \in ledger')
  BY Zenon DEF IInv, TypeOK
<1>4. TypeOK' BY <1>2, <1>3, Zenon DEF IInv, TypeOK, Calls, store
<1>5. FormInv' BY <1>2, Zenon DEF IInv, FormInv
<1>6. LedgerInv' BY <1>2, <1>3, Zenon DEF IInv, LedgerInv, store
<1>7. RowInv' BY <1>2, ZenonT(30) DEF IInv, RowInv, Kept, Did, store
<1>8. FreeInv' BY <1>2, Zenon DEF IInv, FreeInv, Kept
<1>9. UsesInv' BY UsesFrame, Zenon DEF IInv, store
<1> QED BY <1>4, <1>5, <1>6, <1>7, <1>8, <1>9, Zenon DEF IInv

\* count_and_insert_account: the row is new, and without an invite it is the first.
LEMMA InsertAccountStep ==
    ASSUME IInv, NEW r \in Requests, InsertAccount(r)
    PROVE  IInv'
<1>1. pc[r] = "insert" /\ input[r] \in CreateAccountInput /\ Did(r) \in Dids
  BY Zenon DEF InsertAccount, IInv, FormInv, Did, Dids
<1>2. CASE ~Insertable(r)
  BY <1>1, <1>2, MoveFrame, Zenon DEF InsertAccount, store
<1>3. CASE Insertable(r)
  <2> DEFINE row == [handle |-> input[r].handle, takedown |-> FALSE, by |-> r]
  <2>1. row \in Account /\ row.by = r /\ row.handle = input[r].handle
    BY <1>1, Zenon DEF Account, CreateAccountInput
  <2>2. PICK call \in {"failed", "signing"} :
          /\ Goto(r, call)
          /\ call = "signing" => ~LostRace(r)
    BY <1>3, Zenon DEF InsertAccount
  <2>3. /\ accounts' = [accounts EXCEPT ![Did(r)] = row]
        /\ UNCHANGED <<open_registration, keys, available_uses, invite_uses, ledger, input,
                       invite_consumed, minted>>
    BY <1>3, Zenon DEF InsertAccount
  <2> HIDE DEF row
  <2>4. /\ pc' \in [Requests -> Calls]
        /\ pc'[r] = call
        /\ \A x \in Requests : x # r => pc'[x] = pc[x]
    BY <2>2, GotoFacts, Zenon DEF IInv, Calls
  <2>5. /\ accounts' \in [Dids -> Account \cup {None}]
        /\ accounts'[Did(r)] = row /\ row # None
        /\ \A d \in Dids : accounts[d] # None => accounts'[d] = accounts[d]
        /\ \A d \in Dids : d # Did(r) => accounts'[d] = accounts[d]
    BY <1>1, <1>3, <2>1, <2>3, NoneAssumption, ZenonT(60) DEF IInv, TypeOK, Insertable
  <2>6. TypeOK' BY <2>3, <2>4, <2>5, Zenon DEF IInv, TypeOK, Calls
  <2>7. FormInv' BY <1>1, <2>3, <2>4, Zenon DEF IInv, FormInv, Kept
  <2>8. LedgerInv'
    BY <1>1, <2>3, <2>4, <2>5, ConstantsAssumption, ZenonT(60) DEF IInv, LedgerInv, Did, Dids
  <2>9. RowInv'
    <3>1. \A x \in Requests : Did(x)' = Did(x) BY <2>3, Zenon DEF Did
    <3>2. \A x \in Requests : Did(x) \in Dids BY Zenon DEF Did, Dids
    <3> QED BY <2>1, <2>3, <2>4, <2>5, <3>1, <3>2, SMTT(30) DEF IInv, RowInv, Kept
  <2>10. FreeInv'
    <3>1. ASSUME NEW x \in Requests, pc[x] \in Kept PROVE Rows # {}
      <4>1. Did(x) \in Dids /\ accounts[Did(x)] # None
        BY <3>1, Zenon DEF IInv, RowInv, Did, Dids
      <4> QED BY <4>1, Zenon DEF Rows
    <3>2. ~open_registration /\ call = "signing" /\ ~invite_consumed[r] =>
            \A x \in Requests : pc[x] \notin Kept
      BY <2>2, <3>1, Zenon DEF LostRace
    <3> QED BY <2>3, <2>4, <3>2, Zenon DEF IInv, FreeInv, Kept
  <2>11. UsesInv' BY <2>3, UsesFrame, Zenon DEF IInv
  <2> QED BY <2>6, <2>7, <2>8, <2>9, <2>10, <2>11, Zenon DEF IInv
<1> QED BY <1>2, <1>3, Zenon

\* store_key: only the request whose row it is stores keys for a DID.
LEMMA StoreKeyStep ==
    ASSUME IInv, NEW r \in Requests, StoreKey(r)
    PROVE  IInv'
<1> USE DEF StoreKey
<1>1. pc[r] \in Kept /\ Did(r) \in Dids /\ pc[r] \in Purposes
  BY Zenon DEF Purposes, Kept, Did, Dids
<1>2. PICK call \in {"rotation", "created"} :
        /\ Goto(r, call)
        /\ call = IF pc[r] = "signing" THEN "rotation" ELSE "created"
  BY Zenon
<1>3. /\ pc' \in [Requests -> Calls]
      /\ pc'[r] = call
      /\ \A x \in Requests : x # r => pc'[x] = pc[x]
  BY <1>2, GotoFacts, Zenon DEF IInv, Calls
<1>4. /\ keys' \in [Dids \X Purposes -> Requests \cup {None}]
      /\ keys'[<<Did(r), pc[r]>>] = r
      /\ \A d \in Dids, p \in Purposes : <<d, p>> # <<Did(r), pc[r]>> =>
           keys'[<<d, p>>] = keys[<<d, p>>]
  BY <1>1, Zenon DEF IInv, TypeOK
<1>5. TypeOK' BY <1>3, <1>4, Zenon DEF IInv, TypeOK, Calls
<1>6. FormInv' BY <1>1, <1>3, Zenon DEF IInv, FormInv, Kept
<1>7. LedgerInv' BY <1>3, Zenon DEF IInv, LedgerInv
<1>8. RowInv'
  <2> SUFFICES ASSUME NEW x \in Requests, pc'[x] \in Kept
               PROVE  /\ accounts[Did(x)] # None
                      /\ accounts[Did(x)].by = x /\ accounts[Did(x)].handle = input[x].handle
                      /\ pc'[x] # "signing" => keys'[<<Did(x), "signing">>] = x
                      /\ pc'[x] = "created" => keys'[<<Did(x), "rotation">>] = x
    BY DEF RowInv, Did
  <2>1. pc[x] \in Kept BY <1>1, <1>3, Zenon
  <2>2. Did(x) \in Dids BY Zenon DEF Did, Dids
  <2>3. x # r => Did(x) # Did(r)
    <3>1. accounts[Did(x)].by = x BY <2>1, Zenon DEF IInv, RowInv
    <3>2. accounts[Did(r)].by = r BY <1>1, Zenon DEF IInv, RowInv
    <3>3. Did(x) = Did(r) => accounts[Did(x)].by = accounts[Did(r)].by BY Zenon
    <3> QED BY <3>1, <3>2, <3>3, Zenon
  <2>4. CASE x # r
    <3>1. pc'[x] = pc[x] BY <1>3, <2>4, Zenon
    <3>2. \A p \in Purposes : keys'[<<Did(x), p>>] = keys[<<Did(x), p>>]
      BY <1>4, <2>2, <2>3, <2>4, Zenon
    <3> QED BY <2>1, <3>1, <3>2, Zenon DEF IInv, RowInv, Purposes
  <2>5. CASE x = r
    BY <1>1, <1>2, <1>3, <1>4, <2>1, <2>2, <2>5, Zenon DEF IInv, RowInv, Purposes, Kept
  <2> QED BY <2>4, <2>5, Zenon
<1>9. FreeInv' BY <1>1, <1>3, Zenon DEF IInv, FreeInv
<1>10. UsesInv' BY UsesFrame, Zenon DEF IInv
<1> QED BY <1>5, <1>6, <1>7, <1>8, <1>9, <1>10, Zenon DEF IInv

\* admin create-invite: the code is new.
LEMMA CreateInviteStep ==
    ASSUME IInv, NEW code \in Codes, NEW uses \in 1..MaxUses, CreateInvite(code, uses)
    PROVE  IInv'
<1> USE DEF CreateInvite
<1>1. /\ available_uses' \in [Codes -> 0..MaxUses \cup {None}]
      /\ minted' \in [Codes -> 0..MaxUses]
      /\ available_uses'[code] = uses /\ minted'[code] = uses /\ uses # None
      /\ \A c \in Codes : c # code =>
           available_uses'[c] = available_uses[c] /\ minted'[c] = minted[c]
  BY ConstantsAssumption, NoneAssumption DEF IInv, TypeOK
<1>2. TypeOK' BY <1>1, Zenon DEF IInv, TypeOK
<1>3. FormInv' BY Zenon DEF IInv, FormInv
<1>4. LedgerInv' BY Zenon DEF IInv, LedgerInv
<1>5. RowInv' BY Zenon DEF IInv, RowInv, Did
<1>6. FreeInv' BY Zenon DEF IInv, FreeInv
<1>7. \A c \in Codes : UsesOf(c)' = UsesOf(c) /\ ConsumersOf(c)' = ConsumersOf(c)
  BY Zenon DEF UsesOf, ConsumersOf
<1>8. UsesOf(code) = {} /\ ConsumersOf(code) = {}
  BY Zenon DEF IInv, UsesInv
<1>9. uses - uses = 0 /\ Cardinality({}) = 0 BY FS_EmptySet
<1>10. UsesInv' BY <1>1, <1>7, <1>8, <1>9, ZenonT(60) DEF IInv, UsesInv
<1> QED BY <1>2, <1>3, <1>4, <1>5, <1>6, <1>10, ZenonT(60) DEF IInv

\* admin takedown and untakedown: the row stays.
LEMMA SetTakedownStep ==
    ASSUME IInv, NEW did \in Dids, NEW takedown \in BOOLEAN, SetTakedown(did, takedown)
    PROVE  IInv'
<1> USE DEF SetTakedown
<1>1. accounts[did] \in Account BY Zenon DEF IInv, TypeOK
<1> DEFINE row == [accounts[did] EXCEPT !.takedown = takedown]
<1>2. row \in Account /\ row.by = accounts[did].by /\ row.handle = accounts[did].handle
  BY <1>1, Zenon DEF Account
<1>3. accounts' = [accounts EXCEPT ![did] = row] BY Zenon
<1> HIDE DEF row
<1>4. /\ accounts' \in [Dids -> Account \cup {None}]
      /\ accounts'[did] = row /\ row # None
      /\ \A d \in Dids : d # did => accounts'[d] = accounts[d]
  BY <1>2, <1>3, NoneAssumption, ZenonT(60) DEF IInv, TypeOK
<1>5. TypeOK' BY <1>4, Zenon DEF IInv, TypeOK
<1>6. FormInv' BY Zenon DEF IInv, FormInv
<1>7. LedgerInv' BY <1>4, Zenon DEF IInv, LedgerInv, Dids
<1>8. \A d \in Dids : accounts[d] # None =>
        accounts'[d] # None /\ accounts'[d].by = accounts[d].by
          /\ accounts'[d].handle = accounts[d].handle
  BY <1>2, <1>4, Zenon
<1>9. \A x \in Requests : Did(x) \in Dids /\ Did(x)' = Did(x) BY Zenon DEF Did, Dids
<1>10. RowInv' BY <1>8, <1>9, SMTT(30) DEF IInv, RowInv
<1>11. FreeInv' BY Zenon DEF IInv, FreeInv
<1>12. UsesInv' BY UsesFrame, Zenon DEF IInv
<1> QED BY <1>5, <1>6, <1>7, <1>10, <1>11, <1>12, Zenon DEF IInv

-----------------------------------------------------------------------------
(* The theorems                                                             *)

\* Every step preserves the invariant.
LEMMA NextIInv == IInv /\ [Next]_vars => IInv'
<1> SUFFICES ASSUME IInv, [Next]_vars PROVE IInv'
  BY Zenon
<1>1. ASSUME NEW r \in Requests, Registration(r) PROVE IInv'
  BY <1>1, CreateAccountStep, MoveStep, ConsumeInviteStep, RegisterDidStep, InsertAccountStep,
     StoreKeyStep, Zenon DEF Registration
<1>2. CASE UNCHANGED vars
  <2>1. UsesInv' BY <1>2, UsesFrame, Zenon DEF IInv, vars, store
  <2>2. TypeOK' /\ FormInv' /\ LedgerInv' /\ RowInv' /\ FreeInv'
    BY <1>2, Zenon DEF IInv, TypeOK, FormInv, LedgerInv, RowInv, FreeInv, Did, vars, store
  <2> QED BY <2>1, <2>2, Zenon DEF IInv
<1> QED BY <1>1, <1>2, CreateInviteStep, SetTakedownStep, Zenon DEF Next

\* The invariant holds throughout.
LEMMA Invariance == Spec => []IInv
  BY InitIInv, NextIInv, PTL DEF Spec

\* account.rs, consume_invite: every use that is gone from a code is one row and one
\* request.
THEOREM InvitesAreConserved == Spec => []InvitesConserved
<1>1. IInv => InvitesConserved
  BY Zenon DEF IInv, UsesInv, UsesOf, ConsumersOf, InvitesConserved
<1> QED BY <1>1, Invariance, PTL

\* server.rs, create_account_inner: a closed server answers one request without an
\* invite, the first account's.
THEOREM FirstAccountOnly == Spec => []OneFreeAccount
<1>1. IInv => OneFreeAccount
  <2> SUFFICES ASSUME IInv, ~open_registration
               PROVE  Cardinality({r \in Created : ~invite_consumed[r]}) <= 1
    BY Zenon DEF OneFreeAccount
  <2> DEFINE free == {r \in Created : ~invite_consumed[r]}
  <2>1. \A r, q \in free : r = q
    BY Zenon DEF IInv, FreeInv, Created, Kept
  <2>2. CASE free = {} BY <2>2, FS_EmptySet
  <2>3. CASE free # {}
    <3>1. PICK r \in free : free = {r} BY <2>1, <2>3, Zenon
    <3>2. Cardinality(free) = 1 BY <3>1, FS_Singleton, Zenon
    <3> QED BY <3>2
  <2> QED BY <2>2, <2>3, Zenon
<1> QED BY <1>1, Invariance, PTL

\* server.rs, create_account_inner: who is answered with a session has an account
\* row and both keys of their own, and every did:plc of a row is in the directory.
THEOREM AnsweredIsComplete == Spec => []CreatedIsComplete
<1>1. IInv => CreatedIsComplete
  BY Zenon DEF IInv, LedgerInv, RowInv, CreatedIsComplete, Created, Kept, Purposes
<1> QED BY <1>1, Invariance, PTL

=============================================================================
