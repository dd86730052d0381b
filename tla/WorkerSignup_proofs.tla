------------------------- MODULE WorkerSignup_proofs -------------------------
(***************************************************************************)
(* Proofs about WorkerSignup: for any number of signups, labels and codes.  *)
(***************************************************************************)
EXTENDS WorkerSignup, FunctionTheorems, FiniteSetTheorems, TLAPS

Places == {"idle", "failed"} \cup Active
Tasks == {"none", "plc", "posted", "created", "rejected", "error"}

\* A request past its first step has its form, and only such a request has a task.
FormInv ==
    \A r \in Signups :
        /\ pc[r] # "idle" => form[r] \in Form
        /\ task[r] # "none" => pc[r] # "idle"

\* An account object has at most one account.
HostInv == \A l \in Labels : \A a, b \in accounts[l] : a = b

\* Without deletions a label that a request counts on is taken, and no other
\* request counts on it.
HoldInv ==
    "delete" \notin env =>
        /\ deleting = {}
        /\ \A r \in Signups : pc[r] \in Active => claims[Label(r)] # None
        /\ \A r, q \in Signups :
             pc[r] \in Active /\ pc[q] \in Active /\ Label(r) = Label(q) => r = q

\* What a provisioning handler has done.
TaskInv ==
    \A r \in Signups :
        /\ task[r] = "posted" => r \in plc
        /\ pc[r] \in {"bind", "created"} => task[r] = "created"
        /\ "delete" \notin env /\ task[r] = "created" =>
             /\ r \in accounts[Label(r)] /\ r \in plc
             /\ <<r, "signing">> \in keys /\ <<r, "rotation">> \in keys

\* A bound label is the one of a signup that was told it succeeded.
BoundInv ==
    "delete" \notin env =>
        \A l \in Labels : claims[l] # None /\ claims[l].state = "active" =>
            /\ claims[l].did \in Signups
            /\ pc[claims[l].did] = "created" /\ Label(claims[l].did) = l

\* When nothing fails, every claim is one that a request counts on.
CodeInv ==
    env = {} =>
        \A l \in Labels : claims[l] # None =>
            \E r \in Signups :
                /\ pc[r] \in Active /\ Label(r) = l
                /\ ~Open => claims[l].invite_code = form[r].code

\* The uses of a code, available or held, unless a statement failed.
CountInv ==
    \A c \in Codes :
        /\ IsFiniteSet(Holding(c))
        /\ ~Failing => invites[c] + Cardinality(Holding(c)) = granted[c]

IInv == TypeOK /\ FormInv /\ HostInv /\ HoldInv /\ TaskInv /\ BoundInv /\ CodeInv /\ CountInv

\* The invariant holds initially.
LEMMA InitIInv == Init => IInv
<1> SUFFICES ASSUME Init PROVE IInv
  BY Zenon
<1>1. TypeOK BY ConstantsAssumption DEF Init, TypeOK
<1>2. FormInv /\ HostInv /\ HoldInv /\ TaskInv /\ BoundInv /\ CodeInv
  BY Zenon DEF Init, FormInv, HostInv, HoldInv, TaskInv, BoundInv, CodeInv, Active
<1>3. CountInv
  <2>1. \A c \in Codes : Holding(c) = {} /\ invites[c] = 0 /\ granted[c] = 0
    BY Zenon DEF Init, Holding
  <2> QED BY <2>1, FS_EmptySet DEF CountInv
<1> QED BY <1>1, <1>2, <1>3, Zenon DEF IInv

-----------------------------------------------------------------------------
(* Counting the uses that claims hold                                       *)

\* While the claims and the counts stay, so does the sum.
LEMMA CountFrame ==
    ASSUME CountInv, UNCHANGED <<env, claims, invites, granted>>
    PROVE  CountInv'
<1>1. \A c \in Codes : Holding(c)' = Holding(c) BY Zenon DEF Holding
<1> QED BY <1>1, Zenon DEF CountInv, Failing

\* A new claim holds a use of its code.
LEMMA HoldingAdded ==
    ASSUME TypeOK, CountInv, NEW l \in Labels, claims[l] = None, NEW claim \in Claim,
           claims' = [claims EXCEPT ![l] = claim], NEW c \in Codes
    PROVE  /\ IsFiniteSet(Holding(c)')
           /\ Cardinality(Holding(c)') =
                IF claim.invite_code = c THEN Cardinality(Holding(c)) + 1 ELSE Cardinality(Holding(c))
<1>1. l \notin Holding(c) /\ IsFiniteSet(Holding(c)) BY Zenon DEF Holding, CountInv
<1>2. Holding(c)' = IF claim.invite_code = c THEN Holding(c) \cup {l} ELSE Holding(c)
  BY NoneAssumption, Zenon DEF TypeOK, Holding
<1> QED BY <1>1, <1>2, FS_AddElement, Zenon

\* A claim that is deleted gives up the use that it holds.
LEMMA HoldingRemoved ==
    ASSUME TypeOK, CountInv, NEW l \in Labels, claims[l] # None,
           claims' = [claims EXCEPT ![l] = None], NEW c \in Codes
    PROVE  /\ IsFiniteSet(Holding(c)')
           /\ IF claims[l].invite_code = c
              THEN /\ Cardinality(Holding(c)') = Cardinality(Holding(c)) - 1
                   /\ Cardinality(Holding(c)) > 0
              ELSE Cardinality(Holding(c)') = Cardinality(Holding(c))
<1>1. IsFiniteSet(Holding(c)) /\ (l \in Holding(c) <=> claims[l].invite_code = c)
  BY Zenon DEF Holding, CountInv
<1>2. Holding(c)' = Holding(c) \ {l}
  BY Zenon DEF TypeOK, Holding
<1>3. /\ IsFiniteSet(Holding(c) \ {l}) /\ Cardinality(Holding(c) \ {l}) \in Nat
      /\ Cardinality(Holding(c) \ {l}) =
           IF l \in Holding(c) THEN Cardinality(Holding(c)) - 1 ELSE Cardinality(Holding(c))
      /\ Cardinality(Holding(c)) \in Nat
  BY <1>1, FS_RemoveElement, FS_CardinalityType, Zenon
<1> QED BY <1>1, <1>2, <1>3

-----------------------------------------------------------------------------
(* Step 1: /claim                                                           *)

\* A request that moves is the only one that does.
LEMMA GotoFacts ==
    ASSUME TypeOK, NEW r \in Signups, NEW where \in Places, Goto(r, where)
    PROVE  /\ pc' \in [Signups -> Places]
           /\ pc'[r] = where
           /\ \A x \in Signups : x # r => pc'[x] = pc[x]
  BY Zenon DEF TypeOK, Goto, Places, Active

\* A request that fails on its way in, or stops counting on its claim while calls
\* may be lost, or moves on with it.
LEMMA MoveFrame ==
    ASSUME IInv, NEW r \in Signups, pc[r] # "created", NEW where \in {"bind", "release", "failed"},
           Goto(r, where), pc[r] # "idle",
           pc[r] \notin Active => where = "failed",
           where = "failed" => pc[r] \notin Active \/ env # {},
           where = "bind" => task[r] = "created",
           UNCHANGED <<env, registry, object, plc, form, deleting, admin>>
    PROVE  IInv'
<1>1. /\ pc' \in [Signups -> Places]
      /\ pc'[r] = where
      /\ \A x \in Signups : x # r => pc'[x] = pc[x]
  BY GotoFacts, Zenon DEF IInv, Places, Active
<1>2. \A x \in Signups : pc'[x] \in Active => pc[x] \in Active
  BY <1>1, Zenon DEF Active
<1>3. \A x \in Signups : Label(x)' = Label(x) BY Zenon DEF Label
<1>4. TypeOK' BY <1>1, Zenon DEF IInv, TypeOK, Places, Active, registry, object
<1>5. FormInv' BY <1>1, Zenon DEF IInv, FormInv, object
<1>6. HostInv' BY Zenon DEF IInv, HostInv, object
<1>7. HoldInv' BY <1>2, <1>3, Zenon DEF IInv, HoldInv, registry
<1>8. TaskInv' BY <1>1, <1>3, Zenon DEF IInv, TaskInv, object
<1>9. BoundInv' BY <1>1, <1>3, Zenon DEF IInv, BoundInv, registry
<1>10. env = {} => \A x \in Signups : pc[x] \in Active => pc'[x] \in Active
  BY <1>1, Zenon DEF Active
<1>11. CodeInv' BY <1>3, <1>10, Zenon DEF IInv, CodeInv, registry
<1>12. CountInv' BY CountFrame, Zenon DEF IInv, registry
<1> QED BY <1>4, <1>5, <1>6, <1>7, <1>8, <1>9, <1>11, <1>12, Zenon DEF IInv

\* /claim: the label was free, so nobody counts on it.
LEMMA CallClaimStep ==
    ASSUME IInv, NEW r \in Signups, NEW label \in Labels, NEW code \in Codes \cup {None},
           NEW n \in 0..2, CallClaim(r, label, code, n)
    PROVE  IInv'
<1> USE DEF CallClaim
<1>0. /\ n < 2 <=> n # 2
      /\ n = 2 => n # 0
      /\ n # 2 => Failing /\ env # {}
  BY SMTT(30) DEF Failing
<1>1. pc[r] = "idle" /\ task[r] = "none"
  BY Zenon DEF IInv, FormInv
<1>2. /\ form' \in [Signups -> Form \cup {None}]
      /\ form'[r] = [label |-> label, code |-> code] /\ form'[r] \in Form
      /\ form'[r].label = label /\ form'[r].code = code
      /\ \A x \in Signups : x # r => form'[x] = form[x]
  BY Zenon DEF IInv, TypeOK, Form
<1>3. PICK where \in {"provision", "failed"} :
        /\ Goto(r, where)
        /\ where = "provision" => Claimable(label, code) /\ n = 2
        /\ Claimable(label, code) /\ where = "failed" => env # {}
  BY <1>0, Zenon DEF Lossy
<1>4. /\ pc' \in [Signups -> Places]
      /\ pc'[r] = where
      /\ \A x \in Signups : x # r => pc'[x] = pc[x]
  BY <1>3, GotoFacts, Zenon DEF IInv, Places, Active
<1>5. /\ Label(r)' = label
      /\ \A x \in Signups : x # r => Label(x)' = Label(x)
  BY <1>2, Zenon DEF Label
<1>6. UNCHANGED <<env, accounts, keys, task, plc, deleting, admin, granted, revoked>> BY Zenon DEF object
<1>7. FormInv' BY <1>2, <1>4, <1>6, ZenonT(60) DEF IInv, FormInv
<1>8. HostInv' BY <1>6, Zenon DEF IInv, HostInv
<1>9. TaskInv' BY <1>1, <1>3, <1>4, <1>5, <1>6, Zenon DEF IInv, TaskInv
<1>10. CASE ~Claimable(label, code) \/ n # 2
  <2>1. /\ where = "failed" /\ claims' = claims
        /\ invites' \in [Codes -> Nat]
        /\ invites' = invites \/ Failing
    <3>1. where = "failed" /\ claims' = claims BY <1>3, <1>10, Zenon
    <3>2. CASE invites' = invites BY <3>1, <3>2, Zenon DEF IInv, TypeOK
    <3>3. CASE invites' # invites
      <4>1. /\ n # 2 /\ code \in Codes /\ invites[code] > 0
            /\ invites' = [invites EXCEPT ![code] = @ - 1]
        BY <1>10, <3>3, Zenon DEF Claimable
      <4>2. invites' \in [Codes -> Nat] BY <4>1, SMTT(30) DEF IInv, TypeOK
      <4> QED BY <1>0, <3>1, <4>1, <4>2, Zenon
    <3> QED BY <3>2, <3>3, Zenon
  <2>2. TypeOK' BY <1>2, <1>4, <1>6, <2>1, ZenonT(60) DEF IInv, TypeOK, Places, Active
  <2>3. \A x \in Signups : pc'[x] \in Active => x # r /\ pc[x] \in Active
    BY <1>4, <2>1, Zenon DEF Active
  <2>4. HoldInv' BY <1>4, <1>5, <1>6, <2>1, <2>3, SMTT(30) DEF IInv, HoldInv
  <2>5. BoundInv' BY <1>1, <1>4, <1>5, <1>6, <2>1, ZenonT(60) DEF IInv, BoundInv
  <2>6. CodeInv' BY <1>1, <1>2, <1>4, <1>5, <1>6, <2>1, SMTT(30) DEF IInv, CodeInv, Active
  <2>7. CountInv' BY <1>6, <2>1, Zenon DEF IInv, CountInv, Holding, Failing
  <2> QED BY <1>7, <1>8, <1>9, <2>2, <2>4, <2>5, <2>6, <2>7, Zenon DEF IInv
<1>11. CASE Claimable(label, code) /\ n = 2
  <2> DEFINE claim == NewClaim(code)
  <2>1. claim \in Claim /\ claim.state = "reserved"
    BY Zenon DEF NewClaim, Claim
  <2>2. /\ Open => claim.invite_code = None
        /\ ~Open => claim.invite_code = code
    BY Zenon DEF NewClaim
  <2>3. /\ claims' = [claims EXCEPT ![label] = claim] /\ claims[label] = None
        /\ invites' = IF Open THEN invites ELSE [invites EXCEPT ![code] = @ - 1]
        /\ ~Open => code \in Codes /\ invites[code] > 0
    BY <1>0, <1>11, Zenon DEF Claimable, is_taken
  <2> HIDE DEF claim
  <2>4. /\ claims' \in [Labels -> Claim \cup {None}]
        /\ claims'[label] = claim /\ claim # None
        /\ \A l \in Labels : l # label => claims'[l] = claims[l]
    BY <2>1, <2>3, NoneAssumption, ZenonT(60) DEF IInv, TypeOK
  <2>5. /\ invites' \in [Codes -> Nat]
        /\ Open => invites' = invites
        /\ ~Open => invites'[code] = invites[code] - 1
        /\ \A c \in Codes : c # code => invites'[c] = invites[c]
    BY <2>3 DEF IInv, TypeOK
  <2>6. TypeOK' BY <1>2, <1>4, <1>6, <2>4, <2>5, ZenonT(30) DEF IInv, TypeOK, Places, Active
  <2>7. HoldInv'
    <3>1. "delete" \notin env => \A x \in Signups : pc[x] \in Active => Label(x) # label
      BY <2>3, Zenon DEF IInv, HoldInv
    <3>2. \A x \in Signups : pc[x] \in Active => Label(x) \in Labels
      BY ZenonT(60) DEF IInv, FormInv, Active, Label, Form
    <3> QED BY <1>4, <1>5, <1>6, <2>4, <3>1, <3>2, SMTT(30) DEF IInv, HoldInv
  <2>8. BoundInv' BY <1>1, <1>4, <1>5, <1>6, <2>1, <2>4, SMTT(30) DEF IInv, BoundInv
  <2>9. CodeInv'
    <3> SUFFICES ASSUME env = {}, NEW l \in Labels, claims'[l] # None
                 PROVE  \E x \in Signups :
                           /\ pc'[x] \in Active /\ Label(x)' = l
                           /\ ~Open => claims'[l].invite_code = form'[x].code
      BY <1>6, Zenon DEF CodeInv
    <3>1. CASE l = label
      BY <1>2, <1>3, <1>4, <1>5, <1>11, <2>2, <2>4, <3>1, ZenonT(60) DEF Active
    <3>2. CASE l # label
      <4>1. PICK x \in Signups : /\ pc[x] \in Active /\ Label(x) = l
                                 /\ ~Open => claims[l].invite_code = form[x].code
        BY <2>4, <3>2, Zenon DEF IInv, CodeInv
      <4>2. x # r BY <1>1, <4>1, ZenonT(60) DEF Active
      <4> QED BY <1>2, <1>4, <1>5, <2>4, <3>2, <4>1, <4>2, ZenonT(30)
    <3> QED BY <3>1, <3>2, Zenon
  <2>10. CountInv'
    <3> SUFFICES ASSUME NEW c \in Codes
                 PROVE  /\ IsFiniteSet(Holding(c)')
                        /\ ~Failing => invites'[c] + Cardinality(Holding(c)') = granted[c]
      BY <1>6, Zenon DEF CountInv, Failing
    <3>1. /\ IsFiniteSet(Holding(c))
          /\ ~Failing => invites[c] + Cardinality(Holding(c)) = granted[c]
      BY Zenon DEF IInv, CountInv
    <3>2. Cardinality(Holding(c)) \in Nat /\ invites[c] \in Nat
      BY <3>1, FS_CardinalityType, Zenon DEF IInv, TypeOK
    <3>3. /\ IsFiniteSet(Holding(c)')
          /\ Cardinality(Holding(c)') =
               IF claim.invite_code = c THEN Cardinality(Holding(c)) + 1 ELSE Cardinality(Holding(c))
      BY <2>1, <2>3, HoldingAdded, ZenonT(60) DEF IInv
    <3>4. CASE Open BY <2>2, <2>5, <3>1, <3>3, <3>4, ConstantsAssumption, SMTT(30)
    <3>5. CASE ~Open BY <2>2, <2>5, <3>1, <3>2, <3>3, <3>5, SMTT(30)
    <3> QED BY <3>4, <3>5, Zenon
  <2> QED BY <1>7, <1>8, <1>9, <2>6, <2>7, <2>8, <2>9, <2>10, Zenon DEF IInv
<1> QED BY <1>10, <1>11, Zenon

-----------------------------------------------------------------------------
(* Step 2: provisioning                                                     *)

\* The handler goes on without touching the object's tables.
LEMMA TaskFrame ==
    ASSUME IInv, NEW r \in Signups, NEW where \in {"plc", "posted", "rejected", "error"},
           Run(r, where), pc[r] # "idle", task[r] # "created",
           where = "posted" => r \in plc',
           plc' \in {plc, plc \cup {r}},
           UNCHANGED <<env, registry, accounts, keys, pc, form, deleting, admin>>
    PROVE  IInv'
<1>1. /\ task' \in [Signups -> Tasks]
      /\ task'[r] = where
      /\ \A x \in Signups : x # r => task'[x] = task[x]
  BY Zenon DEF IInv, TypeOK, Run, Tasks
<1>2. \A x \in Signups : Label(x)' = Label(x) BY Zenon DEF Label
<1>3. TypeOK' BY <1>1, Zenon DEF IInv, TypeOK, Tasks, registry
<1>4. FormInv' BY <1>1, Zenon DEF IInv, FormInv
<1>5. HostInv' BY Zenon DEF IInv, HostInv
<1>6. HoldInv' BY <1>2, Zenon DEF IInv, HoldInv, registry
<1>7. TaskInv' BY <1>1, <1>2, Zenon DEF IInv, TaskInv
<1>8. BoundInv' BY <1>2, Zenon DEF IInv, BoundInv, registry
<1>9. CodeInv' BY <1>2, Zenon DEF IInv, CodeInv, registry
<1>10. CountInv' BY CountFrame, Zenon DEF IInv, registry
<1> QED BY <1>3, <1>4, <1>5, <1>6, <1>7, <1>8, <1>9, <1>10, Zenon DEF IInv

\* Up to the answer of the directory.
LEMMA ProvisionStep ==
    ASSUME IInv, NEW r \in Signups,
           CountAccounts(r) \/ PostOperation(r) \/ PostFails(r) \/ Evicted(r)
    PROVE  IInv'
<1>1. pc[r] # "idle" /\ task[r] # "created"
  BY Zenon DEF IInv, FormInv, CountAccounts, PostOperation, PostFails, Evicted
<1>2. PICK where \in {"plc", "posted", "rejected", "error"} :
        Run(r, where) /\ (where = "posted" => r \in plc')
  BY Zenon DEF CountAccounts, PostOperation, PostFails, Evicted
<1>3. /\ plc' \in {plc, plc \cup {r}}
      /\ UNCHANGED <<env, registry, accounts, keys, pc, form, deleting, admin>>
  BY Zenon DEF CountAccounts, PostOperation, PostFails, Evicted
<1> QED BY <1>1, <1>2, <1>3, TaskFrame, Zenon

\* count_and_insert_account counts again: the object had no account.
LEMMA InsertAccountStep ==
    ASSUME IInv, NEW r \in Signups, NEW n \in 0..3, InsertAccount(r, n)
    PROVE  IInv'
<1>1. /\ pc[r] # "idle" /\ form[r] \in Form /\ task[r] = "posted" /\ r \in plc
      /\ UNCHANGED <<env, registry, plc, pc, form, deleting, admin>>
  BY Zenon DEF IInv, FormInv, TaskInv, InsertAccount
<1>2. CASE ~Insertable(r)
  BY <1>1, <1>2, TaskFrame, Zenon DEF InsertAccount
<1>3. CASE Insertable(r)
  <2>1. PICK l \in Labels : l = Label(r) BY <1>1, Zenon DEF Label, Form
  <2>2. /\ accounts' = IF n = 0 THEN accounts ELSE [accounts EXCEPT ![l] = @ \cup {r}]
        /\ keys' = keys \cup (IF n >= 2 THEN {<<r, "signing">>} ELSE {})
                        \cup (IF n = 3 THEN {<<r, "rotation">>} ELSE {})
        /\ Run(r, IF n = 3 THEN "created" ELSE "error")
        /\ accounts[l] = {}
    BY <1>3, <2>1, Zenon DEF InsertAccount, Insertable
  <2>3. /\ accounts' \in [Labels -> SUBSET Signups]
        /\ accounts'[l] \subseteq {r}
        /\ n = 3 => r \in accounts'[l]
        /\ \A k \in Labels : accounts[k] \subseteq accounts'[k]
        /\ \A k \in Labels : k # l => accounts'[k] = accounts[k]
    BY <2>2, SMTT(30) DEF IInv, TypeOK
  <2>4. /\ keys \subseteq keys' /\ keys' \subseteq Signups \X {"signing", "rotation"}
        /\ n = 3 => <<r, "signing">> \in keys' /\ <<r, "rotation">> \in keys'
    BY <2>2 DEF IInv, TypeOK
  <2>5. /\ task' \in [Signups -> Tasks]
        /\ task'[r] = IF n = 3 THEN "created" ELSE "error"
        /\ \A x \in Signups : x # r => task'[x] = task[x]
    BY <2>2, Zenon DEF IInv, TypeOK, Run, Tasks
  <2>6. \A x \in Signups : Label(x)' = Label(x) BY <1>1, Zenon DEF Label
  <2>7. TypeOK' BY <1>1, <2>3, <2>4, <2>5, Zenon DEF IInv, TypeOK, Tasks, registry
  <2>8. FormInv' BY <1>1, <2>5, Zenon DEF IInv, FormInv
  <2>9. HostInv' BY <2>3 DEF IInv, HostInv
  <2>10. HoldInv' BY <1>1, <2>6, Zenon DEF IInv, HoldInv, registry
  <2>11. TaskInv'
    <3>1. \A x \in Signups : task[x] = "created" => Label(x) \in Labels
      BY Zenon DEF IInv, FormInv, Label, Form
    <3>2. \A x \in Signups : x # r =>
            /\ task'[x] = "posted" => x \in plc
            /\ pc[x] \in {"bind", "created"} => task'[x] = "created"
            /\ "delete" \notin env /\ task'[x] = "created" =>
                 /\ x \in accounts'[Label(x)] /\ x \in plc
                 /\ <<x, "signing">> \in keys' /\ <<x, "rotation">> \in keys'
      BY <2>3, <2>4, <2>5, <3>1, Zenon DEF IInv, TaskInv
    <3>3. pc[r] \notin {"bind", "created"} BY <1>1, Zenon DEF IInv, TaskInv
    <3>4. /\ task'[r] # "posted" /\ Label(r) = l
          /\ task'[r] = "created" => n = 3
      BY <2>1, <2>5, Zenon
    <3>5. task'[r] = "created" =>
            /\ r \in accounts'[Label(r)] /\ r \in plc
            /\ <<r, "signing">> \in keys' /\ <<r, "rotation">> \in keys'
      BY <1>1, <2>3, <2>4, <3>4, Zenon
    <3>6. ASSUME NEW x \in Signups
          PROVE  /\ task'[x] = "posted" => x \in plc
                 /\ pc[x] \in {"bind", "created"} => task'[x] = "created"
                 /\ "delete" \notin env /\ task'[x] = "created" =>
                      /\ x \in accounts'[Label(x)] /\ x \in plc
                      /\ <<x, "signing">> \in keys' /\ <<x, "rotation">> \in keys'
      <4>1. CASE x = r BY <3>3, <3>4, <3>5, <4>1, Zenon
      <4>2. CASE x # r BY <3>2, <4>2, Zenon
      <4> QED BY <4>1, <4>2, Zenon
    <3> QED BY <1>1, <2>6, <3>6, ZenonT(60) DEF TaskInv
  <2>12. BoundInv' BY <1>1, <2>6, Zenon DEF IInv, BoundInv, registry
  <2>13. CodeInv' BY <1>1, <2>6, Zenon DEF IInv, CodeInv, registry
  <2>14. CountInv' BY <1>1, CountFrame, Zenon DEF IInv, registry
  <2> QED BY <2>7, <2>8, <2>9, <2>10, <2>11, <2>12, <2>13, <2>14, Zenon DEF IInv
<1> QED BY <1>2, <1>3, Zenon

\* The front Worker moves on, or its request is cancelled.
LEMMA FrontStep ==
    ASSUME IInv, NEW r \in Signups, Provisioned(r) \/ ProvisionFailed(r) \/ Cancelled(r)
    PROVE  IInv'
<1>1. UNCHANGED <<env, registry, object, plc, form, deleting, admin>>
  BY Zenon DEF Provisioned, ProvisionFailed, Cancelled
<1>2. pc[r] \in Active /\ pc[r] # "created" /\ pc[r] # "idle"
  BY Zenon DEF Provisioned, ProvisionFailed, Cancelled, Active
<1>3. PICK where \in {"bind", "release", "failed"} :
        /\ Goto(r, where)
        /\ where = "failed" => env # {}
        /\ where = "bind" => task[r] = "created"
  BY Zenon DEF Provisioned, ProvisionFailed, Cancelled, Lossy
<1> QED BY <1>1, <1>2, <1>3, MoveFrame, Zenon

\* No request joins those that hold a label, and these still have their claims.
LEMMA HoldFrame ==
    ASSUME HoldInv, UNCHANGED <<env, deleting>>,
           \A x \in Signups : Label(x)' = Label(x),
           \A x \in Signups : pc'[x] \in Active => pc[x] \in Active,
           "delete" \notin env => \A x \in Signups : pc'[x] \in Active => claims'[Label(x)] # None
    PROVE  HoldInv'
<1> SUFFICES ASSUME "delete" \notin env
             PROVE  /\ deleting' = {}
                    /\ \A r \in Signups : pc'[r] \in Active => claims'[Label(r)'] # None
                    /\ \A r, q \in Signups :
                         pc'[r] \in Active /\ pc'[q] \in Active /\ Label(r)' = Label(q)' => r = q
  BY Zenon DEF HoldInv
<1>1. deleting' = {} BY Zenon DEF HoldInv
<1>2. \A r \in Signups : pc'[r] \in Active => claims'[Label(r)'] # None BY Zenon
<1>3. \A r, q \in Signups :
        pc'[r] \in Active /\ pc'[q] \in Active /\ Label(r)' = Label(q)' => r = q
  BY Zenon DEF HoldInv
<1> QED BY <1>1, <1>2, <1>3, Zenon

\* The use goes back to the code of the claim, if it has one.
LEMMA RefundFacts ==
    ASSUME TypeOK, NEW code \in Codes \cup {None}, Refund(code)
    PROVE  /\ invites' \in [Codes -> Nat]
           /\ \A c \in Codes : invites'[c] = IF c = code THEN invites[c] + 1 ELSE invites[c]
  BY ConstantsAssumption, SMTT(30) DEF Refund, TypeOK

\* /release: the claim that goes is the one of the request that failed.
LEMMA CallReleaseStep ==
    ASSUME IInv, NEW r \in Signups, NEW n \in 0..2, CallRelease(r, n)
    PROVE  IInv'
<1>0. /\ n > 0 <=> n # 0
      /\ n = 2 => n # 0
      /\ n # 2 => Failing /\ env # {}
  BY SMTT(30) DEF CallRelease, Failing
<1>1. PICK l \in Labels : l = Label(r)
  BY Zenon DEF IInv, FormInv, CallRelease, Label, Form
<1>2. /\ pc[r] = "release" /\ Goto(r, "failed")
      /\ UNCHANGED <<env, object, plc, form, deleting, admin, granted, revoked>>
  BY Zenon DEF CallRelease
<1>3. /\ pc' \in [Signups -> Places]
      /\ pc'[r] = "failed"
      /\ \A x \in Signups : x # r => pc'[x] = pc[x]
  BY <1>2, GotoFacts, Zenon DEF IInv, Places
<1>4. \A x \in Signups : Label(x)' = Label(x) BY <1>2, Zenon DEF Label
<1>5. \A x \in Signups : pc'[x] \in Active => x # r /\ pc[x] \in Active
  BY <1>3, Zenon DEF Active
<1>6. FormInv' BY <1>2, <1>3, Zenon DEF IInv, FormInv, object
<1>7. HostInv' BY <1>2, Zenon DEF IInv, HostInv, object
<1>8. TaskInv' BY <1>2, <1>3, <1>4, Zenon DEF IInv, TaskInv, object
<1>9. CASE claims' = claims
  <2>0. invites' \in [Codes -> Nat] /\ (invites' = invites \/ Failing)
    <3>1. CASE invites' = invites BY <3>1, Zenon DEF IInv, TypeOK
    <3>2. CASE invites' # invites
      <4>1. /\ claims[l] # None /\ Refund(claims[l].invite_code)
            /\ n # 2 \/ claims' = [claims EXCEPT ![l] = None]
        BY <1>1, <3>2, Zenon DEF CallRelease, Releasable
      <4>2. claims[l].invite_code \in Codes \cup {None} BY <4>1, Zenon DEF IInv, TypeOK, Claim
      <4>3. n # 2 BY <1>9, <4>1, Zenon DEF IInv, TypeOK
      <4> QED BY <1>0, <4>1, <4>2, <4>3, RefundFacts, Zenon DEF IInv
    <3> QED BY <3>1, <3>2, Zenon
  <2>1. env = {} => FALSE
    <3> SUFFICES ASSUME env = {} PROVE FALSE
      BY Zenon
    <3>1. claims[l] # None BY <1>1, <1>2, Zenon DEF IInv, HoldInv, Active
    <3>2. claims[l].state # "active"
      BY <1>1, <1>2, <3>1, Zenon DEF IInv, BoundInv, HoldInv, Active
    <3>3. Releasable(claims[l]) BY <3>1, <3>2, Zenon DEF IInv, TypeOK, Releasable, Claim
    <3>4. n = 2 /\ n # 0 BY <1>0, Zenon
    <3>5. claims' = [claims EXCEPT ![l] = None] BY <1>1, <3>3, <3>4, Zenon DEF CallRelease, Lossy
    <3> QED BY <1>9, <3>1, <3>5, Zenon DEF IInv, TypeOK
  <2>2. TypeOK' BY <1>2, <1>3, <1>9, <2>0, Zenon DEF IInv, TypeOK, Places, Active, object
  <2>3. HoldInv' BY <1>2, <1>4, <1>5, <1>9, Zenon DEF IInv, HoldInv
  <2>4. BoundInv' BY <1>2, <1>3, <1>4, <1>9, Zenon DEF IInv, BoundInv
  <2>5. CodeInv' BY <1>2, <2>1, Zenon DEF CodeInv
  <2>6. CountInv' BY <1>2, <1>9, <2>0, Zenon DEF IInv, CountInv, Holding, Failing
  <2> QED BY <1>6, <1>7, <1>8, <2>2, <2>3, <2>4, <2>5, <2>6, Zenon DEF IInv
<1>10. CASE claims' # claims
  <2>1. /\ claims[l] # None /\ claims[l].state = "reserved"
        /\ Refund(claims[l].invite_code)
        /\ claims' = [claims EXCEPT ![l] = None]
    BY <1>1, <1>10, Zenon DEF CallRelease, Releasable
  <2>2. /\ claims' \in [Labels -> Claim \cup {None}] /\ claims'[l] = None
        /\ \A k \in Labels : k # l => claims'[k] = claims[k]
    BY <2>1, Zenon DEF IInv, TypeOK
  <2>3. /\ invites' \in [Codes -> Nat]
        /\ \A c \in Codes : invites'[c] =
             IF c = claims[l].invite_code THEN invites[c] + 1 ELSE invites[c]
    <3>1. claims[l].invite_code \in Codes \cup {None} BY <2>1, Zenon DEF IInv, TypeOK, Claim
    <3> QED BY <2>1, <3>1, RefundFacts, Zenon DEF IInv
  <2>4. TypeOK' BY <1>2, <1>3, <2>2, <2>3, Zenon DEF IInv, TypeOK, Places, Active, object
  <2>5. \A x \in Signups : pc[x] \in Active => Label(x) \in Labels
    BY Zenon DEF IInv, FormInv, Active, Label, Form
  <2>6. "delete" \notin env => \A x \in Signups : pc'[x] \in Active => Label(x) # l
    BY <1>1, <1>2, <1>5, Zenon DEF IInv, HoldInv, Active
  <2>7. HoldInv'
    <3>1. "delete" \notin env => \A x \in Signups : pc'[x] \in Active => claims'[Label(x)] # None
      BY <1>5, <2>2, <2>5, <2>6, ZenonT(60) DEF IInv, HoldInv
    <3> QED BY <1>2, <1>4, <1>5, <3>1, HoldFrame, Zenon DEF IInv
  <2>8. BoundInv' BY <1>2, <1>3, <1>4, <2>2, SMTT(30) DEF IInv, BoundInv
  <2>9. CodeInv'
    <3>1. \A x \in Signups : pc[x] \in Active /\ Label(x) # l => pc'[x] \in Active
      BY <1>1, <1>3, Zenon
    <3> QED BY <1>2, <1>4, <2>2, <3>1 DEF IInv, CodeInv
  <2>10. CountInv'
    <3> SUFFICES ASSUME NEW c \in Codes
                 PROVE  /\ IsFiniteSet(Holding(c)')
                        /\ ~Failing => invites'[c] + Cardinality(Holding(c)') = granted[c]
      BY <1>2, Zenon DEF CountInv, Failing
    <3>1. /\ IsFiniteSet(Holding(c))
          /\ ~Failing => invites[c] + Cardinality(Holding(c)) = granted[c]
      BY Zenon DEF IInv, CountInv
    <3>2. Cardinality(Holding(c)) \in Nat /\ invites[c] \in Nat
      BY <3>1, FS_CardinalityType, Zenon DEF IInv, TypeOK
    <3>3. /\ IsFiniteSet(Holding(c)')
          /\ IF claims[l].invite_code = c
             THEN Cardinality(Holding(c)') = Cardinality(Holding(c)) - 1
             ELSE Cardinality(Holding(c)') = Cardinality(Holding(c))
      BY <2>1, HoldingRemoved, Zenon DEF IInv
    <3> QED BY <2>3, <3>1, <3>2, <3>3, SMTT(30)
  <2> QED BY <1>6, <1>7, <1>8, <2>4, <2>7, <2>8, <2>9, <2>10, Zenon DEF IInv
<1> QED BY <1>9, <1>10, Zenon

-----------------------------------------------------------------------------
(* Step 3: /bind                                                            *)

\* /bind: without deletions the claim is still there, and it keeps its invite.
LEMMA CallBindStep ==
    ASSUME IInv, NEW r \in Signups, CallBind(r)
    PROVE  IInv'
<1>1. PICK l \in Labels : l = Label(r)
  BY Zenon DEF IInv, FormInv, CallBind, Label, Form
<1>2. /\ pc[r] = "bind" /\ Goto(r, "created")
      /\ UNCHANGED <<env, invites, granted, revoked, object, plc, form, deleting, admin>>
  BY Zenon DEF CallBind
<1>3. /\ pc' \in [Signups -> Places]
      /\ pc'[r] = "created"
      /\ \A x \in Signups : x # r => pc'[x] = pc[x]
  BY <1>2, GotoFacts, Zenon DEF IInv, Places, Active
<1>4. \A x \in Signups : Label(x)' = Label(x) BY <1>2, Zenon DEF Label
<1>5. \A x \in Signups : pc'[x] \in Active <=> pc[x] \in Active
  BY <1>2, <1>3, Zenon DEF Active
<1>6. /\ claims' \in [Labels -> Claim \cup {None}]
      /\ \A k \in Labels : k # l => claims'[k] = claims[k]
      /\ claims'[l] # claims[l] =>
           /\ claims[l] # None /\ claims'[l] # None
           /\ claims'[l].did = r /\ claims'[l].invite_code = claims[l].invite_code
  <2>1. CASE UNCHANGED claims BY <2>1, Zenon DEF IInv, TypeOK
  <2>2. CASE claims[l] = None
    BY <1>1, <2>2, Zenon DEF CallBind, IInv, TypeOK
  <2>3. CASE ~UNCHANGED claims /\ claims[l] # None
    <3>1. PICK claim \in Claim : claim = claims[l] BY <2>3, Zenon DEF IInv, TypeOK
    <3> DEFINE bound == [claim EXCEPT !.did = r, !.state = "active"]
    <3>2. claims' = [claims EXCEPT ![l] = bound] BY <1>1, <2>3, <3>1, Zenon DEF CallBind
    <3>3. bound \in Claim /\ bound.did = r /\ bound.invite_code = claim.invite_code
      BY Zenon DEF Claim
    <3> HIDE DEF bound
    <3> QED BY <2>3, <3>1, <3>2, <3>3, NoneAssumption, Zenon DEF IInv, TypeOK
  <2> QED BY <2>1, <2>2, <2>3, Zenon
<1>7. TypeOK' BY <1>2, <1>3, <1>6, Zenon DEF IInv, TypeOK, Places, Active, object
<1>8. FormInv' BY <1>2, <1>3, Zenon DEF IInv, FormInv, object
<1>9. HostInv' BY <1>2, Zenon DEF IInv, HostInv, object
<1>10. \A x \in Signups : pc[x] \in Active => Label(x) \in Labels
  BY Zenon DEF IInv, FormInv, Active, Label, Form
<1>11. \A k \in Labels :
         /\ claims'[k] # None <=> claims[k] # None
         /\ claims[k] # None => claims'[k].invite_code = claims[k].invite_code
  BY <1>6, Zenon
<1>12. HoldInv'
  <2>1. "delete" \notin env => \A x \in Signups : pc'[x] \in Active => claims'[Label(x)] # None
    BY <1>5, <1>10, <1>11, Zenon DEF IInv, HoldInv
  <2> QED BY <1>2, <1>4, <1>5, <2>1, HoldFrame, Zenon DEF IInv
<1>13. TaskInv' BY <1>2, <1>3, <1>4, Zenon DEF IInv, TaskInv, object
<1>14. BoundInv' BY <1>1, <1>2, <1>3, <1>4, <1>6, SMTT(30) DEF IInv, BoundInv
<1>15. CodeInv' BY <1>2, <1>4, <1>5, <1>11, Zenon DEF IInv, CodeInv
<1>16. \A c \in Codes : Holding(c)' = Holding(c) BY <1>11, Zenon DEF Holding
<1>17. CountInv' BY <1>2, <1>16, Zenon DEF IInv, CountInv, Failing
<1> QED BY <1>7, <1>8, <1>9, <1>12, <1>13, <1>14, <1>15, <1>17, Zenon DEF IInv

-----------------------------------------------------------------------------
(* The operator                                                             *)

\* mint_invite: what claims hold already comes on top.
LEMMA MintInviteStep ==
    ASSUME IInv, NEW code \in Codes, NEW uses \in 0..MaxUses, MintInvite(code, uses)
    PROVE  IInv'
<1> USE DEF MintInvite
<1>1. /\ \A c \in Codes : Holding(c)' = Holding(c) /\ IsFiniteSet(Holding(c))
      /\ Cardinality(Holding(code)) \in Nat /\ uses \in Nat
  <2>1. \A c \in Codes : Holding(c)' = Holding(c) BY Zenon DEF Holding
  <2>2. \A c \in Codes : IsFiniteSet(Holding(c)) BY Zenon DEF IInv, CountInv
  <2>3. Cardinality(Holding(code)) \in Nat BY <2>2, FS_CardinalityType, Zenon
  <2> QED BY <2>1, <2>2, <2>3, ConstantsAssumption
<1>2. /\ invites' \in [Codes -> Nat] /\ granted' \in [Codes -> Int] /\ admin' \in 0..MaxAdmin
      /\ revoked' \subseteq Codes
      /\ invites'[code] = uses /\ granted'[code] = uses + Cardinality(Holding(code))
      /\ \A c \in Codes : c # code => invites'[c] = invites[c] /\ granted'[c] = granted[c]
  BY <1>1, ConstantsAssumption DEF IInv, TypeOK, Operate
<1>3. \A x \in Signups : Label(x)' = Label(x) BY Zenon DEF Label
<1>4. TypeOK' BY <1>2, Zenon DEF IInv, TypeOK, object
<1>5. FormInv' BY Zenon DEF IInv, FormInv, object
<1>6. HostInv' BY Zenon DEF IInv, HostInv, object
<1>7. HoldInv' BY <1>3, Zenon DEF IInv, HoldInv
<1>8. TaskInv' BY <1>3, Zenon DEF IInv, TaskInv, object
<1>9. BoundInv' BY <1>3, Zenon DEF IInv, BoundInv
<1>10. CodeInv' BY <1>3, Zenon DEF IInv, CodeInv
<1>11. CountInv' BY <1>1, <1>2, Zenon DEF IInv, CountInv, Failing
<1> QED BY <1>4, <1>5, <1>6, <1>7, <1>8, <1>9, <1>10, <1>11, Zenon DEF IInv

\* delete_account empties the object.
LEMMA DeleteAccountStep ==
    ASSUME IInv, NEW label \in Labels, NEW n \in 0..3, DeleteAccount(label, n)
    PROVE  IInv'
<1> USE DEF DeleteAccount
<1>1. /\ accounts' \in [Labels -> SUBSET Signups]
      /\ \A k \in Labels : accounts'[k] \subseteq accounts[k]
      /\ deleting' \subseteq Labels /\ admin' \in 0..MaxAdmin /\ keys' \subseteq keys
  BY ConstantsAssumption DEF IInv, TypeOK, Operate
<1>2. TypeOK' BY <1>1, Zenon DEF IInv, TypeOK, registry
<1>3. FormInv' BY Zenon DEF IInv, FormInv
<1>4. HostInv' BY <1>1, Zenon DEF IInv, HostInv
<1>5. HoldInv' /\ BoundInv' /\ CodeInv' BY Zenon DEF HoldInv, BoundInv, CodeInv
<1>6. TaskInv' BY Zenon DEF IInv, TaskInv
<1>7. CountInv' BY CountFrame, Zenon DEF IInv, registry
<1> QED BY <1>2, <1>3, <1>4, <1>5, <1>6, <1>7, Zenon DEF IInv

\* The label is released, and the use that its claim held is gone for good.
LEMMA ForceReleaseStep ==
    ASSUME IInv, NEW label \in Labels, ForceRelease(label)
    PROVE  IInv'
<1>1. "delete" \in env BY Zenon DEF IInv, HoldInv, ForceRelease
<1>2. /\ deleting' = deleting \ {label}
      /\ UNCHANGED <<env, invites, revoked, object, plc, pc, form, admin>>
  BY Zenon DEF ForceRelease
<1>3. FormInv' BY <1>2, Zenon DEF IInv, FormInv, object
<1>4. HostInv' BY <1>2, Zenon DEF IInv, HostInv, object
<1>5. HoldInv' /\ BoundInv' /\ CodeInv' BY <1>1, <1>2, Zenon DEF HoldInv, BoundInv, CodeInv
<1>6. TaskInv' BY <1>1, <1>2, Zenon DEF IInv, TaskInv, object
<1>7. CASE UNCHANGED <<claims, granted>>
  <2>1. TypeOK' BY <1>2, <1>7, Zenon DEF IInv, TypeOK, object
  <2>2. CountInv' BY <1>2, <1>7, CountFrame, Zenon DEF IInv
  <2> QED BY <1>3, <1>4, <1>5, <1>6, <2>1, <2>2, Zenon DEF IInv
<1>8. CASE ~UNCHANGED <<claims, granted>>
  <2>1. /\ claims' = [claims EXCEPT ![label] = None] /\ claims[label] # None
        /\ granted' = IF claims[label].invite_code = None THEN granted
                      ELSE [granted EXCEPT ![claims[label].invite_code] = @ - 1]
    BY <1>8, Zenon DEF ForceRelease, IInv, TypeOK
  <2>2. claims[label].invite_code \in Codes \cup {None}
    BY <2>1, Zenon DEF IInv, TypeOK, Claim
  <2>3. ASSUME NEW c \in Codes
        PROVE  /\ IsFiniteSet(Holding(c)')
               /\ ~Failing => invites'[c] + Cardinality(Holding(c)') = granted'[c]
               /\ granted'[c] \in Int
    <3>1. /\ IsFiniteSet(Holding(c))
          /\ ~Failing => invites[c] + Cardinality(Holding(c)) = granted[c]
      BY Zenon DEF IInv, CountInv
    <3>2. Cardinality(Holding(c)) \in Nat /\ invites[c] \in Nat /\ granted[c] \in Int
      BY <3>1, FS_CardinalityType, Zenon DEF IInv, TypeOK
    <3>3. /\ IsFiniteSet(Holding(c)')
          /\ IF claims[label].invite_code = c
             THEN /\ Cardinality(Holding(c)') = Cardinality(Holding(c)) - 1
                  /\ Cardinality(Holding(c)) > 0
             ELSE Cardinality(Holding(c)') = Cardinality(Holding(c))
      BY <2>1, HoldingRemoved, Zenon DEF IInv
    <3>4. granted'[c] = IF claims[label].invite_code = c THEN granted[c] - 1 ELSE granted[c]
      BY <2>1, <2>2, ConstantsAssumption DEF IInv, TypeOK
    <3> QED BY <1>2, <3>1, <3>2, <3>3, <3>4, SMTT(30)
  <2>4. CountInv' BY <1>2, <2>3, Zenon DEF CountInv, Failing
  <2>5. claims' \in [Labels -> Claim \cup {None}] BY <2>1, Zenon DEF IInv, TypeOK
  <2>6. granted' \in [Codes -> Int]
    <3>1. DOMAIN granted' = Codes /\ granted' = [c \in Codes |-> granted'[c]]
      BY <2>1, Zenon DEF IInv, TypeOK
    <3> QED BY <2>3, <3>1, Zenon
  <2>7. TypeOK' BY <1>2, <2>5, <2>6, Zenon DEF IInv, TypeOK, object
  <2> QED BY <1>3, <1>4, <1>5, <1>6, <2>4, <2>7, Zenon DEF IInv
<1> QED BY <1>7, <1>8, Zenon

-----------------------------------------------------------------------------
(* The theorems                                                             *)

\* Every step preserves the invariant.
LEMMA NextIInv == IInv /\ [Next]_vars => IInv'
<1> SUFFICES ASSUME IInv, [Next]_vars PROVE IInv'
  BY Zenon
<1>1. ASSUME NEW r \in Signups, Front(r) \/ Provision(r) \/ Evicted(r) \/ Cancelled(r) PROVE IInv'
  BY <1>1, FrontStep, CallReleaseStep, CallBindStep, ProvisionStep, InsertAccountStep, Zenon
     DEF Front, Provision
<1>2. CASE UNCHANGED vars
  <2>1. CountInv' BY <1>2, CountFrame, Zenon DEF IInv, vars
  <2>2. TypeOK' BY <1>2, Zenon DEF IInv, TypeOK, vars
  <2>3. FormInv' /\ HostInv' BY <1>2, Zenon DEF IInv, FormInv, HostInv, vars
  <2>4. HoldInv' BY <1>2, Zenon DEF IInv, HoldInv, Label, vars
  <2>5. TaskInv' BY <1>2, Zenon DEF IInv, TaskInv, Label, vars
  <2>6. BoundInv' /\ CodeInv' BY <1>2, ZenonT(30) DEF IInv, BoundInv, CodeInv, Label, vars
  <2> QED BY <2>1, <2>2, <2>3, <2>4, <2>5, <2>6, Zenon DEF IInv
<1> QED BY <1>1, <1>2, CallClaimStep, MintInviteStep, DeleteAccountStep, ForceReleaseStep, Zenon DEF Next

\* The invariant holds throughout.
LEMMA Invariance == Spec => []IInv
  BY InitIInv, NextIInv, PTL DEF Spec

\* handlers.rs, provision_account: an account object holds at most one account.
THEOREM OneAccount == Spec => []OneAccountPerHost
<1>1. IInv => OneAccountPerHost
  <2> SUFFICES ASSUME IInv, NEW l \in Labels PROVE Cardinality(accounts[l]) <= 1
    BY Zenon DEF OneAccountPerHost
  <2>1. CASE accounts[l] = {} BY <2>1, FS_EmptySet
  <2>2. CASE accounts[l] # {}
    <3>1. PICK a \in accounts[l] : accounts[l] = {a} BY <2>2 DEF IInv, HostInv
    <3>2. Cardinality(accounts[l]) = 1 BY <3>1, FS_Singleton, Zenon
    <3> QED BY <3>2
  <2> QED BY <2>1, <2>2, Zenon
<1> QED BY <1>1, Invariance, PTL

\* lib.rs and registry.rs: without deletions a bound label names a complete account,
\* and a signup that was told it succeeded keeps its account and its label.
THEOREM LabelsAreAccounts == Spec => []LabelsNameAccounts
<1>1. IInv => LabelsNameAccounts
  <2> SUFFICES ASSUME IInv, "delete" \notin env
               PROVE  /\ \A l \in Labels : claims[l] # None /\ claims[l].state = "active" =>
                           /\ claims[l].did \in accounts[l] \cap plc
                           /\ {<<claims[l].did, "signing">>, <<claims[l].did, "rotation">>} \subseteq keys
                      /\ \A r \in Signups : pc[r] = "created" =>
                           r \in accounts[Label(r)] /\ is_taken(Label(r))
    BY Zenon DEF LabelsNameAccounts
  <2>1. \A r \in Signups : pc[r] = "created" =>
          /\ r \in accounts[Label(r)] /\ r \in plc
          /\ <<r, "signing">> \in keys /\ <<r, "rotation">> \in keys
          /\ claims[Label(r)] # None
    BY Zenon DEF IInv, TaskInv, HoldInv, Active
  <2> QED BY <2>1, Zenon DEF IInv, BoundInv, is_taken
<1> QED BY <1>1, Invariance, PTL

-----------------------------------------------------------------------------
(* A code admits no more signups than it was granted uses for               *)

Gated == "delete" \notin env /\ ~Open

\* A request that counts on a claim finds its own code there.
CarryInv ==
    Gated => \A r \in Signups : pc[r] \in Active =>
                form[r].code \in Codes /\ claims[Label(r)].invite_code = form[r].code

\* The uses that are left and those that admitted a request are within the grant.
BudgetInv ==
    Gated => \A c \in Codes :
        IsFiniteSet(Admitted(c)) /\ invites[c] + Cardinality(Admitted(c)) <= granted[c]

BInv == CarryInv /\ BudgetInv

\* No request joins those a code admitted, no use appears and no claim changes hands.
LEMMA BudgetFrame ==
    ASSUME IInv, BInv, UNCHANGED <<env, form>>, granted' = granted,
           invites' \in [Codes -> Nat], \A c \in Codes : invites'[c] <= invites[c],
           \A x \in Signups : pc'[x] \in Active => pc[x] \in Active,
           Gated => \A x \in Signups : pc'[x] \in Active =>
                       claims'[Label(x)].invite_code = claims[Label(x)].invite_code
    PROVE  BInv'
<1>1. Gated' <=> Gated BY Zenon DEF Gated
<1>2. CarryInv' BY <1>1, Zenon DEF BInv, CarryInv, Label
<1>3. ASSUME Gated, NEW c \in Codes
      PROVE  IsFiniteSet(Admitted(c)') /\ invites'[c] + Cardinality(Admitted(c)') <= granted'[c]
  <2>1. IsFiniteSet(Admitted(c)) /\ invites[c] + Cardinality(Admitted(c)) <= granted[c]
    BY <1>3, Zenon DEF BInv, BudgetInv
  <2>2. Admitted(c)' \in SUBSET Admitted(c) BY Zenon DEF Admitted
  <2>3. /\ IsFiniteSet(Admitted(c)') /\ Cardinality(Admitted(c)') <= Cardinality(Admitted(c))
        /\ Cardinality(Admitted(c)') \in Nat /\ Cardinality(Admitted(c)) \in Nat
    BY <2>1, <2>2, FS_Subset, FS_CardinalityType, Zenon
  <2>4. invites[c] \in Nat /\ invites'[c] \in Nat /\ granted[c] \in Int /\ invites'[c] <= invites[c]
    BY Zenon DEF IInv, TypeOK
  <2> QED BY <2>1, <2>3, <2>4, SMTT(30)
<1>4. BudgetInv' BY <1>1, <1>3, Zenon DEF BudgetInv
<1> QED BY <1>2, <1>4, Zenon DEF BInv

\* /claim: the burned use is the one that admits the request.
LEMMA ClaimBudget ==
    ASSUME IInv, BInv, NEW r \in Signups, NEW label \in Labels, NEW code \in Codes \cup {None},
           NEW n \in 0..2, CallClaim(r, label, code, n)
    PROVE  BInv'
<1> USE DEF CallClaim
<1>1. /\ UNCHANGED <<env, granted>> /\ pc[r] = "idle" /\ pc[r] \notin Active
      /\ Gated' <=> Gated
  BY Zenon DEF Active, Gated
<1>2. /\ form'[r].label = label /\ form'[r].code = code
      /\ \A x \in Signups : x # r => form'[x] = form[x]
  BY Zenon DEF IInv, TypeOK
<1>3. PICK where \in {"provision", "failed"} :
        /\ Goto(r, where)
        /\ where = "provision" => Claimable(label, code) /\ n = 2
  BY SMTT(30)
<1>4. /\ pc'[r] = where
      /\ \A x \in Signups : x # r => pc'[x] = pc[x]
  BY <1>3, GotoFacts, Zenon DEF IInv, Places, Active
<1>5. /\ Label(r)' = label
      /\ \A x \in Signups : x # r => Label(x)' = Label(x)
  BY <1>2, Zenon DEF Label
<1>6. \A l \in Labels : claims'[l] # claims[l] => l = label /\ claims[l] = None
  BY Zenon DEF IInv, TypeOK, Claimable, is_taken
<1>7. Gated => \A x \in Signups : pc[x] \in Active =>
                 /\ x # r /\ Label(x) \in Labels /\ claims[Label(x)] # None
                 /\ claims'[Label(x)] = claims[Label(x)]
  <2>1. \A x \in Signups : pc[x] \in Active => Label(x) \in Labels
    BY ZenonT(60) DEF IInv, FormInv, Active, Label, Form
  <2>2. Gated => \A x \in Signups : pc[x] \in Active => claims[Label(x)] # None
    BY Zenon DEF IInv, HoldInv, Gated
  <2> QED BY <1>1, <1>6, <2>1, <2>2, Zenon
<1>8. where = "provision" /\ ~Open =>
        /\ code \in Codes /\ invites' = [invites EXCEPT ![code] = @ - 1]
        /\ claims'[label].invite_code = code
  <2> SUFFICES ASSUME where = "provision", ~Open
               PROVE  /\ code \in Codes /\ invites' = [invites EXCEPT ![code] = @ - 1]
                      /\ claims'[label].invite_code = code
    BY Zenon
  <2>1. Claimable(label, code) /\ n = 2 /\ n # 0 BY <1>3, SMTT(30)
  <2>2. /\ code \in Codes /\ invites' = [invites EXCEPT ![code] = @ - 1]
        /\ claims' = [claims EXCEPT ![label] = NewClaim(code)]
    BY <2>1, Zenon DEF Claimable
  <2>3. claims'[label] = NewClaim(code) BY <2>2, Zenon DEF IInv, TypeOK
  <2>4. NewClaim(code).invite_code = code BY Zenon DEF NewClaim
  <2> QED BY <2>2, <2>3, <2>4, Zenon
<1>9. CarryInv'
  <2> SUFFICES ASSUME Gated, NEW x \in Signups, pc'[x] \in Active
               PROVE  form'[x].code \in Codes /\ claims'[Label(x)'].invite_code = form'[x].code
    BY <1>1, Zenon DEF CarryInv
  <2>1. CASE x = r
    <3>1. where = "provision" BY <1>4, <2>1, Zenon DEF Active
    <3> QED BY <1>2, <1>5, <1>8, <2>1, <3>1, Zenon DEF Gated
  <2>2. CASE x # r
    <3>1. /\ pc[x] \in Active /\ form'[x] = form[x] /\ Label(x)' = Label(x)
      BY <1>2, <1>4, <1>5, <2>2, Zenon
    <3>2. claims'[Label(x)] = claims[Label(x)] BY <1>7, <3>1, Zenon
    <3>3. form[x].code \in Codes /\ claims[Label(x)].invite_code = form[x].code
      BY <3>1, Zenon DEF BInv, CarryInv
    <3> QED BY <3>1, <3>2, <3>3, Zenon
  <2> QED BY <2>1, <2>2, Zenon
<1>10. /\ invites' \in [Codes -> Nat]
       /\ \A c \in Codes : invites'[c] <= invites[c]
       /\ where = "provision" /\ ~Open => invites'[code] = invites[code] - 1
  <2>1. CASE invites' = invites
    <3>1. \A c \in Codes : invites[c] <= invites[c] BY SMTT(30) DEF IInv, TypeOK
    <3>2. where = "provision" /\ ~Open => invites'[code] = invites[code] - 1
      BY <1>8, Zenon DEF IInv, TypeOK
    <3> QED BY <2>1, <3>1, <3>2, Zenon DEF IInv, TypeOK
  <2>2. CASE invites' # invites
    <3>1. /\ code \in Codes /\ invites[code] > 0
          /\ invites' = [invites EXCEPT ![code] = @ - 1]
      BY <2>2, Zenon DEF Claimable
    <3> QED BY <3>1, SMTT(30) DEF IInv, TypeOK
  <2> QED BY <2>1, <2>2, Zenon
<1>11. ASSUME Gated, NEW c \in Codes
       PROVE  IsFiniteSet(Admitted(c)') /\ invites'[c] + Cardinality(Admitted(c)') <= granted'[c]
  <2>1. IsFiniteSet(Admitted(c)) /\ invites[c] + Cardinality(Admitted(c)) <= granted[c]
    BY <1>11, Zenon DEF BInv, BudgetInv
  <2>2. r \notin Admitted(c) BY <1>1, Zenon DEF Admitted
  <2>3. /\ where = "provision" /\ code = c => Admitted(c)' = Admitted(c) \cup {r}
        /\ ~(where = "provision" /\ code = c) => Admitted(c)' = Admitted(c)
    <3>1. \A x \in Signups : x # r => (x \in Admitted(c)' <=> x \in Admitted(c))
      BY <1>2, <1>4, Zenon DEF Admitted
    <3>2. r \in Admitted(c)' <=> where = "provision" /\ code = c
      BY <1>2, <1>4, Zenon DEF Admitted, Active
    <3>3. Admitted(c)' \subseteq Signups /\ Admitted(c) \subseteq Signups BY Zenon DEF Admitted
    <3>4. r \in Admitted(c)' => Admitted(c)' = Admitted(c) \cup {r} BY <3>1, <3>3, Zenon
    <3>5. r \notin Admitted(c)' => \A x \in Signups : x \in Admitted(c)' <=> x \in Admitted(c)
      BY <2>2, <3>1, Zenon
    <3>6. r \notin Admitted(c)' => Admitted(c)' = Admitted(c) BY <3>3, <3>5, Zenon
    <3> QED BY <3>2, <3>4, <3>6, Zenon
  <2>4. /\ invites[c] \in Nat /\ invites'[c] \in Nat /\ granted[c] \in Int
        /\ invites'[c] <= invites[c] /\ granted'[c] = granted[c]
        /\ Cardinality(Admitted(c)) \in Nat
    BY <1>1, <1>10, <2>1, FS_CardinalityType, Zenon DEF IInv, TypeOK
  <2>5. CASE where = "provision" /\ code = c
    <3>0. Admitted(c)' = Admitted(c) \cup {r} BY <2>3, <2>5, Zenon
    <3>1. /\ IsFiniteSet(Admitted(c)') /\ Cardinality(Admitted(c)') = Cardinality(Admitted(c)) + 1
      BY <2>1, <2>2, <3>0, FS_AddElement, Zenon
    <3>2. invites'[c] = invites[c] - 1 BY <1>10, <1>11, <2>5, Zenon DEF Gated
    <3> QED BY <2>1, <2>4, <3>1, <3>2, SMTT(30)
  <2>6. CASE ~(where = "provision" /\ code = c)
    <3>1. Admitted(c)' = Admitted(c) BY <2>3, <2>6, Zenon
    <3>2. invites'[c] + Cardinality(Admitted(c)) <= granted'[c] BY <2>1, <2>4, SMTT(30)
    <3> QED BY <2>1, <3>1, <3>2, Zenon
  <2> QED BY <2>5, <2>6, Zenon
<1>12. BudgetInv' BY <1>1, <1>11, Zenon DEF BudgetInv
<1> QED BY <1>9, <1>12, Zenon DEF BInv

\* /release: the request gives up its place before anyone can use the refund, whether
\* or not the delete after it succeeds.
LEMMA ReleaseBudget ==
    ASSUME IInv, BInv, NEW r \in Signups, NEW n \in 0..2, CallRelease(r, n)
    PROVE  BInv'
<1>1. PICK l \in Labels : l = Label(r)
  BY Zenon DEF IInv, FormInv, CallRelease, Label, Form
<1>2. /\ pc[r] = "release" /\ pc[r] \in Active /\ Goto(r, "failed")
      /\ UNCHANGED <<env, form, granted>> /\ (Gated' <=> Gated)
  BY Zenon DEF CallRelease, Active, Gated
<1>3. /\ pc'[r] = "failed"
      /\ \A x \in Signups : x # r => pc'[x] = pc[x]
  BY <1>2, GotoFacts, Zenon DEF IInv, Places
<1>4. \A x \in Signups : pc'[x] \in Active => x # r /\ pc[x] \in Active
  BY <1>3, Zenon DEF Active
<1>5. \A k \in Labels : k # l => claims'[k] = claims[k]
  BY <1>1, Zenon DEF CallRelease, IInv, TypeOK
<1>6. Gated => \A x \in Signups : pc'[x] \in Active => claims'[Label(x)] = claims[Label(x)]
  <2>1. \A x \in Signups : pc[x] \in Active => Label(x) \in Labels
    BY ZenonT(60) DEF IInv, FormInv, Active, Label, Form
  <2>2. Gated => \A x \in Signups : pc'[x] \in Active => Label(x) # l
    BY <1>1, <1>2, <1>4, Zenon DEF IInv, HoldInv, Gated
  <2> QED BY <1>4, <1>5, <2>1, <2>2, Zenon
<1>7. CASE invites' = invites
  <2>1. \A c \in Codes : invites[c] <= invites[c] BY SMTT(30) DEF IInv, TypeOK
  <2>2. invites' \in [Codes -> Nat] BY <1>7, Zenon DEF IInv, TypeOK
  <2> QED BY <1>2, <1>4, <1>6, <1>7, <2>1, <2>2, BudgetFrame, Zenon
<1>8. CASE invites' # invites
  <2>1. claims[l] # None /\ Refund(claims[l].invite_code)
    BY <1>1, <1>8, Zenon DEF CallRelease, Releasable
  <2>2. claims[l].invite_code \in Codes \cup {None} BY <2>1, Zenon DEF IInv, TypeOK, Claim
  <2> DEFINE code == claims[l].invite_code
  <2>3. PICK k : k = code BY Zenon
  <2>4. /\ invites' \in [Codes -> Nat]
        /\ \A c \in Codes : invites'[c] = IF c = k THEN invites[c] + 1 ELSE invites[c]
    BY <2>1, <2>2, <2>3, RefundFacts, Zenon DEF IInv
  <2> HIDE DEF code
  <2>5. Gated => form[r].code = k
    BY <1>1, <1>2, <2>3, Zenon DEF BInv, CarryInv, code
  <2>6. CarryInv' BY <1>2, <1>4, <1>6, Zenon DEF BInv, CarryInv, Label
  <2>7. ASSUME Gated, NEW c \in Codes
        PROVE  IsFiniteSet(Admitted(c)') /\ invites'[c] + Cardinality(Admitted(c)') <= granted'[c]
    <3>1. IsFiniteSet(Admitted(c)) /\ invites[c] + Cardinality(Admitted(c)) <= granted[c]
      BY <2>7, Zenon DEF BInv, BudgetInv
    <3>2. Admitted(c)' = Admitted(c) \ {r}
      <4>1. \A x \in Signups : x # r => (x \in Admitted(c)' <=> x \in Admitted(c))
        BY <1>2, <1>3, Zenon DEF Admitted
      <4>2. r \notin Admitted(c)' BY <1>3, Zenon DEF Admitted, Active
      <4>3. Admitted(c)' \subseteq Signups /\ Admitted(c) \subseteq Signups BY Zenon DEF Admitted
      <4> QED BY <4>1, <4>2, <4>3, Zenon
    <3>3. /\ IsFiniteSet(Admitted(c) \ {r}) /\ Cardinality(Admitted(c) \ {r}) \in Nat
          /\ Cardinality(Admitted(c) \ {r}) =
               IF r \in Admitted(c) THEN Cardinality(Admitted(c)) - 1 ELSE Cardinality(Admitted(c))
          /\ Cardinality(Admitted(c)) \in Nat
      BY <3>1, FS_RemoveElement, FS_CardinalityType, Zenon
    <3>4. r \in Admitted(c) <=> c = k BY <1>2, <2>5, <2>7, Zenon DEF Admitted
    <3>5. invites[c] \in Nat /\ granted[c] \in Int /\ granted'[c] = granted[c]
      BY <1>2, Zenon DEF IInv, TypeOK
    <3> QED BY <2>4, <3>1, <3>2, <3>3, <3>4, <3>5, SMTT(30)
  <2>8. BudgetInv' BY <1>2, <2>7, Zenon DEF BudgetInv
  <2> QED BY <2>6, <2>8, Zenon DEF BInv
<1> QED BY <1>7, <1>8, Zenon

\* mint_invite: every admitted request holds a claim, and no two the same.
LEMMA MintBudget ==
    ASSUME IInv, BInv, NEW code \in Codes, NEW uses \in 0..MaxUses, MintInvite(code, uses)
    PROVE  BInv'
<1> USE DEF MintInvite
<1>1. UNCHANGED <<env, form, pc, claims>> /\ (Gated' <=> Gated) BY Zenon DEF Gated
<1>2. CarryInv' BY <1>1, Zenon DEF BInv, CarryInv, Label
<1>3. ASSUME Gated, NEW c \in Codes
      PROVE  IsFiniteSet(Admitted(c)') /\ invites'[c] + Cardinality(Admitted(c)') <= granted'[c]
  <2>1. IsFiniteSet(Admitted(c)) /\ invites[c] + Cardinality(Admitted(c)) <= granted[c]
    BY <1>3, Zenon DEF BInv, BudgetInv
  <2>2. Admitted(c)' = Admitted(c) BY <1>1, Zenon DEF Admitted
  <2>3. IsFiniteSet(Holding(c)) BY Zenon DEF IInv, CountInv
  <2>4. Cardinality(Admitted(c)) <= Cardinality(Holding(c))
    <3> DEFINE A == Admitted(c)
               H == Holding(c)
               f == [r \in A |-> Label(r)]
    <3>1. \A r \in A : r \in Signups /\ pc[r] \in Active /\ form[r].code = c BY Zenon DEF Admitted
    <3>2. \A r \in A : Label(r) \in Labels
      BY <3>1, ZenonT(60) DEF IInv, FormInv, Active, Label, Form
    <3>3. \A r \in A : claims[Label(r)] # None /\ claims[Label(r)].invite_code = c
      BY <1>3, <3>1, Zenon DEF IInv, HoldInv, BInv, CarryInv, Gated
    <3>4. \A r \in A : Label(r) \in H BY <3>2, <3>3, Zenon DEF Holding
    <3>5. \A r, q \in A : Label(r) = Label(q) => r = q
      BY <1>3, <3>1, Zenon DEF IInv, HoldInv, Gated
    <3>6. f \in [A -> H] BY <3>4, Zenon
    <3>7. \A a, b \in A : f[a] = f[b] => a = b BY <3>5, Zenon
    <3> HIDE DEF A, H, f
    <3>8. f \in Injection(A, H) BY <3>6, <3>7, Fun_IsInj, Zenon
    <3>9. Cardinality(A) <= Cardinality(H) BY <2>3, <3>8, FS_Injection, Zenon DEF H
    <3> QED BY <3>9, Zenon DEF A, H
  <2>5. /\ Cardinality(Admitted(c)) \in Nat /\ Cardinality(Holding(c)) \in Nat /\ uses \in Nat
        /\ invites[c] \in Nat /\ granted[c] \in Int
    BY <2>1, <2>3, FS_CardinalityType, ConstantsAssumption, SMTT(30) DEF IInv, TypeOK
  <2>6. /\ c = code => invites'[c] = uses /\ granted'[c] = uses + Cardinality(Holding(c))
        /\ c # code => invites'[c] = invites[c] /\ granted'[c] = granted[c]
    BY Zenon DEF IInv, TypeOK
  <2> QED BY <2>1, <2>2, <2>4, <2>5, <2>6, SMTT(30)
<1>4. BudgetInv' BY <1>1, <1>3, Zenon DEF BudgetInv
<1> QED BY <1>2, <1>4, Zenon DEF BInv

\* Every step keeps the budget.
LEMMA NextBInv == IInv /\ BInv /\ [Next]_vars => BInv'
<1> SUFFICES ASSUME IInv, BInv, [Next]_vars PROVE BInv'
  BY Zenon
<1>0. invites \in [Codes -> Nat] /\ \A c \in Codes : invites[c] <= invites[c]
  BY SMTT(30) DEF IInv, TypeOK
<1>1. ASSUME UNCHANGED <<env, form, claims, invites, granted>>,
             \A x \in Signups : pc'[x] \in Active => pc[x] \in Active
      PROVE  BInv'
  BY <1>0, <1>1, BudgetFrame, Zenon
<1>2. ASSUME NEW r \in Signups, Provisioned(r) \/ ProvisionFailed(r) \/ Cancelled(r)
      PROVE  BInv'
  <2>1. UNCHANGED <<env, form, claims, invites, granted>>
    BY <1>2, Zenon DEF Provisioned, ProvisionFailed, Cancelled, registry
  <2>2. PICK where \in {"bind", "release", "failed"} : Goto(r, where) /\ pc[r] \in Active
    BY <1>2, Zenon DEF Provisioned, ProvisionFailed, Cancelled, Active
  <2>3. \A x \in Signups : x # r => pc'[x] = pc[x]
    BY <2>2, GotoFacts, Zenon DEF IInv, Places, Active
  <2> QED BY <1>1, <2>1, <2>2, <2>3, Zenon
<1>3. ASSUME NEW r \in Signups, Provision(r) \/ Evicted(r)
      PROVE  BInv'
  <2>1. UNCHANGED <<env, form, claims, invites, granted, pc>>
    BY <1>3, Zenon DEF Provision, CountAccounts, PostOperation, PostFails, InsertAccount, Evicted, registry
  <2> QED BY <1>1, <2>1, Zenon
<1>4. ASSUME NEW r \in Signups, CallBind(r)
      PROVE  BInv'
  <2>1. UNCHANGED <<env, form, invites, granted>> /\ Goto(r, "created") /\ pc[r] \in Active
    BY <1>4, Zenon DEF CallBind, Active
  <2>2. \A x \in Signups : pc'[x] \in Active => pc[x] \in Active
    BY <2>1, GotoFacts, Zenon DEF IInv, Places, Active
  <2>3. PICK l \in Labels : l = Label(r)
    BY <1>4, Zenon DEF IInv, FormInv, CallBind, Label, Form
  <2>4. \A k \in Labels : claims[k] # None => claims'[k].invite_code = claims[k].invite_code
    <3>1. CASE UNCHANGED claims BY <3>1, Zenon
    <3>2. CASE claims[l] = None BY <1>4, <2>3, <3>2, Zenon DEF CallBind, IInv, TypeOK
    <3>3. CASE ~UNCHANGED claims /\ claims[l] # None
      <4>1. PICK claim \in Claim : claim = claims[l] BY <3>3, Zenon DEF IInv, TypeOK
      <4> DEFINE bound == [claim EXCEPT !.did = r, !.state = "active"]
      <4>2. claims' = [claims EXCEPT ![l] = bound] BY <1>4, <2>3, <3>3, <4>1, Zenon DEF CallBind
      <4>3. bound.invite_code = claim.invite_code BY Zenon DEF Claim
      <4> HIDE DEF bound
      <4> QED BY <4>1, <4>2, <4>3, Zenon DEF IInv, TypeOK
    <3> QED BY <3>1, <3>2, <3>3, Zenon
  <2>5. Gated => \A x \in Signups : pc'[x] \in Active =>
                   claims'[Label(x)].invite_code = claims[Label(x)].invite_code
    <3>1. \A x \in Signups : pc[x] \in Active => Label(x) \in Labels
      BY ZenonT(60) DEF IInv, FormInv, Active, Label, Form
    <3>2. Gated => \A x \in Signups : pc[x] \in Active => claims[Label(x)] # None
      BY Zenon DEF IInv, HoldInv, Gated
    <3> QED BY <2>2, <2>4, <3>1, <3>2, Zenon
  <2> QED BY <1>0, <2>1, <2>2, <2>5, BudgetFrame, Zenon
<1>5. CASE \E label \in Labels : ForceRelease(label) \/ \E n \in 0..3 : DeleteAccount(label, n)
  <2>1. "delete" \in env /\ env' = env
    BY <1>5, Zenon DEF IInv, HoldInv, ForceRelease, DeleteAccount
  <2> QED BY <2>1, Zenon DEF BInv, CarryInv, BudgetInv, Gated
<1>6. CASE UNCHANGED vars
  <2>1. UNCHANGED <<env, form, claims, invites, granted, pc>> BY <1>6, Zenon DEF vars
  <2> QED BY <1>1, <2>1, Zenon
<1> QED BY <1>2, <1>3, <1>4, <1>5, <1>6, ClaimBudget, ReleaseBudget, MintBudget, Zenon DEF Next, Front

\* registry.rs: while no statement fails every use of a code is available or held by
\* one claim; whatever fails, a code admits no more signups than it was granted uses
\* for (without deletions); and when nothing fails and every signup is answered, the
\* uses that are gone are those of the accounts.
THEOREM UsesAreConserved == Spec => []InvitesConserved
<1>1. Init => BInv
  <2> SUFFICES ASSUME Init PROVE BInv
    BY Zenon
  <2>1. \A c \in Codes : Admitted(c) = {} /\ invites[c] = 0 /\ granted[c] = 0
    BY Zenon DEF Init, Admitted, Active
  <2>2. CarryInv BY Zenon DEF Init, CarryInv, Active
  <2>3. BudgetInv BY <2>1, FS_EmptySet, SMTT(30) DEF BudgetInv
  <2> QED BY <2>2, <2>3, Zenon DEF BInv
<1>2. IInv /\ BInv => InvitesConserved
  <2> SUFFICES ASSUME IInv, BInv, NEW c \in Codes
               PROVE  /\ ~Failing => invites[c] + Cardinality(Holding(c)) = granted[c]
                      /\ Gated => invites[c] + Cardinality(Admitted(c)) <= granted[c]
                      /\ env = {} /\ ~Open
                           /\ (\A r \in Signups : pc[r] \in {"idle", "created", "failed"}) =>
                           granted[c] - invites[c] =
                             Cardinality({r \in Signups : pc[r] = "created" /\ form[r].code = c})
    BY Zenon DEF IInv, InvitesConserved, UsesBalance, Gated
  <2>1. /\ IsFiniteSet(Holding(c))
        /\ ~Failing => invites[c] + Cardinality(Holding(c)) = granted[c]
    BY Zenon DEF IInv, CountInv
  <2>2. Cardinality(Holding(c)) \in Nat /\ invites[c] \in Nat
    BY <2>1, FS_CardinalityType, Zenon DEF IInv, TypeOK
  <2>3. ASSUME env = {}, ~Open, \A r \in Signups : pc[r] \in {"idle", "created", "failed"}
        PROVE  Cardinality({r \in Signups : pc[r] = "created" /\ form[r].code = c})
                 = Cardinality(Holding(c))
    <3> DEFINE Created == {r \in Signups : pc[r] = "created" /\ form[r].code = c}
               f == [r \in Created |-> Label(r)]
    <3>1. \A r \in Created : Label(r) \in Labels /\ claims[Label(r)] # None
      BY <2>3, Zenon DEF IInv, HoldInv, FormInv, Active, Label, Form
    <3>2. \A r, q \in Created : Label(r) = Label(q) => r = q
      BY <2>3, Zenon DEF IInv, HoldInv, Active
    <3>3. \A l \in Labels : claims[l] # None =>
            \E r \in Signups : pc[r] = "created" /\ Label(r) = l /\ claims[l].invite_code = form[r].code
      BY <2>3, Zenon DEF IInv, CodeInv, Active
    <3>4. \A r \in Created : Label(r) \in Holding(c)
      BY <2>3, <3>1, <3>3, Zenon DEF IInv, HoldInv, Active, Holding
    <3>5. \A l \in Holding(c) : \E r \in Created : Label(r) = l
      BY <3>3, Zenon DEF Holding
    <3>6. f \in [Created -> Holding(c)] BY <3>4, Zenon
    <3>7. \A a, b \in Created : f[a] = f[b] => a = b BY <3>2, Zenon
    <3>8. \A l \in Holding(c) : \E r \in Created : f[r] = l BY <3>5, Zenon
    <3> HIDE DEF f, Created
    <3>9. f \in Bijection(Created, Holding(c)) BY <3>6, <3>7, <3>8, Fun_IsBij, Zenon
    <3>10. ExistsBijection(Created, Holding(c)) BY <3>9, Fun_ExistsBij, Zenon
    <3>11. ExistsBijection(Holding(c), Created) BY <3>10, Fun_ExistsBijSymmetric, Zenon
    <3>12. Cardinality(Created) = Cardinality(Holding(c)) BY <2>1, <3>11, FS_Bijection, Zenon
    <3> QED BY <3>12, Zenon DEF Created
  <2>4. Gated => invites[c] + Cardinality(Admitted(c)) <= granted[c]
    BY Zenon DEF BInv, BudgetInv
  <2>5. env = {} => ~Failing BY Zenon DEF Failing
  <2> QED BY <2>1, <2>2, <2>3, <2>4, <2>5
<1> QED BY <1>1, <1>2, NextBInv, InitIInv, Invariance, PTL DEF Spec

=============================================================================
