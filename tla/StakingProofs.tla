---------------------------- MODULE StakingProofs ----------------------------
(***************************************************************************)
(* Staking keeps its rows, its money and its limits, for any number of     *)
(* users, pools, stakes, calls and rounds, while administrators change     *)
(* pools and roles: what follows holds with the exceptions that the        *)
(* properties of Staking state, and no others.                             *)
(*                                                                         *)
(* RolesInv is about the roles alone: a request that is alone has taken    *)
(* every treasury there is, and who revokes an administrator is another    *)
(* one.  Stand ties what calls and rounds have read to the rows they will  *)
(* write on.  Unraced and CallsKeepLimits say what a settlement, or a      *)
(* call, may rely on as long as no other one overlaps it.  DriftInv: what  *)
(* a wallet holds, and what a transaction has seen of it, is no further    *)
(* from its entries than what was committed beside other readers.          *)
(***************************************************************************)
EXTENDS Staking, SumLemmas, TLAPS

RolesInv ==
    /\ StaffTypeOK
    /\ \A q \in Request :
         /\ At(q, "insert") => request[q].role = "TREASURY"
         /\ At(q, "insert") /\ request[q].alone
              => Inserting = {q} /\ Treasuries \subseteq request[q].seen
         /\ At(q, "revoke") /\ request[q].role = "ADMIN"
              => request[q].actor \in User \ {request[q].user}
    /\ overlapped \/ \A u, v \in Treasuries : u = v
    /\ AnAdminRemains

Existing == {s \in Stake : Exists(s)}

\* The asset is what the pool takes, as far as nobody has given it another.
SameAsset(asset, p) == pool[p].asset = asset \/ p \in switched

StakesStand ==
    /\ Existing = 1..Cardinality(Existing)
    /\ \A s \in Stake :
         /\ Exists(s) => /\ pool[stake[s].pool] \in PoolRow
                         /\ SameAsset(stake[s].asset, stake[s].pool)
         /\ ~Exists(s) => paid[s] = <<>> /\ fees[s] = <<>>

CallsStand ==
    \A c \in Caller : call[c] # Idle =>
      /\ pool[call[c].pool] # NoPool
      /\ pool[call[c].pool] \in PoolRow => SameAsset(call[c].asset, call[c].pool)

RoundsStand ==
    \A k \in Settler : settler[k] # Idle =>
      /\ settler[k].due \subseteq Existing
      /\ settler[k].step = "commit" =>
           LET s == settler[k].id
           IN  /\ s \in Existing
               /\ settler[k].asset \in Asset
               /\ settler[k].asset = stake[s].asset \/ stake[s].pool \in switched

Stand ==
    /\ RolesInv
    /\ TypeOK
    /\ StakesStand
    /\ CallsStand
    /\ RoundsStand
    /\ PaidInKind

Unraced ==
    \A s \in Stake, k \in Settler :
      ~raced[s] /\ k \in Settling(s) => Active(s) /\ Settling(s) = {k}

PaidInv == PaidOnce /\ Unraced

CallsKeepLimits ==
    \A u \in User, p \in Pool, c \in Caller :
      c \in SameCalls(u, p) /\ ~call[c].raced =>
        /\ SameCalls(u, p) = {c}
        /\ ActiveTotal(u, p) + call[c].amount <= call[c].terms.cap
        /\ \A s \in StakesOf(u, p) : now - stake[s].startedAt >= call[c].terms.cooldown

-----------------------------------------------------------------------------
(* The roles. *)

\* At first there is an administrator, and no two treasuries.
LEMMA RolesInit == StaffInit => RolesInv
  <1> SUFFICES ASSUME StaffInit PROVE RolesInv
    OBVIOUS
  <1>1. StaffTypeOK
    <2>1. request \in [Request -> {NoRequest} \cup StaffRequest]
      BY DEF StaffInit
    <2>2. MaxChanges \in Nat /\ FirstRoles \subseteq User \X Role
      BY StaffAssumption
    <2>3. overlapped \in BOOLEAN /\ crossed \in BOOLEAN
      BY Zenon DEF StaffInit
    <2>4. roles \subseteq User \X Role /\ changes \in 0..MaxChanges
      BY <2>2 DEF StaffInit
    <2>5. QED
      BY <2>1, <2>3, <2>4 DEF StaffTypeOK
  <1>2. \A q \in Request : request[q].step = "idle"
    BY DEF StaffInit, NoRequest
  <1>3. \A u, v \in Treasuries : u = v
    BY StaffAssumption DEF StaffInit, Treasuries, Holders
  <1>4. AnAdminRemains
    BY StaffAssumption DEF StaffInit, AnAdminRemains, IsPlatformAdmin
  <1>5. QED
    BY <1>1, <1>2, <1>3, <1>4 DEF RolesInv, At

\* Steps that touch no role and no request of the roles page.
LEMMA RolesStay ==
  ASSUME RolesInv, UNCHANGED <<roles, request, overlapped, crossed>>,
         changes' \in 0..MaxChanges
  PROVE  RolesInv'
  BY DEF RolesInv, StaffTypeOK, At, Inserting, Treasuries, Holders, AnAdminRemains,
         IsPlatformAdmin

\* A request is let in: no transaction is open in it yet.
LEMMA LetInKeepsRoles ==
  ASSUME RolesInv, NEW q \in Request, NEW step \in {"assign", "revoke"},
         NEW actor \in User, NEW user \in User, NEW role \in Role,
         LetIn(q, step, actor, user, role),
         ~(step = "revoke" /\ role = "ADMIN" /\ actor = user)
  PROVE  RolesInv'
  <1> DEFINE new == [step |-> step,
                     actor |-> IF step = "revoke" /\ role = "ADMIN" THEN actor ELSE None,
                     user |-> user, role |-> role, seen |-> {}, alone |-> TRUE]
  <1>1. new \in StaffRequest
    BY DEF StaffRequest
  <1>2. /\ request' = [request EXCEPT ![q] = new] /\ changes' \in 0..MaxChanges
        /\ UNCHANGED <<roles, overlapped, crossed>>
    BY StaffAssumption DEF LetIn, RolesInv, StaffTypeOK
  <1>3. StaffTypeOK'
    BY <1>1, <1>2 DEF RolesInv, StaffTypeOK
  <1>4. new.step = step /\ new.role = role /\ new.user = user
        /\ (step = "revoke" /\ role = "ADMIN" => new.actor = actor)
    OBVIOUS
  <1> HIDE DEF new
  <1>5. request'[q] = new /\ \A p \in Request \ {q} : request'[p] = request[p]
    BY <1>2 DEF RolesInv, StaffTypeOK
  <1>6. Treasuries' = Treasuries /\ AnAdminRemains'
    BY <1>2 DEF RolesInv, Treasuries, Holders, AnAdminRemains, IsPlatformAdmin
  <1>7. ~At(q, "insert")'
    BY <1>4, <1>5 DEF At
  <1>8. ASSUME NEW p \in Request, At(p, "insert")', request'[p].alone
        PROVE  Inserting' = {p} /\ Treasuries' \subseteq request'[p].seen
    <2>1. p # q /\ request'[p] = request[p]
      BY <1>5, <1>7, <1>8
    <2>2. Inserting = {p} /\ Treasuries \subseteq request[p].seen
      BY <1>8, <2>1 DEF RolesInv, At
    <2>3. Inserting' = {p}
      BY <1>5, <1>7, <2>1, <2>2 DEF Inserting, At
    <2>4. QED
      BY <1>6, <2>1, <2>2, <2>3
  <1>9. ASSUME NEW p \in Request
        PROVE  /\ At(p, "insert")' => request'[p].role = "TREASURY"
               /\ At(p, "revoke")' /\ request'[p].role = "ADMIN"
                    => request'[p].actor \in User \ {request'[p].user}
    BY <1>4, <1>5 DEF RolesInv, At
  <1>10. QED
    BY <1>2, <1>3, <1>6, <1>8, <1>9 DEF RolesInv

\* What a request that ends does to the others.
Took(q, users) ==
    /\ request' \in [Request -> {NoRequest} \cup StaffRequest]
    /\ request'[q] = NoRequest
    /\ \A p \in Request \ {q} :
         /\ request'[p].step = request[p].step
         /\ request[p].step # "insert" => request'[p] = request[p]
         /\ request[p].step = "insert" =>
              /\ request'[p].role = request[p].role
              /\ request'[p].alone = request[p].alone
              /\ request'[p].seen = request[p].seen \ users

\* This is what Gone does.
LEMMA GoneTakes ==
  ASSUME RolesInv, NEW q \in Request, NEW users, request' = Gone(users, q)
  PROVE  Took(q, users)
  <1>1. \A p \in Request : request[p] \in {NoRequest} \cup StaffRequest
    BY DEF RolesInv, StaffTypeOK
  <1>2. \A p \in Request : p \in Inserting <=> request[p].step = "insert"
    BY DEF Inserting, At
  <1>3. \A p \in Request : request[p].step = "insert" =>
          /\ request[p] \in StaffRequest
          /\ [request[p] EXCEPT !.seen = @ \ users] \in StaffRequest
    <2> SUFFICES ASSUME NEW p \in Request, request[p].step = "insert"
                 PROVE  /\ request[p] \in StaffRequest
                        /\ [request[p] EXCEPT !.seen = @ \ users] \in StaffRequest
      OBVIOUS
    <2>1. request[p] \in StaffRequest
      BY <1>1 DEF NoRequest
    <2>2. QED
      BY <2>1 DEF StaffRequest
  <1>4. request' = [p \in Request |->
                     IF p = q THEN NoRequest
                     ELSE IF request[p].step = "insert"
                          THEN [request[p] EXCEPT !.seen = @ \ users]
                          ELSE request[p]]
    BY <1>2 DEF Gone
  <1>5. \A p \in Request \ {q} : request[p].step = "insert" =>
          /\ request'[p].step = "insert"
          /\ request'[p].role = request[p].role
          /\ request'[p].alone = request[p].alone
          /\ request'[p].seen = request[p].seen \ users
    BY <1>3, <1>4 DEF StaffRequest
  <1>6. request' \in [Request -> {NoRequest} \cup StaffRequest]
    BY <1>1, <1>3, <1>4
  <1>7. QED
    BY <1>4, <1>5, <1>6 DEF Took

\* A request ends and no treasury is added.
LEMMA EndKeepsRoles ==
  ASSUME RolesInv, NEW q \in Request, request' = Gone({}, q),
         roles' \subseteq User \X Role, Treasuries' \subseteq Treasuries,
         UNCHANGED <<overlapped, changes>>, crossed' \in BOOLEAN, AnAdminRemains'
  PROVE  RolesInv'
  <1>0. Took(q, {})
    BY GoneTakes
  <1>1. StaffTypeOK'
    BY <1>0 DEF Took, RolesInv, StaffTypeOK
  <1>2. overlapped' \/ \A u, v \in Treasuries' : u = v
    BY DEF RolesInv
  <1>3. ASSUME NEW p \in Request
        PROVE  /\ At(p, "insert")' => request'[p].role = "TREASURY"
               /\ At(p, "revoke")' /\ request'[p].role = "ADMIN"
                    => request'[p].actor \in User \ {request'[p].user}
    <2>1. CASE p = q
      BY <2>1, <1>0 DEF Took, At, NoRequest
    <2>2. CASE p # q
      BY <2>2, <1>0 DEF Took, At, RolesInv
    <2>3. QED
      BY <2>1, <2>2
  <1>4. ASSUME NEW p \in Request, At(p, "insert")', request'[p].alone
        PROVE  Inserting' = {p} /\ Treasuries' \subseteq request'[p].seen
    <2>1. p # q
      BY <1>4, <1>0 DEF Took, At, NoRequest
    <2>2. /\ At(p, "insert") /\ request[p].alone
          /\ request'[p].seen = request[p].seen
      <3>1. At(p, "insert")
        BY <1>4, <2>1, <1>0 DEF Took, At
      <3>2. \A r \in Request \ {q} : request[r].step = "insert" =>
              request'[r].alone = request[r].alone /\ request'[r].seen = request[r].seen \ {}
        BY <1>0 DEF Took
      <3>3. request'[p].alone = request[p].alone /\ request'[p].seen = request[p].seen \ {}
        BY <2>1, <3>1, <3>2, Zenon DEF At
      <3>4. QED
        BY <1>4, <3>1, <3>3
    <2>3. Inserting = {p} /\ Treasuries \subseteq request[p].seen
      BY <2>2 DEF RolesInv
    <2>4. Inserting' \subseteq Inserting /\ p \in Inserting'
      BY <1>4, <1>0 DEF Took, Inserting, At, NoRequest
    <2>5. QED
      BY <2>2, <2>3, <2>4
  <1>5. QED
    BY <1>1, <1>2, <1>3, <1>4 DEF RolesInv

\* deleteMany: it is alone when nobody else is between delete and upsert.
LEMMA DeleteKeepsRoles ==
  ASSUME RolesInv, NEW q \in Request, DeleteTreasuries(q)
  PROVE  RolesInv'
  <1> DEFINE new == [request[q] EXCEPT !.step = "insert", !.seen = Treasuries,
                                       !.alone = (Inserting = {})]
  <1>1. request[q] \in StaffRequest /\ request[q].role = "TREASURY" /\ q \notin Inserting
    <2>1. request[q].step = "assign" /\ request[q].role = "TREASURY"
      BY DEF DeleteTreasuries, At
    <2>2. request[q] \in {NoRequest} \cup StaffRequest
      BY DEF RolesInv, StaffTypeOK
    <2>3. QED
      BY <2>1, <2>2 DEF NoRequest, Inserting, At
  <1>2. /\ new \in StaffRequest /\ new.step = "insert" /\ new.role = "TREASURY"
        /\ new.seen = Treasuries /\ new.alone = (Inserting = {})
    BY <1>1 DEF StaffRequest, Treasuries, Holders
  <1>3. \A p \in Inserting :
          /\ request[p] \in StaffRequest
          /\ [request[p] EXCEPT !.alone = FALSE] \in StaffRequest
          /\ [request[p] EXCEPT !.alone = FALSE].step = "insert"
          /\ [request[p] EXCEPT !.alone = FALSE].role = request[p].role
          /\ ~[request[p] EXCEPT !.alone = FALSE].alone
    <2> SUFFICES ASSUME NEW p \in Inserting
                 PROVE  /\ request[p] \in StaffRequest
                        /\ [request[p] EXCEPT !.alone = FALSE] \in StaffRequest
                        /\ [request[p] EXCEPT !.alone = FALSE].step = "insert"
                        /\ [request[p] EXCEPT !.alone = FALSE].role = request[p].role
                        /\ ~[request[p] EXCEPT !.alone = FALSE].alone
      OBVIOUS
    <2>1. request[p] \in StaffRequest /\ request[p].step = "insert"
      BY DEF Inserting, At, RolesInv, StaffTypeOK, NoRequest
    <2>2. QED
      BY <2>1 DEF StaffRequest
  <1> HIDE DEF new
  <1>4. request' = [p \in Request |->
                     IF p = q THEN new
                     ELSE IF p \in Inserting THEN [request[p] EXCEPT !.alone = FALSE]
                     ELSE request[p]]
    BY DEF DeleteTreasuries, new
  <1>5. UNCHANGED <<roles, overlapped, crossed, changes>>
    BY DEF DeleteTreasuries
  <1>6. StaffTypeOK'
    <2>1. \A p \in Request : request[p] \in {NoRequest} \cup StaffRequest
      BY DEF RolesInv, StaffTypeOK
    <2>2. request' \in [Request -> {NoRequest} \cup StaffRequest]
      BY <1>2, <1>3, <1>4, <2>1
    <2>3. QED
      BY <1>5, <2>2 DEF RolesInv, StaffTypeOK
  <1>7. Treasuries' = Treasuries /\ AnAdminRemains'
        /\ (overlapped' \/ \A u, v \in Treasuries' : u = v)
    BY <1>5 DEF RolesInv, Treasuries, Holders, AnAdminRemains, IsPlatformAdmin
  <1>8. request'[q] = new
    BY <1>4
  <1>9. \A p \in Inserting : p # q /\ request'[p].step = "insert"
                             /\ request'[p].role = request[p].role /\ ~request'[p].alone
    BY <1>1, <1>3, <1>4 DEF Inserting
  <1>10. \A p \in Request \ Inserting : p # q => request'[p] = request[p]
    BY <1>4
  <1>11. Inserting' = Inserting \cup {q}
    BY <1>2, <1>8, <1>9, <1>10 DEF Inserting, At
  <1>12. ASSUME NEW p \in Request
         PROVE  /\ At(p, "insert")' => request'[p].role = "TREASURY"
                /\ At(p, "revoke")' /\ request'[p].role = "ADMIN"
                     => request'[p].actor \in User \ {request'[p].user}
    <2>1. CASE p = q
      BY <1>2, <1>8, <2>1 DEF At
    <2>2. CASE p \in Inserting
      BY <1>9, <2>2 DEF At, RolesInv, Inserting
    <2>3. CASE p # q /\ p \notin Inserting
      BY <1>10, <2>3 DEF At, RolesInv
    <2>4. QED
      BY <2>1, <2>2, <2>3
  <1>13. ASSUME NEW p \in Request, At(p, "insert")', request'[p].alone
         PROVE  Inserting' = {p} /\ Treasuries' \subseteq request'[p].seen
    <2>1. p \in Inserting' /\ p \notin Inserting
      BY <1>9, <1>13 DEF Inserting, At
    <2>2. p = q
      BY <1>11, <2>1
    <2>3. Inserting = {}
      BY <1>2, <1>8, <1>13, <2>2, Zenon
    <2>4. QED
      BY <1>2, <1>7, <1>8, <1>11, <2>2, <2>3
  <1>14. QED
    BY <1>5, <1>6, <1>7, <1>12, <1>13 DEF RolesInv

\* The upsert: alone, it leaves no other treasury.
LEMMA UpsertTreasuryKeepsRoles ==
  ASSUME RolesInv, NEW q \in Request, UpsertTreasury(q)
  PROVE  RolesInv'
  <1> DEFINE gone == request[q].seen
             user == request[q].user
  <1>0. Took(q, gone)
    BY GoneTakes DEF UpsertTreasury
  <1>1. /\ request[q] \in StaffRequest /\ q \in Inserting
        /\ request[q].role = "TREASURY" /\ user \in User /\ gone \subseteq User
        /\ request[q].role \in Role
    BY DEF RolesInv, StaffTypeOK, UpsertTreasury, At, NoRequest, Inserting, StaffRequest
  <1>2. /\ roles' = (roles \ (gone \X {"TREASURY"})) \cup {<<user, "TREASURY">>}
        /\ overlapped' = ~request[q].alone
        /\ UNCHANGED <<crossed, changes>>
    BY DEF UpsertTreasury
  <1>3. StaffTypeOK'
    <2>1. request' \in [Request -> {NoRequest} \cup StaffRequest]
      BY <1>0 DEF Took
    <2>2. roles' \subseteq User \X Role
      BY <1>1, <1>2 DEF RolesInv, StaffTypeOK
    <2>3. overlapped' \in BOOLEAN
      BY <1>2
    <2>4. QED
      BY <1>2, <2>1, <2>2, <2>3 DEF RolesInv, StaffTypeOK
  <1>4. AnAdminRemains'
    BY <1>2 DEF RolesInv, AnAdminRemains, IsPlatformAdmin
  <1>5. ASSUME request[q].alone
        PROVE  \A u, v \in Treasuries' : u = v
    <2>1. Treasuries \subseteq gone
      BY <1>1, <1>5 DEF RolesInv, Inserting
    <2>2. Treasuries' \subseteq {user}
      BY <1>2, <2>1 DEF Treasuries, Holders
    <2>3. QED
      BY <2>2
  <1>6. ASSUME NEW p \in Request
        PROVE  /\ At(p, "insert")' => request'[p].role = "TREASURY"
               /\ At(p, "revoke")' /\ request'[p].role = "ADMIN"
                    => request'[p].actor \in User \ {request'[p].user}
    <2>1. CASE p = q
      BY <2>1, <1>0 DEF Took, At, NoRequest
    <2>2. CASE p # q
      BY <2>2, <1>0 DEF Took, At, RolesInv
    <2>3. QED
      BY <2>1, <2>2
  <1>7. ASSUME NEW p \in Request, At(p, "insert")'
        PROVE  ~request'[p].alone
    <2>1. p # q
      BY <1>7, <1>0 DEF Took, At, NoRequest
    <2>2. p \in Inserting
      BY <1>7, <2>1, <1>0 DEF Took, At, Inserting
    <2>3. ~request[p].alone
      BY <1>1, <2>1, <2>2 DEF RolesInv, Inserting
    <2>4. QED
      BY <1>0, <2>1, <2>2, <2>3, Zenon DEF Took, Inserting, At
  <1>8. QED
    BY <1>2, <1>3, <1>4, <1>5, <1>6, <1>7 DEF RolesInv

\* Roles other than TREASURY.
LEMMA UpsertRoleKeepsRoles ==
  ASSUME RolesInv, NEW q \in Request, UpsertRole(q)
  PROVE  RolesInv'
  <1>1. request[q] \in StaffRequest
    BY DEF RolesInv, StaffTypeOK, UpsertRole, At, NoRequest
  <1>2. roles' \subseteq User \X Role
    BY <1>1 DEF RolesInv, StaffTypeOK, UpsertRole, StaffRequest
  <1>3. Treasuries' \subseteq Treasuries
    BY DEF Treasuries, Holders, UpsertRole
  <1>4. AnAdminRemains'
    BY DEF RolesInv, AnAdminRemains, IsPlatformAdmin, UpsertRole
  <1>5. QED
    BY <1>2, <1>3, <1>4, EndKeepsRoles DEF UpsertRole, RolesInv, StaffTypeOK

\* Who revokes an administrator is one himself, or no longer is.
LEMMA DeleteRoleKeepsRoles ==
  ASSUME RolesInv, NEW q \in Request, DeleteRole(q)
  PROVE  RolesInv'
  <1> DEFINE user  == request[q].user
             role  == request[q].role
             actor == request[q].actor
  <1>1. /\ roles' = roles \ {<<user, role>>}
        /\ crossed' = (crossed \/ (role = "ADMIN" /\ ~RequireAdmin(actor)))
        /\ request' = Gone({}, q) /\ UNCHANGED <<overlapped, changes>>
    BY DEF DeleteRole
  <1>2. role = "ADMIN" => actor \in User /\ actor # user
    BY DEF RolesInv, DeleteRole
  <1>3. crossed \/ \E u \in User : IsPlatformAdmin(u)
    BY DEF RolesInv, AnAdminRemains
  <1>4. AnAdminRemains'
    <2>1. CASE role # "ADMIN"
      BY <1>1, <1>3, <2>1 DEF AnAdminRemains, IsPlatformAdmin
    <2>2. CASE role = "ADMIN" /\ ~RequireAdmin(actor)
      BY <1>1, <2>2, Zenon DEF AnAdminRemains
    <2>3. CASE role = "ADMIN" /\ RequireAdmin(actor)
      BY <1>1, <1>2, <2>3 DEF AnAdminRemains, IsPlatformAdmin, RequireAdmin
    <2>4. QED
      BY <2>1, <2>2, <2>3
  <1>5. crossed' \in BOOLEAN
    BY <1>1
  <1>6. roles' \subseteq User \X Role /\ Treasuries' \subseteq Treasuries
    BY <1>1 DEF RolesInv, StaffTypeOK, Treasuries, Holders
  <1>7. QED
    BY <1>1, <1>4, <1>5, <1>6, EndKeepsRoles

\* A transaction that is rolled back writes nothing.
LEMMA FailureKeepsRoles ==
  ASSUME RolesInv, NEW q \in Request, StaffRequestFails(q)
  PROVE  RolesInv'
  <1>1. request' = Gone({}, q) /\ UNCHANGED <<roles, overlapped, crossed, changes>>
    BY DEF StaffRequestFails
  <1>2. Treasuries' = Treasuries /\ AnAdminRemains'
    BY <1>1 DEF RolesInv, Treasuries, Holders, AnAdminRemains, IsPlatformAdmin
  <1>3. roles' \subseteq User \X Role /\ crossed' \in BOOLEAN
    BY <1>1 DEF RolesInv, StaffTypeOK
  <1>4. QED
    BY <1>1, <1>2, <1>3, EndKeepsRoles

\* The roles page keeps the roles.
LEMMA StaffKeepsRoles ==
  ASSUME RolesInv, StaffRequests \/ \E q \in Request : StaffStep(q)
  PROVE  RolesInv'
  <1>1. ASSUME NEW q \in Request, NEW actor \in User, NEW user \in User, NEW role \in Role,
               AssignStaffRole(q, actor, user, role) \/ RevokeStaffRole(q, actor, user, role)
        PROVE  RolesInv'
    BY <1>1, LetInKeepsRoles DEF AssignStaffRole, RevokeStaffRole
  <1>2. ASSUME NEW q \in Request, StaffStep(q)
        PROVE  RolesInv'
    BY <1>2, DeleteKeepsRoles, UpsertTreasuryKeepsRoles, UpsertRoleKeepsRoles,
       DeleteRoleKeepsRoles, FailureKeepsRoles DEF StaffStep
  <1>3. QED
    BY <1>1, <1>2 DEF StaffRequests

-----------------------------------------------------------------------------
(* Rows that are there differ from rows that are not. *)

\* A pool is not yet there, there, or deleted.
LEMMA PoolKinds == NoPool \notin PoolRow /\ Deleted \notin PoolRow /\ NoPool # Deleted
  <1>1. \A row \in PoolRow : DOMAIN row = {"asset", "terms", "isActive"}
    BY StakingAssumption
  <1>2. DOMAIN NoPool = {"isActive"} /\ DOMAIN Deleted = {"isActive", "deleted"}
    BY DEF NoPool, Deleted
  <1>3. "asset" \notin DOMAIN NoPool /\ "asset" \notin DOMAIN Deleted
        /\ "deleted" \notin DOMAIN NoPool /\ "deleted" \in DOMAIN Deleted
    BY <1>2
  <1>4. QED
    BY <1>1, <1>3

\* A stake, a call and a round that are there are rows of their kinds.
LEMMA RowKinds ==
  ASSUME TypeOK
  PROVE  /\ \A s \in Stake : Exists(s) <=> stake[s] \in UserStake
         /\ \A s \in Stake : Active(s) => Exists(s)
         /\ \A c \in Caller : call[c] # Idle <=> call[c] \in OpenCall
         /\ \A k \in Settler : settler[k] # Idle <=> settler[k] \in OpenRound
         /\ \A k \in Settler : settler[k].step \in {"next", "commit"} => settler[k] # Idle
  <1>1. \A s \in Stake : stake[s] \in {Absent} \cup UserStake
    BY DEF TypeOK
  <1>2. Absent \notin UserStake /\ Absent.status = "NONE"
    BY DEF Absent, UserStake
  <1>3. \A c \in Caller : call[c] \in {Idle} \cup OpenCall
    BY DEF TypeOK
  <1>4. \A k \in Settler : settler[k] \in {Idle} \cup OpenRound
    BY DEF TypeOK
  <1>5. Idle \notin OpenCall /\ Idle \notin OpenRound /\ Idle.step = "idle"
    BY DEF Idle, OpenCall, OpenRound
  <1>6. QED
    BY <1>1, <1>2, <1>3, <1>4, <1>5 DEF Exists, Active

\* There are finitely many stakes, and they are numbered.
LEMMA StakesFinite ==
  /\ IsFiniteSet(Stake) /\ Stake \subseteq Nat
  /\ \A n \in Stake : 1..n \subseteq Stake
  <1>1. Cardinality(Stake) \in Nat
    BY StakingAssumption, FS_CardinalityType
  <1> DEFINE n == Cardinality(Stake)
  <1>2. Stake = 1..n /\ IsFiniteSet(Stake)
    BY StakingAssumption
  <1> HIDE DEF n
  <1>3. n \in Nat
    BY <1>1 DEF n
  <1>4. QED
    BY <1>2, <1>3

-----------------------------------------------------------------------------
(* Wallets. *)

WalletsTypeOK ==
    /\ balance \in [User -> [Asset -> Nat]]
    /\ entries \in [User -> [Asset -> Int]]
    /\ exposed \in [User -> [Asset -> Nat]]
    /\ seen \in [Txn -> [User -> [Asset -> Nat \cup {Unread}]]]

\* Wallets that nobody touches keep their types.
LEMMA WalletsStay ==
  ASSUME TypeOK, UNCHANGED wallets
  PROVE  WalletsTypeOK'
  BY DEF TypeOK, WalletsTypeOK, wallets

\* A transaction that ends forgets what it has read.
LEMMA ForgettingKeepsTypes ==
  ASSUME TypeOK, NEW t \in Txn, Forgets(t), UNCHANGED <<balance, entries, exposed>>
  PROVE  WalletsTypeOK'
  <1>1. Nothing \in [User -> [Asset -> Nat \cup {Unread}]]
    BY DEF Nothing
  <1>2. QED
    BY <1>1 DEF TypeOK, WalletsTypeOK, Forgets

\* What a transaction reads is what the wallet holds.
LEMMA ReadingKeepsTypes ==
  ASSUME TypeOK, NEW t \in Txn, NEW u \in User, NEW asset \in Asset, ReadsWallet(t, u, asset)
  PROVE  /\ WalletsTypeOK'
         /\ seen'[t][u][asset] = balance[u][asset]
         /\ \A o \in Txn, v \in User, d \in Asset :
              <<o, v, d>> # <<t, u, asset>> => seen'[o][v][d] = seen[o][v][d]
  <1>1. balance[u][asset] \in Nat /\ seen' = [seen EXCEPT ![t][u][asset] = balance[u][asset]]
    BY DEF TypeOK, ReadsWallet
  <1>2. seen \in [Txn -> [User -> [Asset -> Nat \cup {Unread}]]]
    BY DEF TypeOK
  <1>3. [seen[t][u] EXCEPT ![asset] = balance[u][asset]] \in [Asset -> Nat \cup {Unread}]
    BY <1>1, <1>2
  <1>4. /\ seen'[t][u] = [seen[t][u] EXCEPT ![asset] = balance[u][asset]]
        /\ \A v \in User : v # u => seen'[t][v] = seen[t][v]
        /\ \A o \in Txn : o # t => seen'[o] = seen[o]
    BY <1>1, <1>2
  <1>5. seen' \in [Txn -> [User -> [Asset -> Nat \cup {Unread}]]]
    BY <1>1, <1>2
  <1>6. WalletsTypeOK'
    BY <1>5 DEF TypeOK, WalletsTypeOK, ReadsWallet
  <1>7. QED
    BY <1>2, <1>4, <1>6

\* A commit sets the wallets that it gives something to what was read and that.
LEMMA CommitWallets ==
  ASSUME TypeOK, NEW t \in Txn, NEW asset \in Asset, NEW gets \in [User -> Int],
         Commits(t, asset, gets), NEW v \in User
  PROVE  /\ \A d \in Asset : d # asset => /\ balance'[v][d] = balance[v][d]
                                           /\ entries'[v][d] = entries[v][d]
                                           /\ exposed'[v][d] = exposed[v][d]
         /\ entries'[v][asset] = entries[v][asset] + gets[v]
         /\ gets[v] = 0 => balance'[v][asset] = balance[v][asset]
         /\ gets[v] # 0 => /\ Saw(t, v, asset)
                           /\ balance'[v][asset] = seen[t][v][asset] + gets[v]
         /\ exposed'[v][asset] =
              IF \E o \in Txn \ {t} : Saw(o, v, asset)
              THEN exposed[v][asset] + Size(gets[v]) ELSE exposed[v][asset]
  <1>1. /\ balance[v] \in [Asset -> Nat] /\ entries[v] \in [Asset -> Int]
        /\ exposed[v] \in [Asset -> Nat]
    BY DEF TypeOK
  <1> DEFINE set   == IF gets[v] = 0 THEN balance[v][asset] ELSE seen[t][v][asset] + gets[v]
             shown == IF \E o \in Txn \ {t} : Saw(o, v, asset)
                      THEN exposed[v][asset] + Size(gets[v]) ELSE exposed[v][asset]
  <1>2. /\ balance'[v] = [balance[v] EXCEPT ![asset] = set]
        /\ entries'[v] = [entries[v] EXCEPT ![asset] = @ + gets[v]]
        /\ exposed'[v] = [exposed[v] EXCEPT ![asset] = shown]
        /\ gets[v] # 0 <=> Saw(t, v, asset)
    BY DEF Commits
  <1> HIDE DEF set, shown
  <1>3. /\ balance'[v][asset] = set /\ exposed'[v][asset] = shown
        /\ entries'[v][asset] = entries[v][asset] + gets[v]
        /\ \A d \in Asset : d # asset => /\ balance'[v][d] = balance[v][d]
                                          /\ entries'[v][d] = entries[v][d]
                                          /\ exposed'[v][d] = exposed[v][d]
    BY <1>1, <1>2
  <1>4. QED
    BY <1>2, <1>3 DEF set, shown

\* A commit that overdraws nobody keeps the types.
LEMMA CommittingKeepsTypes ==
  ASSUME TypeOK, NEW t \in Txn, NEW asset \in Asset, NEW gets \in [User -> Int],
         Commits(t, asset, gets), Forgets(t),
         \A v \in User : gets[v] # 0 => seen[t][v][asset] + gets[v] \in Nat
  PROVE  WalletsTypeOK'
  <1>1. \A v \in User : [balance[v] EXCEPT ![asset] =
          IF gets[v] = 0 THEN @ ELSE seen[t][v][asset] + gets[v]] \in [Asset -> Nat]
    BY DEF TypeOK
  <1>2. balance' \in [User -> [Asset -> Nat]]
    BY <1>1 DEF Commits
  <1>3. \A v \in User : [entries[v] EXCEPT ![asset] = @ + gets[v]] \in [Asset -> Int]
    BY DEF TypeOK
  <1>4. entries' \in [User -> [Asset -> Int]]
    BY <1>3 DEF Commits
  <1>5. \A v \in User : Size(gets[v]) \in Nat
    BY DEF Size
  <1>6. \A v \in User : [exposed[v] EXCEPT ![asset] =
          IF \E o \in Txn \ {t} : Saw(o, v, asset) THEN @ + Size(gets[v]) ELSE @]
            \in [Asset -> Nat]
    BY <1>5 DEF TypeOK
  <1>7. exposed' \in [User -> [Asset -> Nat]]
    BY <1>6 DEF Commits
  <1>8. Nothing \in [User -> [Asset -> Nat \cup {Unread}]]
    BY DEF Nothing
  <1>9. seen' \in [Txn -> [User -> [Asset -> Nat \cup {Unread}]]]
    BY <1>8 DEF TypeOK, Forgets
  <1>10. QED
    BY <1>2, <1>4, <1>7, <1>9 DEF WalletsTypeOK

-----------------------------------------------------------------------------
(* The rows fit together: each step keeps Stand. *)

\* At first there is nothing but the roles.
LEMMA StandInit == Init => Stand
  <1> SUFFICES ASSUME Init PROVE Stand
    OBVIOUS
  <1>1. RolesInv
    BY RolesInit DEF Init
  <1>2. \A s \in Stake : ~Exists(s) /\ paid[s] = <<>> /\ fees[s] = <<>>
    BY DEF Init, Exists
  <1>3. TypeOK
    <2>1. StaffTypeOK
      BY <1>1 DEF RolesInv
    <2>2. WalletsTypeOK
      BY StakingAssumption DEF Init, WalletsTypeOK, Nothing
    <2>3. now \in 0..MaxClock
      BY StakingAssumption DEF Init
    <2>4. raced \in [Stake -> BOOLEAN]
      BY Zenon DEF Init
    <2>5. /\ paid \in [Stake -> Seq(Asset)] /\ fees \in [Stake -> Seq(User)]
          /\ pool \in [Pool -> {NoPool, Deleted} \cup PoolRow]
          /\ stake \in [Stake -> {Absent} \cup UserStake]
          /\ call \in [Caller -> {Idle} \cup OpenCall]
          /\ settler \in [Settler -> {Idle} \cup OpenRound]
          /\ deleting \subseteq Pool /\ switched \subseteq Pool
      BY DEF Init
    <2>6. QED
      BY <2>1, <2>2, <2>3, <2>4, <2>5 DEF TypeOK, WalletsTypeOK
  <1>4. StakesStand
    <2>1. Existing = {}
      BY <1>2 DEF Existing
    <2>2. QED
      BY <1>2, <2>1, FS_EmptySet DEF StakesStand
  <1>5. CallsStand /\ RoundsStand
    BY DEF Init, CallsStand, RoundsStand
  <1>6. PaidInKind
    BY <1>2 DEF PaidInKind
  <1>7. QED
    BY <1>1, <1>3, <1>4, <1>5, <1>6 DEF Stand

\* Steps that write no stake, and leave the pools as they are.
LEMMA StandStays ==
  ASSUME Stand, RolesInv', TypeOK', UNCHANGED <<pool, stake, paid, fees, switched>>,
         CallsStand', RoundsStand'
  PROVE  Stand'
  BY DEF Stand, StakesStand, Existing, Exists, SameAsset, PaidInKind

\* Steps of the roles page.
LEMMA StaffKeepsStand ==
  ASSUME Stand, RolesInv', UNCHANGED stakingVars
  PROVE  Stand'
  <1>1. UNCHANGED <<pool, stake, wallets, paid, fees, deleting, call, settler, raced,
                    switched, now>>
    BY DEF stakingVars, rows
  <1>2. TypeOK'
    BY <1>1 DEF Stand, TypeOK, RolesInv, wallets
  <1>3. CallsStand' /\ RoundsStand'
    BY <1>1 DEF Stand, CallsStand, RoundsStand, Existing, Exists, SameAsset
  <1>4. QED
    BY <1>1, <1>2, <1>3, StandStays

\* An administrator makes, changes or deletes a pool.
LEMMA PoolChangeKeepsStand ==
  ASSUME Stand, RolesInv', NEW p \in Pool, NEW new \in {Deleted} \cup PoolRow,
         pool' = [pool EXCEPT ![p] = new], deleting' \subseteq Pool,
         new \in PoolRow \/ StakesIn(p) = {},
         switched' = switched \/ switched' = switched \cup {p},
         new \in PoolRow /\ p \notin switched'
           => pool[p] = NoPool \/ (pool[p] \in PoolRow /\ new.asset = pool[p].asset),
         UNCHANGED <<stake, wallets, paid, fees, call, settler, raced, now>>
  PROVE  Stand'
  <1>1. TypeOK
    BY DEF Stand
  <1>2. /\ pool'[p] = new
        /\ \A o \in Pool \ {p} : pool'[o] = pool[o] /\ (o \in switched' <=> o \in switched)
    BY <1>1 DEF TypeOK
  <1>3. TypeOK'
    <2>1. pool' \in [Pool -> {NoPool, Deleted} \cup PoolRow]
      BY <1>1 DEF TypeOK
    <2>2. StaffTypeOK'
      BY DEF RolesInv
    <2>3. switched' \subseteq Pool
      BY <1>1 DEF TypeOK
    <2>4. QED
      BY <1>1, <2>1, <2>2, <2>3 DEF TypeOK, wallets
  <1>4. \A s \in Stake : Exists(s) => stake[s].pool \in Pool
    BY <1>1, RowKinds DEF UserStake
  <1>5. \A c \in Caller : call[c] # Idle => call[c].pool \in Pool
    BY <1>1, RowKinds DEF OpenCall
  <1>6. Existing' = Existing /\ \A s \in Stake : Exists(s)' <=> Exists(s)
    BY DEF Existing, Exists
  <1>7. ASSUME NEW s \in Stake, Exists(s)
        PROVE  /\ pool'[stake[s].pool] \in PoolRow
               /\ pool'[stake[s].pool].asset = stake[s].asset \/ stake[s].pool \in switched'
    <2>1. pool[stake[s].pool] \in PoolRow /\ SameAsset(stake[s].asset, stake[s].pool)
      BY <1>7 DEF Stand, StakesStand
    <2>2. CASE stake[s].pool # p
      BY <1>2, <1>4, <1>7, <2>1, <2>2 DEF SameAsset
    <2>3. CASE stake[s].pool = p
      <3>1. s \in StakesIn(p)
        BY <1>7, <2>3 DEF StakesIn
      <3>2. new \in PoolRow /\ pool[p] # NoPool
        BY <2>1, <2>3, <3>1, PoolKinds
      <3>3. QED
        BY <1>2, <2>1, <2>3, <3>2 DEF SameAsset
    <2>4. QED
      BY <2>2, <2>3
  <1>8. StakesStand'
    BY <1>6, <1>7 DEF Stand, StakesStand, SameAsset
  <1>9. ASSUME NEW c \in Caller, call[c] # Idle
        PROVE  /\ pool'[call[c].pool] # NoPool
               /\ pool'[call[c].pool] \in PoolRow =>
                    pool'[call[c].pool].asset = call[c].asset \/ call[c].pool \in switched'
    <2>1. /\ pool[call[c].pool] # NoPool
          /\ pool[call[c].pool] \in PoolRow => SameAsset(call[c].asset, call[c].pool)
      BY <1>9 DEF Stand, CallsStand
    <2>2. CASE call[c].pool # p
      BY <1>2, <1>5, <1>9, <2>1, <2>2 DEF SameAsset
    <2>3. CASE call[c].pool = p
      <3>1. new # NoPool
        BY PoolKinds
      <3>2. QED
        BY <1>2, <2>1, <2>3, <3>1 DEF SameAsset
    <2>4. QED
      BY <2>2, <2>3
  <1>10. CallsStand'
    BY <1>9 DEF CallsStand, SameAsset
  <1>11. switched \subseteq switched'
    OBVIOUS
  <1>12. RoundsStand' /\ PaidInKind'
    BY <1>6, <1>11 DEF Stand, RoundsStand, PaidInKind
  <1>13. QED
    BY <1>3, <1>8, <1>10, <1>12 DEF Stand

\* What an administrator asks for leaves the roles alone.
LEMMA AdminKeepsRoles ==
  ASSUME Stand, AnAdminAsks, CountsAsChange \/ UNCHANGED changes
  PROVE  RolesInv'
  <1>1. changes' \in 0..MaxChanges
    BY StaffAssumption DEF Stand, RolesInv, StaffTypeOK, CountsAsChange
  <1>2. QED
    BY <1>1, RolesStay DEF Stand, AnAdminAsks

\* A pool is created.
LEMMA CreatePoolKeepsStand ==
  ASSUME Stand, NEW p \in Pool, NEW row \in PoolRow, CreateStakingPool(p, row)
  PROVE  Stand'
  <1>1. RolesInv'
    BY AdminKeepsRoles DEF CreateStakingPool
  <1>2. QED
    BY <1>1, PoolChangeKeepsStand DEF CreateStakingPool, AnAdminAsks, Stand, TypeOK

\* Another asset is remembered.
LEMMA UpdatePoolKeepsStand ==
  ASSUME Stand, NEW p \in Pool, NEW row \in PoolRow, UpdateStakingPool(p, row)
  PROVE  Stand'
  <1>1. RolesInv'
    BY AdminKeepsRoles DEF UpdateStakingPool
  <1>2. /\ pool[p] \in PoolRow /\ pool' = [pool EXCEPT ![p] = row]
        /\ switched' = IF row.asset = pool[p].asset THEN switched ELSE switched \cup {p}
        /\ UNCHANGED <<deleting, stake, wallets, paid, fees, call, settler, raced, now>>
    BY DEF UpdateStakingPool, AnAdminAsks
  <1>3. deleting' \subseteq Pool
    BY <1>2 DEF Stand, TypeOK
  <1>4. QED
    BY <1>1, <1>2, <1>3, PoolChangeKeepsStand

\* The stakes of a pool are counted.
LEMMA CountStakesKeepsStand ==
  ASSUME Stand, NEW p \in Pool, CountStakes(p)
  PROVE  Stand'
  <1>1. RolesInv'
    BY AdminKeepsRoles DEF CountStakes
  <1>2. /\ deleting' = deleting \cup {p}
        /\ UNCHANGED <<pool, switched, stake, wallets, paid, fees, call, settler, raced, now>>
    BY DEF CountStakes, AnAdminAsks
  <1>3. TypeOK'
    BY <1>1, <1>2 DEF Stand, TypeOK, RolesInv, wallets
  <1>4. CallsStand' /\ RoundsStand'
    BY <1>2 DEF Stand, CallsStand, RoundsStand, Existing, Exists, SameAsset
  <1>5. QED
    BY <1>1, <1>2, <1>3, <1>4, StandStays

\* A stake that came in between keeps its pool.
LEMMA DeletePoolKeepsStand ==
  ASSUME Stand, NEW p \in Pool, DeletePool(p)
  PROVE  Stand'
  <1> DEFINE new == IF StakesIn(p) = {} THEN Deleted ELSE pool[p]
  <1>1. /\ pool' = [pool EXCEPT ![p] = new]
        /\ deleting' = deleting \ {p}
        /\ UNCHANGED <<roles, request, overlapped, crossed, changes, switched, stake,
                       wallets, paid, fees, call, settler, raced, now>>
    BY DEF DeletePool, staffVars
  <1>2. RolesInv'
    BY <1>1, RolesStay DEF Stand, RolesInv, StaffTypeOK
  <1>3. StakesIn(p) # {} => pool[p] \in PoolRow
    BY DEF Stand, StakesStand, StakesIn
  <1>4. deleting' \subseteq Pool
    BY <1>1 DEF Stand, TypeOK
  <1>5. /\ new \in {Deleted} \cup PoolRow
        /\ new \in PoolRow \/ StakesIn(p) = {}
        /\ new \in PoolRow => pool[p] \in PoolRow /\ new.asset = pool[p].asset
    BY <1>3, PoolKinds
  <1> HIDE DEF new
  <1>6. QED
    BY <1>1, <1>2, <1>4, <1>5, PoolChangeKeepsStand

\* What a call reads of the pool is what the pool takes.
LEMMA CallReadKeepsStand ==
  ASSUME Stand, NEW c \in Caller, NEW u \in Staker, NEW p \in Pool, NEW amount \in Amount,
         CreateStakeRead(c, u, p, amount)
  PROVE  Stand'
  <1> DEFINE new == [step |-> "commit", user |-> u, pool |-> p, asset |-> pool[p].asset,
                     terms |-> pool[p].terms, amount |-> amount,
                     maturesAt |-> now + pool[p].terms.lock, raced |-> SameCalls(u, p) # {}]
  <1>1. TypeOK
    BY DEF Stand
  <1>2. UNCHANGED <<roles, request, overlapped, crossed, changes, pool, stake, wallets, paid,
                    fees, deleting, settler, raced, switched, now>>
    BY DEF CreateStakeRead, staffVars, rows
  <1>3. RolesInv'
    BY <1>2, RolesStay DEF Stand, RolesInv, StaffTypeOK
  <1>4. pool[p] \in PoolRow /\ pool[p].asset \in Asset /\ pool[p].terms \in Terms
    <2>1. pool[p].isActive /\ pool[p] \in {NoPool, Deleted} \cup PoolRow
      BY <1>1 DEF CreateStakeRead, TypeOK
    <2>2. ~NoPool.isActive /\ ~Deleted.isActive
      BY DEF NoPool, Deleted
    <2>3. pool[p] \in PoolRow
      BY <2>1, <2>2
    <2>4. QED
      BY <2>3, StakingAssumption
  <1>5. now + pool[p].terms.lock \in Nat
    <2>1. now \in Nat
      BY <1>1, StakingAssumption DEF TypeOK
    <2>2. pool[p].terms.lock \in Nat
      BY <1>4, StakingAssumption
    <2>3. QED
      BY <2>1, <2>2
  <1>6. new \in OpenCall /\ new.pool = p /\ new.asset = pool[p].asset
    BY <1>4, <1>5, StakingAssumption DEF OpenCall
  <1> HIDE DEF new
  <1>7. call' = [d \in Caller |->
                  IF d = c THEN new
                  ELSE IF d \in SameCalls(u, p) THEN [call[d] EXCEPT !.raced = TRUE]
                  ELSE call[d]]
    BY DEF CreateStakeRead, new
  <1>8. \A d \in SameCalls(u, p) :
          /\ [call[d] EXCEPT !.raced = TRUE] \in OpenCall
          /\ [call[d] EXCEPT !.raced = TRUE].pool = call[d].pool
          /\ [call[d] EXCEPT !.raced = TRUE].asset = call[d].asset
    <2>1. \A d \in SameCalls(u, p) : call[d] \in OpenCall
      BY <1>1, RowKinds DEF SameCalls
    <2>2. QED
      BY <2>1 DEF OpenCall
  <1>9. TypeOK'
    <2>1. call' \in [Caller -> {Idle} \cup OpenCall]
      BY <1>1, <1>6, <1>7, <1>8 DEF TypeOK
    <2>2. QED
      BY <1>1, <1>2, <1>3, <2>1 DEF TypeOK, RolesInv, wallets
  <1>10. ASSUME NEW d \in Caller, call'[d] # Idle
         PROVE  /\ pool[call'[d].pool] # NoPool
                /\ pool[call'[d].pool] \in PoolRow => SameAsset(call'[d].asset, call'[d].pool)
    <2>1. CASE d = c
      BY <1>4, <1>6, <1>7, <2>1, PoolKinds DEF SameAsset
    <2>2. CASE d # c
      <3>1. call[d] # Idle /\ call'[d].pool = call[d].pool /\ call'[d].asset = call[d].asset
        BY <1>7, <1>8, <1>10, <2>2 DEF SameCalls
      <3>2. QED
        BY <3>1 DEF Stand, CallsStand
    <2>3. QED
      BY <2>1, <2>2
  <1>11. CallsStand'
    BY <1>2, <1>10 DEF CallsStand, SameAsset
  <1>12. RoundsStand'
    BY <1>2 DEF Stand, RoundsStand, Existing, Exists
  <1>13. QED
    BY <1>2, <1>3, <1>9, <1>11, <1>12, StandStays

\* A request of a stake fails: nothing is written.
LEMMA CallFailsKeepsStand ==
  ASSUME Stand, NEW c \in Caller, CreateStakeFails(c)
  PROVE  Stand'
  <1>1. /\ call' = [call EXCEPT ![c] = Idle] /\ Forgets(<<"call", c>>)
        /\ UNCHANGED <<roles, request, overlapped, crossed, changes, pool, stake, balance,
                       entries, exposed, paid, fees, deleting, settler, raced, switched, now>>
    BY DEF CreateStakeFails, EndsCall, staffVars
  <1>2. RolesInv'
    BY <1>1, RolesStay DEF Stand, RolesInv, StaffTypeOK
  <1>3. TypeOK'
    <2>1. WalletsTypeOK'
      BY <1>1, ForgettingKeepsTypes DEF Stand, Txn
    <2>2. call' \in [Caller -> {Idle} \cup OpenCall]
      BY <1>1 DEF Stand, TypeOK
    <2>3. QED
      BY <1>1, <1>2, <2>1, <2>2 DEF Stand, TypeOK, RolesInv, WalletsTypeOK
  <1>4. CallsStand'
    BY <1>1 DEF Stand, TypeOK, CallsStand, SameAsset
  <1>5. RoundsStand'
    BY <1>1 DEF Stand, RoundsStand, Existing, Exists
  <1>6. QED
    BY <1>1, <1>2, <1>3, <1>4, <1>5, StandStays

\* What a commit writes: a stake that was not there, the next in number.
NewStake(c, s) ==
    /\ call[c] \in OpenCall
    /\ ~Exists(s) /\ s \in Stake
    /\ Existing' = Existing \cup {s} /\ s = Cardinality(Existing) + 1
    /\ stake'[s] \in UserStake
    /\ stake'[s] = [status |-> "ACTIVE", user |-> call[c].user, pool |-> call[c].pool,
                    asset |-> call[c].asset, amount |-> call[c].amount,
                    terms |-> call[c].terms, startedAt |-> now,
                    maturesAt |-> call[c].maturesAt]
    /\ stake' = [stake EXCEPT ![s] = stake'[s]]
    /\ \A z \in Stake \ {s} : stake'[z] = stake[z] /\ (Exists(z)' <=> Exists(z))
    /\ Exists(s)'
    /\ paid[s] = <<>> /\ fees[s] = <<>>

\* What it does to the funds.
Debits(user, amount) == [v \in User |-> IF v = user THEN -amount ELSE 0]

\* A commit does write that.
LEMMA CommitWrites ==
  ASSUME Stand, NEW c \in Caller, NEW s \in Stake, CreateStakeCommit(c, s)
  PROVE  NewStake(c, s)
  <1> DEFINE new == [status |-> "ACTIVE", user |-> call[c].user, pool |-> call[c].pool,
                     asset |-> call[c].asset, amount |-> call[c].amount,
                     terms |-> call[c].terms, startedAt |-> now,
                     maturesAt |-> call[c].maturesAt]
             n == Cardinality(Existing)
  <1>1. TypeOK /\ StakesStand
    BY DEF Stand
  <1>2. call[c] \in OpenCall
    BY <1>1, RowKinds DEF CreateStakeCommit
  <1>3. stake' = [stake EXCEPT ![s] = new] /\ s = 1 + n
    BY DEF CreateStakeCommit, Existing
  <1>4. new \in UserStake
    <2>1. now \in Nat
      BY <1>1, StakingAssumption DEF TypeOK
    <2>2. QED
      BY <1>2, <2>1 DEF OpenCall, UserStake
  <1>5. stake'[s] = new /\ \A z \in Stake \ {s} : stake'[z] = stake[z]
    BY <1>1, <1>3 DEF TypeOK
  <1>6. n \in Nat /\ Existing = 1..n
    <2>1. IsFiniteSet(Existing)
      BY StakesFinite, FS_Subset DEF Existing
    <2>2. QED
      BY <1>1, <2>1, FS_CardinalityType DEF StakesStand
  <1> HIDE DEF n
  <1>7. ~Exists(s)
    BY <1>3, <1>6 DEF Existing
  <1>8. Exists(s)' /\ \A z \in Stake \ {s} : Exists(z)' <=> Exists(z)
    <2>1. new # Absent
      BY <1>4 DEF Absent, UserStake
    <2>2. QED
      BY <1>5, <2>1 DEF Exists
  <1>9. Existing' = Existing \cup {s}
    BY <1>8 DEF Existing
  <1>10. paid[s] = <<>> /\ fees[s] = <<>>
    BY <1>1, <1>7 DEF StakesStand
  <1>11. s = Cardinality(Existing) + 1
    BY <1>3, <1>6 DEF n
  <1>12. QED
    BY <1>2, <1>3, <1>4, <1>5, <1>7, <1>8, <1>9, <1>10, <1>11 DEF NewStake

\* Numbers that follow each other, and one more.
LEMMA OneMore ==
  ASSUME NEW S, S = 1..Cardinality(S), IsFiniteSet(S),
         NEW s, s = Cardinality(S) + 1
  PROVE  S \cup {s} = 1..Cardinality(S \cup {s})
  <1> DEFINE n == Cardinality(S)
  <1>1. n \in Nat /\ S = 1..n /\ s = n + 1
    BY FS_CardinalityType
  <1>2. s \notin S
    BY <1>1
  <1>3. Cardinality(S \cup {s}) = n + 1
    BY <1>2, FS_AddElement
  <1> HIDE DEF n
  <1>4. QED
    BY <1>1, <1>3

\* The debit and the stake.
LEMMA CallCommitKeepsStand ==
  ASSUME Stand, NEW c \in Caller, NEW s \in Stake, CreateStakeCommit(c, s)
  PROVE  Stand'
  <1> DEFINE user   == call[c].user
             asset  == call[c].asset
             amount == call[c].amount
  <1>1. TypeOK /\ StakesStand /\ CallsStand /\ RoundsStand /\ PaidInKind
    BY DEF Stand
  <1>2. NewStake(c, s)
    BY CommitWrites
  <1>3. /\ call[c] # Idle /\ pool[call[c].pool] \in PoolRow
        /\ seen[<<"call", c>>][user][asset] >= amount
        /\ Commits(<<"call", c>>, asset, Debits(user, amount))
        /\ call' = [call EXCEPT ![c] = Idle] /\ Forgets(<<"call", c>>)
        /\ UNCHANGED <<roles, request, overlapped, crossed, changes, pool, paid, fees,
                       deleting, settler, raced, switched, now>>
    BY DEF CreateStakeCommit, EndsCall, Debits, staffVars
  <1>4. RolesInv'
    BY <1>3, RolesStay DEF Stand, RolesInv, StaffTypeOK
  <1>5. user \in User /\ asset \in Asset /\ amount \in Nat
    BY <1>2, StakingAssumption DEF NewStake, OpenCall
  <1>6. TypeOK'
    <2>1. WalletsTypeOK'
      <3>1. <<"call", c>> \in Txn
        BY DEF Txn
      <3>2. seen[<<"call", c>>][user][asset] \in Nat \cup {Unread}
        BY <1>1, <1>5, <3>1 DEF TypeOK
      <3>3. seen[<<"call", c>>][user][asset] + (-amount) \in Nat
        BY <1>3, <1>5, <3>2 DEF Unread
      <3>4. /\ Debits(user, amount) \in [User -> Int]
            /\ \A v \in User : Debits(user, amount)[v] # 0 => v = user
            /\ Debits(user, amount)[user] = -amount
        BY <1>5 DEF Debits
      <3>5. QED
        BY <1>1, <1>3, <1>5, <3>1, <3>3, <3>4, CommittingKeepsTypes
    <2>2. stake' \in [Stake -> {Absent} \cup UserStake]
      BY <1>1, <1>2 DEF NewStake, TypeOK
    <2>3. call' \in [Caller -> {Idle} \cup OpenCall]
      BY <1>1, <1>3 DEF TypeOK
    <2>4. QED
      BY <1>1, <1>3, <1>4, <2>1, <2>2, <2>3 DEF TypeOK, RolesInv, WalletsTypeOK
  <1>7. StakesStand'
    <2>1. Existing' = 1..Cardinality(Existing')
      <3>1. IsFiniteSet(Existing)
        BY StakesFinite, FS_Subset DEF Existing
      <3>2. Existing = 1..Cardinality(Existing)
        BY <1>1 DEF StakesStand
      <3>3. s = Cardinality(Existing) + 1 /\ Existing' = Existing \cup {s}
        BY <1>2 DEF NewStake
      <3>4. QED
        BY <3>1, <3>2, <3>3, OneMore
    <2>2. ASSUME NEW z \in Stake
          PROVE  /\ Exists(z)' => /\ pool'[stake'[z].pool] \in PoolRow
                                  /\ SameAsset(stake[z].asset, stake[z].pool)'
                 /\ ~Exists(z)' => paid'[z] = <<>> /\ fees'[z] = <<>>
      <3>1. CASE z = s
        BY <1>1, <1>2, <1>3, <3>1 DEF NewStake, CallsStand, SameAsset
      <3>2. CASE z # s
        BY <1>1, <1>2, <1>3, <3>2 DEF NewStake, StakesStand, SameAsset
      <3>3. QED
        BY <3>1, <3>2
    <2>3. QED
      BY <2>1, <2>2 DEF StakesStand
  <1>8. CallsStand'
    BY <1>1, <1>3 DEF TypeOK, CallsStand, SameAsset
  <1>9. RoundsStand'
    <2>1. \A z \in Existing : z \in Existing' /\ stake'[z] = stake[z]
      BY <1>2 DEF NewStake, Existing
    <2>2. QED
      BY <1>1, <1>3, <2>1 DEF RoundsStand
  <1>10. PaidInKind'
    BY <1>1, <1>2, <1>3 DEF NewStake, PaidInKind
  <1>11. QED
    BY <1>4, <1>6, <1>7, <1>8, <1>9, <1>10 DEF Stand

\* A round that goes on has what is left to settle, or it ends.
LEMMA RoundKinds ==
  ASSUME NEW due \in SUBSET Existing
  PROVE  /\ Round(due) \in {Idle} \cup OpenRound
         /\ Round(due).step \in {"idle", "next"}
         /\ Round(due) # Idle => Round(due).due = due
  <1> DEFINE new == [step |-> "next", due |-> due, id |-> None, asset |-> None,
                     treasury |-> None]
  <1>1. new \in OpenRound /\ new.step = "next" /\ new.due = due
    BY DEF OpenRound, Existing
  <1>2. Round(due) = IF due = {} THEN Idle ELSE new
    BY DEF Round
  <1> HIDE DEF new
  <1>3. QED
    BY <1>1, <1>2 DEF Idle

\* A round lists, goes on or ends.
LEMMA RoundKeepsStand ==
  ASSUME Stand, NEW k \in Settler, NEW due \in SUBSET Existing,
         settler' = [settler EXCEPT ![k] = Round(due)], WalletsTypeOK',
         UNCHANGED <<staffVars, pool, stake, paid, fees, deleting, call, raced, switched, now>>
  PROVE  Stand'
  <1>1. UNCHANGED <<roles, request, overlapped, crossed, changes, pool, stake, paid,
                    fees, deleting, call, raced, switched, now>>
    BY DEF staffVars
  <1>2. RolesInv'
    BY <1>1, RolesStay DEF Stand, RolesInv, StaffTypeOK
  <1>3. TypeOK'
    BY <1>1, <1>2, RoundKinds DEF Stand, TypeOK, RolesInv, WalletsTypeOK
  <1>4. CallsStand'
    BY <1>1 DEF Stand, CallsStand, SameAsset
  <1>5. Existing' = Existing
    BY <1>1 DEF Existing, Exists
  <1>6. ASSUME NEW j \in Settler, settler'[j] # Idle
        PROVE  /\ settler'[j].due \subseteq Existing
               /\ settler'[j].step = "commit" =>
                    /\ settler'[j].id \in Existing
                    /\ settler'[j].asset \in Asset
                    /\ \/ settler'[j].asset = stake[settler'[j].id].asset
                       \/ stake[settler'[j].id].pool \in switched
    <2>1. CASE j = k
      <3>1. settler'[j] = Round(due)
        BY <2>1 DEF Stand, TypeOK
      <3>2. QED
        BY <1>6, <3>1, RoundKinds
    <2>2. CASE j # k
      <3>1. settler'[j] = settler[j]
        BY <2>2 DEF Stand, TypeOK
      <3>2. QED
        BY <1>6, <3>1 DEF Stand, RoundsStand
    <2>3. QED
      BY <2>1, <2>2
  <1>7. RoundsStand'
    BY <1>1, <1>5, <1>6 DEF RoundsStand
  <1>8. QED
    BY <1>1, <1>2, <1>3, <1>4, <1>7, StandStays

\* A stake that is due is there.
LEMMA DueExists ==
  ASSUME TypeOK
  PROVE  Due \subseteq Existing
  BY RowKinds DEF Due, Existing

\* A round lists the stakes that are due.
LEMMA ListKeepsStand ==
  ASSUME Stand, NEW k \in Settler, ListDueStakes(k)
  PROVE  Stand'
  <1>1. PICK S \in kSubset(Min({BatchSize, Cardinality(Due)}), Due) :
          settler' = [settler EXCEPT ![k] = Round(S)]
    BY DEF ListDueStakes
  <1>2. S \in SUBSET Existing
    BY <1>1, DueExists DEF kSubset, Stand
  <1>3. QED
    BY <1>1, <1>2, RoundKeepsStand, WalletsStay DEF ListDueStakes, rows, Stand

\* A stake of the list is passed over.
LEMMA SkipKeepsStand ==
  ASSUME Stand, NEW k \in Settler, NEW s \in Stake, SettleSkips(k, s)
  PROVE  Stand'
  <1>1. settler[k] # Idle
    BY DEF SettleSkips, Idle
  <1>2. settler[k].due \ {s} \in SUBSET Existing
    BY <1>1 DEF Stand, RoundsStand
  <1>3. settler' = [settler EXCEPT ![k] = Round(settler[k].due \ {s})]
    BY DEF SettleSkips
  <1>4. QED
    BY <1>2, <1>3, RoundKeepsStand, WalletsStay DEF SettleSkips, rows, Stand

\* A round stops.
LEMMA RoundFailsKeepsStand ==
  ASSUME Stand, NEW k \in Settler, SettleFails(k)
  PROVE  Stand'
  <1>1. PICK due \in {settler[k].due, {}} : settler' = [settler EXCEPT ![k] = Round(due)]
    BY DEF SettleFails
  <1>2. due \in SUBSET Existing
    BY <1>1 DEF Stand, RoundsStand, SettleFails
  <1>3. WalletsTypeOK'
    BY ForgettingKeepsTypes DEF SettleFails, Txn, Stand
  <1>4. QED
    BY <1>1, <1>2, <1>3, RoundKeepsStand DEF SettleFails

\* What a settlement has read.
ReadStake(k, s, u) ==
    /\ settler[k] \in OpenRound /\ settler[k].step = "next" /\ s \in settler[k].due
    /\ Active(s) /\ s \in Existing
    /\ u \in User \cup {None}
    /\ settler'[k] \in OpenRound /\ settler'[k].step = "commit" /\ settler'[k].id = s
    /\ settler'[k].due = settler[k].due \ {s}
    /\ settler'[k].asset = PayoutAsset(s) /\ settler'[k].treasury = u
    /\ settler' = [settler EXCEPT ![k] = settler'[k]]
    /\ \A j \in Settler \ {k} : settler'[j] = settler[j]

\* A settlement does read that.
LEMMA SettleReads ==
  ASSUME Stand, NEW k \in Settler, NEW s \in Stake, SettleRead(k, s)
  PROVE  \E u : ReadStake(k, s, u)
  <1>1. PICK u \in FeeTarget :
          settler' = [settler EXCEPT ![k] =
            [settler[k] EXCEPT !.step = "commit", !.id = s, !.due = @ \ {s},
                               !.asset = PayoutAsset(s), !.treasury = u]]
    BY DEF SettleRead
  <1> DEFINE new == [settler[k] EXCEPT !.step = "commit", !.id = s, !.due = @ \ {s},
                                       !.asset = PayoutAsset(s), !.treasury = u]
  <1>2. TypeOK
    BY DEF Stand
  <1>3. settler[k].step = "next" /\ s \in settler[k].due /\ Active(s)
    BY DEF SettleRead, ToSettle
  <1>4. settler[k] \in OpenRound /\ Exists(s)
    BY <1>2, <1>3, RowKinds
  <1>5. u \in User \cup {None}
    BY StaffAssumption DEF FeeTarget, Treasuries, Holders
  <1>6. PayoutAsset(s) \in Asset
    <2>1. pool[stake[s].pool] \in PoolRow
      BY <1>4 DEF Stand, StakesStand
    <2>2. QED
      BY <2>1, StakingAssumption DEF PayoutAsset
  <1>7. new \in OpenRound /\ new.step = "commit" /\ new.id = s
        /\ new.due = settler[k].due \ {s} /\ new.asset = PayoutAsset(s) /\ new.treasury = u
    BY <1>4, <1>5, <1>6 DEF OpenRound
  <1>8. settler' = [settler EXCEPT ![k] = new]
    BY <1>1
  <1> HIDE DEF new
  <1>9. settler'[k] = new /\ \A j \in Settler \ {k} : settler'[j] = settler[j]
    BY <1>2, <1>8 DEF TypeOK
  <1>10. ReadStake(k, s, u)
    BY <1>3, <1>4, <1>5, <1>7, <1>8, <1>9 DEF ReadStake, Existing
  <1>11. QED
    BY <1>10

\* A round reads the stake that it is about to settle.
LEMMA SettleReadKeepsStand ==
  ASSUME Stand, NEW k \in Settler, NEW s \in Stake, SettleRead(k, s)
  PROVE  Stand'
  <1>1. PICK u : ReadStake(k, s, u)
    BY SettleReads
  <1>2. /\ raced' = [raced EXCEPT ![s] = @ \/ Settling(s) # {}]
        /\ UNCHANGED <<roles, request, overlapped, crossed, changes, pool, stake, wallets,
                       paid, fees, deleting, call, switched, now>>
    BY DEF SettleRead, staffVars, rows
  <1>3. RolesInv'
    BY <1>2, RolesStay DEF Stand, RolesInv, StaffTypeOK
  <1>4. TypeOK'
    <2>1. settler' \in [Settler -> {Idle} \cup OpenRound]
      BY <1>1 DEF ReadStake, Stand, TypeOK
    <2>2. raced' \in [Stake -> BOOLEAN]
      <3>1. raced \in [Stake -> BOOLEAN]
        BY DEF Stand, TypeOK
      <3>2. (raced[s] \/ Settling(s) # {}) \in BOOLEAN
        BY <3>1
      <3>3. QED
        BY <1>2, <3>1, <3>2
    <2>3. QED
      BY <1>2, <1>3, <2>1, <2>2 DEF Stand, TypeOK, RolesInv, wallets
  <1>5. CallsStand'
    BY <1>2 DEF Stand, CallsStand, SameAsset
  <1>6. Existing' = Existing
    BY <1>2 DEF Existing, Exists
  <1>7. PayoutAsset(s) = stake[s].asset \/ stake[s].pool \in switched
    BY <1>1 DEF ReadStake, Stand, StakesStand, SameAsset, PayoutAsset, Existing
  <1>8. PayoutAsset(s) \in Asset
    <2>1. pool[stake[s].pool] \in PoolRow
      BY <1>1 DEF ReadStake, Existing, Stand, StakesStand
    <2>2. QED
      BY <2>1, StakingAssumption DEF PayoutAsset
  <1>9. ASSUME NEW j \in Settler, settler'[j] # Idle
        PROVE  /\ settler'[j].due \subseteq Existing
               /\ settler'[j].step = "commit" =>
                    /\ settler'[j].id \in Existing
                    /\ settler'[j].asset \in Asset
                    /\ \/ settler'[j].asset = stake[settler'[j].id].asset
                       \/ stake[settler'[j].id].pool \in switched
    <2>1. CASE j = k
      <3>1. settler[k] # Idle
        BY <1>1, RowKinds DEF ReadStake, Stand
      <3>2. settler[k].due \subseteq Existing
        BY <3>1 DEF Stand, RoundsStand
      <3>3. QED
        BY <1>1, <1>7, <1>8, <2>1, <3>2 DEF ReadStake
    <2>2. CASE j # k
      <3>1. settler'[j] = settler[j]
        BY <1>1, <2>2 DEF ReadStake
      <3>2. QED
        BY <1>9, <3>1 DEF Stand, RoundsStand
    <2>3. QED
      BY <2>1, <2>2
  <1>10. RoundsStand'
    BY <1>2, <1>6, <1>9 DEF RoundsStand
  <1>11. QED
    BY <1>2, <1>3, <1>4, <1>5, <1>10, StandStays

\* What a settlement does to the funds.
Pays(s, u) == [v \in User |-> Gets(v, s, u)]

\* What its commit writes.
Settles(k, s, asset, u) ==
    /\ settler[k] \in OpenRound /\ settler[k].step = "commit" /\ settler[k].id = s
    /\ s \in Existing /\ stake[s] \in UserStake
    /\ asset \in Asset /\ u \in User \cup {None}
    /\ asset = stake[s].asset \/ stake[s].pool \in switched
    /\ NetOf(s) \in Nat /\ FeeOf(s) \in Nat
    /\ \A v \in User : Gets(v, s, u) \in Nat
    /\ Commits(<<"round", k>>, asset, Pays(s, u)) /\ Forgets(<<"round", k>>)
    /\ paid' = [paid EXCEPT ![s] = Append(@, asset)]
    /\ fees' = [fees EXCEPT ![s] = IF FeeIsCredited(s, u) THEN Append(@, u) ELSE @]
    /\ stake' = [stake EXCEPT ![s].status = "COMPLETED"]
    /\ stake'[s] = [stake[s] EXCEPT !.status = "COMPLETED"] /\ stake'[s] \in UserStake
    /\ stake'[s].status = "COMPLETED"
    /\ \A z \in Stake :
         /\ Exists(z)' <=> Exists(z)
         /\ z # s => stake'[z] = stake[z]
         /\ stake'[z].user = stake[z].user /\ stake'[z].pool = stake[z].pool
         /\ stake'[z].asset = stake[z].asset /\ stake'[z].amount = stake[z].amount
         /\ stake'[z].terms = stake[z].terms /\ stake'[z].startedAt = stake[z].startedAt
    /\ Existing' = Existing
    /\ settler' = [settler EXCEPT ![k] = Round(settler[k].due)]
    /\ settler[k].due \in SUBSET Existing
    /\ UNCHANGED <<roles, request, overlapped, crossed, changes, pool, deleting, call, raced,
                   switched, now>>

\* A commit does write that.
LEMMA SettleWrites ==
  ASSUME Stand, NEW k \in Settler, NEW s \in Stake, SettleCommit(k, s)
  PROVE  \E asset, u : Settles(k, s, asset, u)
  <1> DEFINE asset == settler[k].asset
             u     == settler[k].treasury
             new   == [stake[s] EXCEPT !.status = "COMPLETED"]
  <1>1. TypeOK /\ RoundsStand
    BY DEF Stand
  <1>2. settler[k].step = "commit" /\ settler[k].id = s
    BY DEF SettleCommit, Settling
  <1>3. settler[k] \in OpenRound /\ settler[k] # Idle
    BY <1>1, <1>2, RowKinds
  <1>4. /\ s \in Existing /\ asset \in Asset /\ settler[k].due \in SUBSET Existing
        /\ asset = stake[s].asset \/ stake[s].pool \in switched
    BY <1>1, <1>2, <1>3 DEF RoundsStand
  <1>5. stake[s] \in UserStake
    BY <1>1, <1>4, RowKinds DEF Existing
  <1>6. u \in User \cup {None}
    BY <1>3 DEF OpenRound
  <1>7. NetOf(s) \in Nat /\ FeeOf(s) \in Nat
    <2>1. stake[s].amount \in Amount /\ stake[s].terms \in Terms
      BY <1>5 DEF UserStake
    <2>2. QED
      BY <2>1, StakingAssumption DEF NetOf, FeeOf, LockTerms
  <1>8. \A v \in User : Gets(v, s, u) \in Nat
    <2>1. stake[s].amount \in Nat
      BY <1>5, StakingAssumption DEF UserStake
    <2> HIDE DEF u
    <2>2. QED
      BY <1>7, <2>1 DEF Gets
  <1>9. /\ new \in UserStake /\ new.status = "COMPLETED" /\ new # Absent
        /\ new.user = stake[s].user /\ new.pool = stake[s].pool
        /\ new.asset = stake[s].asset /\ new.amount = stake[s].amount
        /\ new.terms = stake[s].terms /\ new.startedAt = stake[s].startedAt
    BY <1>5 DEF UserStake, Absent
  <1>10. stake' = [stake EXCEPT ![s] = new] /\ stake' = [stake EXCEPT ![s].status = "COMPLETED"]
    BY DEF SettleCommit
  <1> HIDE DEF new
  <1>11. stake'[s] = new /\ \A z \in Stake \ {s} : stake'[z] = stake[z]
    BY <1>1, <1>10 DEF TypeOK
  <1>12. \A z \in Stake :
         /\ Exists(z)' <=> Exists(z)
         /\ z # s => stake'[z] = stake[z]
         /\ stake'[z].user = stake[z].user /\ stake'[z].pool = stake[z].pool
         /\ stake'[z].asset = stake[z].asset /\ stake'[z].amount = stake[z].amount
         /\ stake'[z].terms = stake[z].terms /\ stake'[z].startedAt = stake[z].startedAt
    BY <1>4, <1>9, <1>11 DEF Exists, Existing
  <1>13. Existing' = Existing
    BY <1>12 DEF Existing
  <1>14. /\ Commits(<<"round", k>>, asset, Pays(s, u)) /\ Forgets(<<"round", k>>)
         /\ paid' = [paid EXCEPT ![s] = Append(@, asset)]
         /\ fees' = [fees EXCEPT ![s] = IF FeeIsCredited(s, u) THEN Append(@, u) ELSE @]
         /\ settler' = [settler EXCEPT ![k] = Round(settler[k].due)]
         /\ UNCHANGED <<roles, request, overlapped, crossed, changes, pool, deleting, call,
                        raced, switched, now>>
    BY DEF SettleCommit, Pays, staffVars
  <1>15. stake'[s] = [stake[s] EXCEPT !.status = "COMPLETED"]
    BY <1>11 DEF new
  <1> HIDE DEF asset, u
  <1>16. Settles(k, s, asset, u)
    BY <1>2, <1>3, <1>4, <1>5, <1>6, <1>7, <1>8, <1>9, <1>10, <1>11, <1>12, <1>13, <1>14, <1>15
       DEF Settles
  <1>17. QED
    BY <1>16

\* Stake and interest go out in the asset that was read, and the round goes on.
LEMMA SettleCommitKeepsStand ==
  ASSUME Stand, NEW k \in Settler, NEW s \in Stake, SettleCommit(k, s)
  PROVE  Stand'
  <1>1. PICK asset, u : Settles(k, s, asset, u)
    BY SettleWrites
  <1>2. TypeOK /\ StakesStand /\ CallsStand /\ RoundsStand /\ PaidInKind
    BY DEF Stand
  <1>3. UNCHANGED <<roles, request, overlapped, crossed, changes, pool, deleting, call, raced,
                    switched, now>>
    BY <1>1 DEF Settles
  <1>4. RolesInv'
    BY <1>3, RolesStay DEF Stand, RolesInv, StaffTypeOK
  <1>5. TypeOK'
    <2>1. WalletsTypeOK'
      <3>1. <<"round", k>> \in Txn
        BY DEF Txn
      <3>2. /\ Pays(s, u) \in [User -> Int]
            /\ \A v \in User : Pays(s, u)[v] \in Nat
            /\ asset \in Asset
        BY <1>1 DEF Settles, Pays
      <3>3. ASSUME NEW v \in User, Pays(s, u)[v] # 0
            PROVE  seen[<<"round", k>>][v][asset] + Pays(s, u)[v] \in Nat
        <4>1. Saw(<<"round", k>>, v, asset)
          BY <1>1, <1>2, <3>1, <3>2, <3>3, CommitWallets DEF Settles
        <4>2. seen[<<"round", k>>][v][asset] \in Nat
          BY <1>2, <3>1, <3>2, <4>1 DEF TypeOK, Saw
        <4>3. QED
          BY <3>2, <4>2
      <3>4. QED
        BY <1>1, <1>2, <3>1, <3>2, <3>3, CommittingKeepsTypes DEF Settles
    <2>2. paid' \in [Stake -> Seq(Asset)]
      BY <1>1, <1>2 DEF Settles, TypeOK
    <2>3. fees' \in [Stake -> Seq(User)]
      <3>1. fees[s] \in Seq(User)
        BY <1>2 DEF TypeOK
      <3>2. FeeIsCredited(s, u) => Append(fees[s], u) \in Seq(User)
        BY <1>1, <3>1 DEF Settles, FeeIsCredited
      <3>3. (IF FeeIsCredited(s, u) THEN Append(fees[s], u) ELSE fees[s]) \in Seq(User)
        BY <3>1, <3>2
      <3>4. QED
        BY <1>1, <1>2, <3>3 DEF Settles, TypeOK
    <2>4. stake' \in [Stake -> {Absent} \cup UserStake]
      BY <1>1, <1>2 DEF Settles, TypeOK
    <2>5. settler' \in [Settler -> {Idle} \cup OpenRound]
      <3>1. Round(settler[k].due) \in {Idle} \cup OpenRound
        BY <1>1, RoundKinds DEF Settles
      <3>2. QED
        BY <1>1, <1>2, <3>1 DEF Settles, TypeOK
    <2>6. QED
      BY <1>2, <1>3, <1>4, <2>1, <2>2, <2>3, <2>4, <2>5 DEF TypeOK, RolesInv, WalletsTypeOK
  <1>6. /\ \A z \in Stake \ {s} : paid'[z] = paid[z] /\ fees'[z] = fees[z]
        /\ paid'[s] = Append(paid[s], asset)
    BY <1>1, <1>2 DEF Settles, TypeOK
  <1>7. StakesStand'
    <2>1. Existing' = Existing
      BY <1>1 DEF Settles
    <2>2. ASSUME NEW z \in Stake
          PROVE  /\ Exists(z)' => /\ pool'[stake'[z].pool] \in PoolRow
                                  /\ SameAsset(stake[z].asset, stake[z].pool)'
                 /\ ~Exists(z)' => paid'[z] = <<>> /\ fees'[z] = <<>>
      <3>1. Exists(z)' => Exists(z) /\ stake'[z].pool = stake[z].pool
                                    /\ stake'[z].asset = stake[z].asset
        BY <1>1 DEF Settles
      <3>2. ~Exists(z)' => ~Exists(z) /\ z # s
        BY <1>1 DEF Settles, Existing
      <3>3. QED
        BY <1>2, <1>3, <1>6, <3>1, <3>2 DEF StakesStand, SameAsset
    <2>3. QED
      BY <1>2, <2>1, <2>2 DEF StakesStand
  <1>8. CallsStand'
    BY <1>2, <1>3 DEF CallsStand, SameAsset
  <1>9. RoundsStand'
    <2>1. /\ settler'[k] = Round(settler[k].due)
          /\ \A j \in Settler \ {k} : settler'[j] = settler[j]
      BY <1>1, <1>2 DEF Settles, TypeOK
    <2>2. ASSUME NEW j \in Settler, settler'[j] # Idle
          PROVE  /\ settler'[j].due \subseteq Existing
                 /\ settler'[j].step = "commit" =>
                      /\ settler'[j].id \in Existing
                      /\ settler'[j].asset \in Asset
                      /\ \/ settler'[j].asset = stake[settler'[j].id].asset
                         \/ stake[settler'[j].id].pool \in switched
      <3>1. CASE j = k
        <4>1. settler[k].due \in SUBSET Existing
          BY <1>1 DEF Settles
        <4>2. QED
          BY <2>1, <2>2, <3>1, <4>1, RoundKinds
      <3>2. CASE j # k
        BY <1>2, <2>1, <2>2, <3>2 DEF RoundsStand
      <3>3. QED
        BY <3>1, <3>2
    <2>3. Existing' = Existing /\ \A z \in Existing : /\ stake'[z].asset = stake[z].asset
                                                      /\ stake'[z].pool = stake[z].pool
      BY <1>1 DEF Settles, Existing
    <2>4. QED
      BY <1>3, <2>2, <2>3 DEF RoundsStand
  <1>10. PaidInKind'
    <2>1. ASSUME NEW z \in Stake, NEW i \in DOMAIN paid'[z]
          PROVE  paid'[z][i] = stake[z].asset \/ stake[z].pool \in switched
      <3>1. CASE z # s
        BY <1>2, <1>6, <2>1, <3>1 DEF PaidInKind
      <3>2. CASE z = s
        <4>1. paid[s] \in Seq(Asset)
          BY <1>2 DEF TypeOK
        <4>2. \/ i \in DOMAIN paid[s] /\ paid'[s][i] = paid[s][i]
              \/ paid'[s][i] = asset
          BY <1>1, <1>6, <2>1, <3>2, <4>1 DEF Settles
        <4>3. QED
          BY <1>1, <1>2, <3>2, <4>2 DEF PaidInKind, Settles
      <3>3. QED
        BY <3>1, <3>2
    <2>2. QED
      BY <1>1, <1>3, <2>1 DEF PaidInKind, Settles
  <1>11. QED
    BY <1>4, <1>5, <1>7, <1>8, <1>9, <1>10 DEF Stand

\* Which wallets calls and rounds read.
LEMMA WhatIsRead ==
  ASSUME Stand,
         \/ \E c \in Caller : CreateStakeReads(c)
         \/ \E k \in Settler, s \in Stake : SettleReadOwner(k, s) \/ SettleReadTreasury(k, s)
  PROVE  \E t \in Txn, u \in User, asset \in Asset : ReadsWallet(t, u, asset)
  <1>1. ASSUME NEW c \in Caller, CreateStakeReads(c)
        PROVE  \E t \in Txn, u \in User, asset \in Asset : ReadsWallet(t, u, asset)
    <2>1. call[c] \in OpenCall
      BY <1>1, RowKinds DEF CreateStakeReads, Stand
    <2>2. <<"call", c>> \in Txn /\ call[c].user \in User /\ call[c].asset \in Asset
      BY <2>1 DEF OpenCall, Txn
    <2>3. QED
      BY <1>1, <2>2 DEF CreateStakeReads
  <1>2. ASSUME NEW k \in Settler, NEW s \in Stake,
               SettleReadOwner(k, s) \/ SettleReadTreasury(k, s)
        PROVE  \E t \in Txn, u \in User, asset \in Asset : ReadsWallet(t, u, asset)
    <2>1. settler[k].step = "commit" /\ settler[k].id = s
      BY <1>2 DEF SettleReadOwner, SettleReadTreasury, Settling
    <2>2. settler[k] \in OpenRound /\ settler[k] # Idle
      BY <2>1, RowKinds DEF Stand
    <2>3. s \in Existing /\ settler[k].asset \in Asset
      BY <2>1, <2>2 DEF Stand, RoundsStand
    <2>4. <<"round", k>> \in Txn /\ stake[s].user \in User
      BY <2>3, RowKinds DEF Existing, UserStake, Txn, Stand
    <2>5. CASE SettleReadOwner(k, s)
      BY <2>3, <2>4, <2>5 DEF SettleReadOwner
    <2>6. CASE SettleReadTreasury(k, s)
      <3>1. settler[k].treasury \in User
        BY <2>2, <2>6 DEF OpenRound, SettleReadTreasury, FeeIsCredited
      <3>2. QED
        BY <2>3, <2>4, <2>6, <3>1 DEF SettleReadTreasury
    <2>7. QED
      BY <1>2, <2>5, <2>6
  <1>3. QED
    BY <1>1, <1>2

\* A wallet is read.
LEMMA WalletReadKeepsStand ==
  ASSUME Stand, NEW t \in Txn, NEW u \in User, NEW asset \in Asset, ReadsWallet(t, u, asset)
  PROVE  Stand'
  <1>1. UNCHANGED <<roles, request, overlapped, crossed, changes, pool, stake, paid, fees,
                    deleting, call, settler, raced, switched, now>>
    BY DEF ReadsWallet, staffVars
  <1>2. RolesInv'
    BY <1>1, RolesStay DEF Stand, RolesInv, StaffTypeOK
  <1>3. WalletsTypeOK'
    BY ReadingKeepsTypes DEF Stand
  <1>4. TypeOK'
    BY <1>1, <1>2, <1>3 DEF Stand, TypeOK, RolesInv, WalletsTypeOK
  <1>5. CallsStand' /\ RoundsStand'
    BY <1>1 DEF Stand, CallsStand, RoundsStand, Existing, Exists, SameAsset
  <1>6. QED
    BY <1>1, <1>2, <1>4, <1>5, StandStays

\* Time passes.
LEMMA TickKeepsStand ==
  ASSUME Stand, Tick
  PROVE  Stand'
  <1>1. /\ now < MaxClock /\ now' = now + 1
        /\ UNCHANGED <<roles, request, overlapped, crossed, changes, pool, stake, wallets,
                       paid, fees, deleting, call, settler, raced, switched>>
    BY DEF Tick, staffVars, rows
  <1>2. RolesInv'
    BY <1>1, RolesStay DEF Stand, RolesInv, StaffTypeOK
  <1>3. now' \in 0..MaxClock
    BY <1>1, StakingAssumption DEF Stand, TypeOK
  <1>4. TypeOK'
    BY <1>1, <1>2, <1>3 DEF Stand, TypeOK, RolesInv, wallets
  <1>5. CallsStand' /\ RoundsStand'
    BY <1>1 DEF Stand, CallsStand, RoundsStand, Existing, Exists, SameAsset
  <1>6. QED
    BY <1>1, <1>2, <1>4, <1>5, StandStays

\* Every step keeps Stand.
LEMMA StandNext == Stand /\ [Next]_vars => Stand'
  <1> SUFFICES ASSUME Stand, [Next]_vars PROVE Stand'
    OBVIOUS
  <1>1. ASSUME StaffRequests \/ (\E q \in Request : StaffStep(q)), UNCHANGED stakingVars
        PROVE  Stand'
    <2>1. RolesInv'
      BY <1>1, StaffKeepsRoles DEF Stand
    <2>2. QED
      BY <1>1, <2>1, StaffKeepsStand
  <1>2. ASSUME NEW p \in Pool, NEW row \in PoolRow,
               CreateStakingPool(p, row) \/ UpdateStakingPool(p, row)
        PROVE  Stand'
    BY <1>2, CreatePoolKeepsStand, UpdatePoolKeepsStand
  <1>3. ASSUME NEW p \in Pool, CountStakes(p) \/ DeletePool(p)
        PROVE  Stand'
    BY <1>3, CountStakesKeepsStand, DeletePoolKeepsStand
  <1>4. ASSUME NEW c \in Caller, NEW u \in Staker, NEW p \in Pool, NEW amount \in Amount,
               CreateStakeRead(c, u, p, amount)
        PROVE  Stand'
    BY <1>4, CallReadKeepsStand
  <1>5. ASSUME NEW c \in Caller, CreateStakeGoesOn(c)
        PROVE  Stand'
    BY <1>5, CallFailsKeepsStand, CallCommitKeepsStand, WhatIsRead, WalletReadKeepsStand
       DEF CreateStakeGoesOn
  <1>6. ASSUME NEW k \in Settler, ListDueStakes(k) \/ SettleFails(k)
        PROVE  Stand'
    BY <1>6, ListKeepsStand, RoundFailsKeepsStand
  <1>7. ASSUME NEW k \in Settler, NEW s \in Stake,
               \/ SettleSkips(k, s) \/ SettleRead(k, s) \/ SettleCommit(k, s)
               \/ SettleReadOwner(k, s) \/ SettleReadTreasury(k, s)
        PROVE  Stand'
    BY <1>7, SkipKeepsStand, SettleReadKeepsStand, SettleCommitKeepsStand, WhatIsRead,
       WalletReadKeepsStand
  <1>8. CASE Tick
    BY <1>8, TickKeepsStand
  <1>9. CASE UNCHANGED vars
    <2>1. UNCHANGED stakingVars /\ UNCHANGED <<roles, request, overlapped, crossed, changes>>
      BY <1>9 DEF vars, staffVars
    <2>2. RolesInv'
      BY <2>1, RolesStay DEF Stand, RolesInv, StaffTypeOK
    <2>3. QED
      BY <2>1, <2>2, StaffKeepsStand
  <1>10. QED
    BY <1>1, <1>2, <1>3, <1>4, <1>5, <1>6, <1>7, <1>8, <1>9 DEF Next, Serves

\* The rows fit together in every state.
THEOREM StakingInvariance == Spec => []Stand
  BY StandInit, StandNext, PTL DEF Spec

\* Rows of their types and a pool for each stake, whatever administrators do;
\* a treasury at most unless assignments overlapped, an administrator at least
\* unless one was revoked by somebody who was none any more, and payment in the
\* asset that was locked unless the pool's was changed.
THEOREM RowsFitTogetherHolds == Spec => []RowsFitTogether
  <1>1. Stand => RowsFitTogether
    <2> SUFFICES ASSUME Stand PROVE RowsFitTogether
      OBVIOUS
    <2>1. OneTreasury
      <3>1. CASE overlapped
        BY <3>1, Zenon DEF OneTreasury
      <3>2. CASE \A u, v \in Treasuries : u = v
        <4>1. Treasuries = {} \/ \E u : Treasuries = {u}
          BY <3>2
        <4>2. Cardinality(Treasuries) = 0 \/ Cardinality(Treasuries) = 1
          BY <4>1, FS_EmptySet, FS_Singleton
        <4>3. Cardinality(Treasuries) <= 1
          BY <4>2
        <4>4. QED
          BY <4>3, Zenon DEF OneTreasury
      <3>3. QED
        BY <3>1, <3>2 DEF Stand, RolesInv
    <2>2. QED
      BY <2>1 DEF Stand, RolesInv, StakesStand, Existing, StakesHavePools, RowsFitTogether
  <1>2. QED
    BY <1>1, StakingInvariance, PTL

-----------------------------------------------------------------------------
(* A stake is paid once, as long as nobody settles it twice at a time. *)

\* A step that only reads wallets, or forgets what was read.
NoMoneyMoves ==
    \/ UNCHANGED wallets
    \/ UNCHANGED <<balance, entries, exposed>> /\ \E t \in Txn : Forgets(t)
    \/ \E t \in Txn, u \in User, asset \in Asset : ReadsWallet(t, u, asset)

\* What steps do to stakes, payments, rounds and wallets.
LEMMA StepKinds ==
  ASSUME Stand, [Next]_vars
  PROVE  \/ NoMoneyMoves /\ UNCHANGED <<stake, paid, fees, settler, raced>>
         \/ /\ NoMoneyMoves /\ UNCHANGED <<stake, paid, fees, raced>>
            /\ \E k \in Settler, due \in SUBSET Existing :
                 settler' = [settler EXCEPT ![k] = Round(due)]
         \/ \E k \in Settler, s \in Stake : SettleRead(k, s) \/ SettleCommit(k, s)
         \/ \E c \in Caller, s \in Stake : CreateStakeCommit(c, s)
  <1> DEFINE Quiet == NoMoneyMoves /\ UNCHANGED <<stake, paid, fees, settler, raced>>
             Moves == /\ NoMoneyMoves /\ UNCHANGED <<stake, paid, fees, raced>>
                      /\ \E k \in Settler, due \in SUBSET Existing :
                           settler' = [settler EXCEPT ![k] = Round(due)]
  <1>1. ASSUME UNCHANGED stakingVars \/ UNCHANGED vars
        PROVE  Quiet
    BY <1>1 DEF stakingVars, rows, vars, NoMoneyMoves
  <1>2. ASSUME NEW p \in Pool, NEW row \in PoolRow,
               CreateStakingPool(p, row) \/ UpdateStakingPool(p, row)
        PROVE  Quiet
    BY <1>2 DEF CreateStakingPool, UpdateStakingPool, AnAdminAsks, NoMoneyMoves
  <1>3. ASSUME NEW p \in Pool, CountStakes(p) \/ DeletePool(p)
        PROVE  Quiet
    BY <1>3 DEF CountStakes, DeletePool, AnAdminAsks, NoMoneyMoves
  <1>4. ASSUME NEW c \in Caller, NEW u \in Staker, NEW p \in Pool, NEW amount \in Amount,
               CreateStakeRead(c, u, p, amount)
        PROVE  Quiet
    BY <1>4 DEF CreateStakeRead, rows, NoMoneyMoves
  <1>5. ASSUME NEW c \in Caller, CreateStakeFails(c)
        PROVE  Quiet
    <2>1. <<"call", c>> \in Txn
      BY DEF Txn
    <2>2. QED
      BY <1>5, <2>1 DEF CreateStakeFails, EndsCall, NoMoneyMoves
  <1>6. ASSUME Tick
        PROVE  Quiet
    BY <1>6 DEF Tick, rows, NoMoneyMoves
  <1>7. ASSUME NEW k \in Settler, ListDueStakes(k)
        PROVE  Moves
    <2>1. PICK S \in kSubset(Min({BatchSize, Cardinality(Due)}), Due) :
            settler' = [settler EXCEPT ![k] = Round(S)]
      BY <1>7 DEF ListDueStakes
    <2>2. S \in SUBSET Existing
      BY <2>1, DueExists DEF kSubset, Stand
    <2>3. QED
      BY <1>7, <2>1, <2>2 DEF ListDueStakes, rows, NoMoneyMoves
  <1>8. ASSUME NEW k \in Settler, SettleFails(k)
        PROVE  Moves
    <2>1. PICK due \in {settler[k].due, {}} : settler' = [settler EXCEPT ![k] = Round(due)]
      BY <1>8 DEF SettleFails
    <2>2. due \in SUBSET Existing
      BY <1>8, <2>1 DEF Stand, RoundsStand, SettleFails
    <2>3. QED
      BY <1>8, <2>1, <2>2 DEF SettleFails, NoMoneyMoves, Txn
  <1>9. ASSUME NEW k \in Settler, NEW s \in Stake, SettleSkips(k, s)
        PROVE  Moves
    <2>1. settler[k].due \ {s} \in SUBSET Existing
      BY <1>9 DEF Stand, RoundsStand, SettleSkips, Idle
    <2>2. QED
      BY <1>9, <2>1 DEF SettleSkips, rows, NoMoneyMoves
  <1>10. ASSUME NEW t \in Txn, NEW u \in User, NEW asset \in Asset, ReadsWallet(t, u, asset)
         PROVE  Quiet
    <2>1. NoMoneyMoves
      BY <1>10 DEF NoMoneyMoves
    <2>2. QED
      BY <1>10, <2>1 DEF ReadsWallet
  <1>11. ASSUME \/ \E c \in Caller : CreateStakeReads(c)
                \/ \E k \in Settler, s \in Stake :
                     SettleReadOwner(k, s) \/ SettleReadTreasury(k, s)
         PROVE  Quiet
    <2>1. PICK t \in Txn, u \in User, asset \in Asset : ReadsWallet(t, u, asset)
      BY <1>11, WhatIsRead, Zenon
    <2>2. QED
      BY <1>10, <2>1
  <1> HIDE DEF Quiet, Moves
  <1>12. \/ Quiet \/ Moves
         \/ \E k \in Settler, s \in Stake : SettleRead(k, s) \/ SettleCommit(k, s)
         \/ \E c \in Caller, s \in Stake : CreateStakeCommit(c, s)
    <2> DEFINE Writes == \/ \E k \in Settler, s \in Stake : SettleRead(k, s) \/ SettleCommit(k, s)
                         \/ \E c \in Caller, s \in Stake : CreateStakeCommit(c, s)
    <2>1. ASSUME NEW k \in Settler, NEW s \in Stake, SettleRead(k, s) \/ SettleCommit(k, s)
          PROVE  Writes
      BY <2>1
    <2>2. ASSUME NEW c \in Caller, CreateStakeGoesOn(c)
          PROVE  Quiet \/ Writes
      BY <1>5, <1>11, <2>2 DEF CreateStakeGoesOn
    <2> HIDE DEF Writes
    <2>3. Quiet \/ Moves \/ Writes
      BY <1>1, <1>2, <1>3, <1>4, <1>6, <1>7, <1>8, <1>9, <1>11, <2>1, <2>2 DEF Next, Serves
    <2>4. QED
      BY <2>3 DEF Writes
  <1>13. QED
    BY <1>12 DEF Quiet, Moves

\* A round that goes on or ends settles nothing any more.
LEMMA RoundSettlesNoMore ==
  ASSUME TypeOK, NEW k \in Settler, NEW due \in SUBSET Existing,
         settler' = [settler EXCEPT ![k] = Round(due)]
  PROVE  \A z : Settling(z)' = Settling(z) \ {k}
  <1>1. settler'[k] = Round(due) /\ \A j \in Settler \ {k} : settler'[j] = settler[j]
    BY DEF TypeOK
  <1>2. settler'[k].step # "commit"
    BY <1>1, RoundKinds
  <1>3. QED
    BY <1>1, <1>2 DEF Settling

\* At first nothing is paid.
LEMMA PaidInit == Init => PaidInv
  <1> SUFFICES ASSUME Init PROVE PaidInv
    OBVIOUS
  <1>1. \A s \in Stake : ~Exists(s) /\ paid[s] = <<>> /\ fees[s] = <<>>
    BY DEF Init, Exists
  <1>2. \A s \in Stake : Settling(s) = {}
    BY DEF Init, Settling, Idle
  <1>3. QED
    BY <1>1, <1>2 DEF PaidInv, PaidOnce, Unraced

\* A settlement that finds no other one is alone.
LEMMA SettleReadKeepsPaid ==
  ASSUME Stand, PaidInv, NEW k \in Settler, NEW s \in Stake, SettleRead(k, s)
  PROVE  PaidInv'
  <1>1. PICK u : ReadStake(k, s, u)
    BY SettleReads
  <1>2. raced' = [raced EXCEPT ![s] = @ \/ Settling(s) # {}]
        /\ UNCHANGED <<stake, paid, fees>>
    BY DEF SettleRead, rows
  <1>3. /\ \A z \in Stake \ {s} : raced'[z] = raced[z]
        /\ ~raced'[s] => ~raced[s] /\ Settling(s) = {}
    BY <1>2 DEF Stand, TypeOK
  <1>4. PaidOnce'
    BY <1>2, <1>3 DEF PaidInv, PaidOnce, Exists
  <1>5. /\ \A z \in Stake \ {s} : Settling(z)' = Settling(z)
        /\ Settling(s)' = Settling(s) \cup {k}
    BY <1>1 DEF ReadStake, Settling
  <1>6. Active(s) /\ \A z \in Stake : Active(z)' <=> Active(z)
    BY <1>1, <1>2 DEF ReadStake, Active
  <1>7. ASSUME NEW z \in Stake, NEW j \in Settler, ~raced'[z], j \in Settling(z)'
        PROVE  Active(z)' /\ Settling(z)' = {j}
    <2>1. CASE z = s
      BY <1>3, <1>5, <1>6, <1>7, <2>1
    <2>2. CASE z # s
      BY <1>3, <1>5, <1>6, <1>7, <2>2 DEF PaidInv, Unraced
    <2>3. QED
      BY <2>1, <2>2
  <1>8. QED
    BY <1>4, <1>7 DEF PaidInv, Unraced

\* A commit pays a stake that is unpaid, if no other settlement raced it.
LEMMA SettleCommitKeepsPaid ==
  ASSUME Stand, PaidInv, NEW k \in Settler, NEW s \in Stake, SettleCommit(k, s)
  PROVE  PaidInv'
  <1>1. PICK asset, u : Settles(k, s, asset, u)
    BY SettleWrites
  <1>2. TypeOK /\ PaidOnce /\ Unraced
    BY DEF Stand, PaidInv
  <1>3. /\ \A z \in Stake : z # s => /\ paid'[z] = paid[z] /\ fees'[z] = fees[z]
                                     /\ stake'[z] = stake[z] /\ (Exists(z)' <=> Exists(z))
        /\ paid'[s] = Append(paid[s], asset)
        /\ fees'[s] = fees[s] \/ fees'[s] = Append(fees[s], u)
        /\ stake'[s].status = "COMPLETED" /\ Exists(s) /\ raced' = raced
    BY <1>1, <1>2 DEF Settles, TypeOK, Existing
  <1>4. k \in Settling(s)
    BY DEF SettleCommit
  <1>5. paid[s] \in Seq(Asset) /\ fees[s] \in Seq(User)
    BY <1>2 DEF TypeOK
  <1>6. ~raced[s] => Active(s) /\ Settling(s) = {k} /\ paid[s] = <<>>
    <2>1. Active(s) => paid[s] = <<>>
      BY <1>2, <1>3 DEF PaidOnce, Active
    <2>2. QED
      BY <1>2, <1>4, <2>1 DEF Unraced
  <1>7. /\ paid'[s] # <<>> /\ Len(paid'[s]) = Len(paid[s]) + 1
        /\ Len(fees'[s]) <= Len(fees[s]) + 1
        /\ Len(paid[s]) \in Nat /\ Len(fees[s]) \in Nat
        /\ (paid[s] = <<>> => Len(paid[s]) = 0)
    BY <1>3, <1>5
  <1>8. Len(fees'[s]) \in Nat
    BY <1>3, <1>5
  <1>9. PaidOnce'
    <2>1. ASSUME NEW z \in Stake
          PROVE  /\ Exists(z)' => (stake'[z].status = "COMPLETED" <=> paid'[z] # <<>>)
                 /\ ~raced'[z] => Len(paid'[z]) <= 1
                 /\ Len(fees'[z]) <= Len(paid'[z])
      <3>1. CASE z # s
        BY <1>2, <1>3, <3>1 DEF PaidOnce
      <3>2. CASE z = s
        <4>1. Len(fees[s]) <= Len(paid[s])
          BY <1>2 DEF PaidOnce
        <4>2. Len(fees'[s]) <= Len(paid'[s])
          BY <1>7, <1>8, <4>1
        <4>3. ~raced'[s] => Len(paid'[s]) <= 1
          BY <1>3, <1>6, <1>7
        <4>4. QED
          BY <1>3, <1>7, <3>2, <4>2, <4>3
      <3>3. QED
        BY <3>1, <3>2
    <2>2. QED
      BY <2>1 DEF PaidOnce
  <1>10. \A z : Settling(z)' = Settling(z) \ {k}
    BY <1>1, <1>2, RoundSettlesNoMore DEF Settles
  <1>11. ASSUME NEW z \in Stake, NEW j \in Settler, ~raced'[z], j \in Settling(z)'
         PROVE  Active(z)' /\ Settling(z)' = {j}
    <2>1. z # s
      BY <1>3, <1>6, <1>10, <1>11
    <2>2. Active(z) /\ Settling(z) = {j} /\ j # k
      BY <1>2, <1>3, <1>10, <1>11 DEF Unraced
    <2>3. QED
      BY <1>3, <1>10, <2>1, <2>2 DEF Active
  <1>12. QED
    BY <1>9, <1>11 DEF PaidInv, Unraced

\* A new stake is unpaid and nobody settles it.
LEMMA CallCommitKeepsPaid ==
  ASSUME Stand, PaidInv, NEW c \in Caller, NEW s \in Stake, CreateStakeCommit(c, s)
  PROVE  PaidInv'
  <1>1. NewStake(c, s)
    BY CommitWrites
  <1>2. UNCHANGED <<paid, fees, raced, settler>>
    BY DEF CreateStakeCommit
  <1>3. stake'[s].status = "ACTIVE" /\ paid[s] = <<>>
    BY <1>1 DEF NewStake
  <1>4. PaidOnce'
    <2>1. ASSUME NEW z \in Stake
          PROVE  /\ Exists(z)' => (stake'[z].status = "COMPLETED" <=> paid'[z] # <<>>)
                 /\ ~raced'[z] => Len(paid'[z]) <= 1
                 /\ Len(fees'[z]) <= Len(paid'[z])
      <3>1. CASE z # s
        BY <1>1, <1>2, <3>1 DEF NewStake, PaidInv, PaidOnce
      <3>2. CASE z = s
        BY <1>2, <1>3, <3>2 DEF PaidInv, PaidOnce
      <3>3. QED
        BY <3>1, <3>2
    <2>2. QED
      BY <2>1 DEF PaidOnce
  <1>5. Settling(s) = {}
    <2>1. \A k \in Settler : settler[k].step = "commit" => settler[k].id \in Existing
      BY RowKinds DEF Stand, RoundsStand
    <2>2. s \notin Existing
      BY <1>1 DEF NewStake, Existing
    <2>3. QED
      BY <2>1, <2>2 DEF Settling
  <1>6. Unraced'
    <2>1. \A z \in Stake : Settling(z)' = Settling(z)
      BY <1>2 DEF Settling
    <2>2. \A z \in Stake \ {s} : Active(z)' <=> Active(z)
      BY <1>1 DEF NewStake, Active
    <2>3. QED
      BY <1>2, <1>5, <2>1, <2>2 DEF PaidInv, Unraced
  <1>7. QED
    BY <1>4, <1>6 DEF PaidInv

\* Every step keeps a stake from being paid twice.
LEMMA PaidNext == Stand /\ PaidInv /\ [Next]_vars => PaidInv'
  <1> SUFFICES ASSUME Stand, PaidInv, [Next]_vars PROVE PaidInv'
    OBVIOUS
  <1>1. CASE UNCHANGED <<stake, paid, fees, settler, raced>>
    BY <1>1 DEF PaidInv, PaidOnce, Unraced, Exists, Active, Settling
  <1>2. ASSUME UNCHANGED <<stake, paid, fees, raced>>,
               NEW k \in Settler, NEW due \in SUBSET Existing,
               settler' = [settler EXCEPT ![k] = Round(due)]
        PROVE  PaidInv'
    <2>1. \A z : Settling(z)' = Settling(z) \ {k}
      BY <1>2, RoundSettlesNoMore DEF Stand
    <2>2. PaidOnce'
      BY <1>2 DEF PaidInv, PaidOnce, Exists
    <2>3. ASSUME NEW z \in Stake, NEW j \in Settler, ~raced'[z], j \in Settling(z)'
          PROVE  Active(z)' /\ Settling(z)' = {j}
      <3>1. Active(z) /\ Settling(z) = {j} /\ j # k
        BY <1>2, <2>1, <2>3 DEF PaidInv, Unraced
      <3>2. QED
        BY <1>2, <2>1, <3>1 DEF Active
    <2>4. QED
      BY <2>2, <2>3 DEF PaidInv, Unraced
  <1>3. ASSUME NEW k \in Settler, NEW s \in Stake, SettleRead(k, s) \/ SettleCommit(k, s)
        PROVE  PaidInv'
    BY <1>3, SettleReadKeepsPaid, SettleCommitKeepsPaid
  <1>4. ASSUME NEW c \in Caller, NEW s \in Stake, CreateStakeCommit(c, s)
        PROVE  PaidInv'
    BY <1>4, CallCommitKeepsPaid
  <1>5. QED
    BY <1>1, <1>2, <1>3, <1>4, StepKinds

\* A stake is paid back once, unless settlements of it overlapped.
THEOREM PaidOnceHolds == Spec => []PaidOnce
  <1>1. Init => Stand /\ PaidInv
    BY StandInit, PaidInit
  <1>2. Stand /\ PaidInv /\ [Next]_vars => (Stand /\ PaidInv)'
    BY StandNext, PaidNext
  <1>3. PaidInv => PaidOnce
    BY DEF PaidInv
  <1>4. QED
    BY <1>1, <1>2, <1>3, PTL DEF Spec

-----------------------------------------------------------------------------
(* A call that is alone keeps the limits of the pool. *)

\* What the stakes of a user in a pool hold by now.
Locks(u, p) == [s \in Stake |-> IF s \in StakesOf(u, p) /\ Active(s)
                               THEN stake[s].amount ELSE 0]

\* They hold natural numbers.
LEMMA LocksNat ==
  ASSUME TypeOK, NEW u, NEW p
  PROVE  /\ \A s \in Stake : Locks(u, p)[s] \in Nat
         /\ ActiveTotal(u, p) = SumFunctionOnSet(Locks(u, p), Stake)
         /\ ActiveTotal(u, p) \in Nat
  <1>1. \A s \in Stake : Active(s) => stake[s].amount \in Nat
    BY RowKinds, StakingAssumption DEF UserStake
  <1>2. \A s \in Stake : Locks(u, p)[s] \in Nat
    BY <1>1 DEF Locks
  <1>3. ActiveTotal(u, p) = SumFunctionOnSet(Locks(u, p), Stake)
    BY DEF ActiveTotal, Locks
  <1>4. SumFunctionOnSet(Locks(u, p), Stake) \in Nat
    BY <1>2, StakesFinite, SumPart
  <1>5. QED
    BY <1>2, <1>3, <1>4

\* The same facts, to speak of the next state.
LocksAreNat ==
    \A u \in User, p \in Pool :
      /\ \A s \in Stake : Locks(u, p)[s] \in Nat
      /\ ActiveTotal(u, p) = SumFunctionOnSet(Locks(u, p), Stake)
      /\ ActiveTotal(u, p) \in Nat

\* Every share that is summed is a number.
LEMMA LocksNumbers == TypeOK => LocksAreNat
  BY LocksNat DEF LocksAreNat

\* A new stake adds what it locks, for its user and its pool only.
LEMMA NewStakeLocks ==
  ASSUME Stand, TypeOK', NEW c \in Caller, NEW s \in Stake, NewStake(c, s),
         NEW u \in User, NEW p \in Pool
  PROVE  /\ call[c].user = u /\ call[c].pool = p
              => ActiveTotal(u, p)' = ActiveTotal(u, p) + call[c].amount
         /\ ~(call[c].user = u /\ call[c].pool = p)
              => /\ ActiveTotal(u, p)' = ActiveTotal(u, p)
                 /\ StakesOf(u, p)' = StakesOf(u, p)
  <1>1. TypeOK
    BY DEF Stand
  <1>2. LocksAreNat /\ LocksAreNat'
    BY <1>1, LocksNumbers, PTL
  <1>3. /\ \A z \in Stake : Locks(u, p)[z] \in Nat /\ Locks(u, p)'[z] \in Nat
        /\ ActiveTotal(u, p) = SumFunctionOnSet(Locks(u, p), Stake)
        /\ ActiveTotal(u, p)' = SumFunctionOnSet(Locks(u, p)', Stake)
    BY <1>2 DEF LocksAreNat
  <1>4. \A z \in Stake : z # s => Locks(u, p)'[z] = Locks(u, p)[z]
    BY DEF NewStake, Locks, StakesOf, StakesIn, Active
  <1>5. SumFunctionOnSet(Locks(u, p)', Stake)
          = SumFunctionOnSet(Locks(u, p), Stake) + Locks(u, p)'[s] - Locks(u, p)[s]
    <2>1. \A z \in Stake : Locks(u, p)[z] \in Int /\ Locks(u, p)'[z] \in Int
      BY <1>3
    <2>2. IsFiniteSet(Stake)
      BY StakesFinite
    <2>3. QED
      BY <1>4, <2>1, <2>2, SumPoint
  <1>6. Locks(u, p)[s] = 0
    BY DEF NewStake, Locks, StakesOf, StakesIn
  <1>7. /\ call[c].user = u /\ call[c].pool = p => Locks(u, p)'[s] = call[c].amount
        /\ ~(call[c].user = u /\ call[c].pool = p) => Locks(u, p)'[s] = 0
    BY DEF NewStake, Locks, StakesOf, StakesIn, Active
  <1>8. ActiveTotal(u, p) \in Nat
    BY <1>2 DEF LocksAreNat
  <1>9. call[c].amount \in Nat
    BY StakingAssumption DEF NewStake, OpenCall
  <1>10. ~(call[c].user = u /\ call[c].pool = p) => StakesOf(u, p)' = StakesOf(u, p)
    BY DEF NewStake, StakesOf, StakesIn
  <1> HIDE DEF Locks
  <1>11. QED
    BY <1>3, <1>5, <1>6, <1>7, <1>8, <1>9, <1>10

\* A call that begins alone has checked the limits, and marks those it meets.
LEMMA CallReadKeepsLimits ==
  ASSUME Stand, CallsKeepLimits,
         NEW c \in Caller, NEW u \in Staker, NEW p \in Pool, NEW amount \in Amount,
         CreateStakeRead(c, u, p, amount)
  PROVE  CallsKeepLimits'
  <1> DEFINE new == [step |-> "commit", user |-> u, pool |-> p, asset |-> pool[p].asset,
                     terms |-> pool[p].terms, amount |-> amount,
                     maturesAt |-> now + pool[p].terms.lock, raced |-> SameCalls(u, p) # {}]
  <1>1. /\ new.user = u /\ new.pool = p /\ new.terms = pool[p].terms
        /\ new.amount = amount /\ new.raced = (SameCalls(u, p) # {}) /\ new # Idle
    BY DEF Idle
  <1> HIDE DEF new
  <1>2. call' = [d \in Caller |->
                  IF d = c THEN new
                  ELSE IF d \in SameCalls(u, p) THEN [call[d] EXCEPT !.raced = TRUE]
                  ELSE call[d]]
    BY DEF CreateStakeRead, new
  <1>3. UNCHANGED <<stake, now>>
    BY DEF CreateStakeRead, rows
  <1>4. \A v, o : StakesOf(v, o)' = StakesOf(v, o) /\ ActiveTotal(v, o)' = ActiveTotal(v, o)
    BY <1>3 DEF StakesOf, StakesIn, Exists, ActiveTotal, Active
  <1>5. \A d \in SameCalls(u, p) :
          /\ [call[d] EXCEPT !.raced = TRUE].user = u
          /\ [call[d] EXCEPT !.raced = TRUE].pool = p
          /\ [call[d] EXCEPT !.raced = TRUE].raced
          /\ [call[d] EXCEPT !.raced = TRUE] # Idle
    <2>1. \A d \in SameCalls(u, p) : call[d] \in OpenCall /\ call[d].user = u /\ call[d].pool = p
      BY RowKinds DEF SameCalls, Stand
    <2>2. QED
      BY <2>1 DEF OpenCall, Idle
  <1>6. ASSUME NEW v \in User, NEW o \in Pool, NEW d \in Caller,
               d \in SameCalls(v, o)', ~call'[d].raced
        PROVE  /\ SameCalls(v, o)' = {d}
               /\ ActiveTotal(v, o)' + call'[d].amount <= call'[d].terms.cap
               /\ \A s \in StakesOf(v, o)' :
                    now' - stake'[s].startedAt >= call'[d].terms.cooldown
    <2>1. call'[d] # Idle /\ call'[d].user = v /\ call'[d].pool = o
      BY <1>6 DEF SameCalls
    <2>2. CASE d = c
      <3>1. call'[d] = new /\ SameCalls(u, p) = {}
        BY <1>1, <1>2, <1>6, <2>2, Zenon
      <3>2. v = u /\ o = p
        BY <1>1, <2>1, <3>1
      <3>3. SameCalls(u, p)' = {d}
        BY <1>1, <1>2, <2>2, <3>1 DEF SameCalls
      <3>4. ActiveTotal(u, p) + amount <= pool[p].terms.cap
        BY DEF CreateStakeRead, BelowCap
      <3>5. \A s \in StakesOf(u, p) : now - stake[s].startedAt >= pool[p].terms.cooldown
        BY DEF CreateStakeRead, CooledDown
      <3>6. QED
        BY <1>1, <1>3, <1>4, <3>1, <3>2, <3>3, <3>4, <3>5
    <2>3. CASE d # c
      <3>1. d \notin SameCalls(u, p) /\ call'[d] = call[d] /\ call[d] # Idle /\ ~call[d].raced
        BY <1>2, <1>5, <1>6, <2>1, <2>3
      <3>2. d \in SameCalls(v, o) /\ ~(v = u /\ o = p)
        BY <2>1, <3>1 DEF SameCalls
      <3>3. /\ SameCalls(v, o) = {d}
            /\ ActiveTotal(v, o) + call[d].amount <= call[d].terms.cap
            /\ \A s \in StakesOf(v, o) : now - stake[s].startedAt >= call[d].terms.cooldown
        BY <3>1, <3>2 DEF CallsKeepLimits
      <3>4. ASSUME NEW e \in Caller
            PROVE  e \in SameCalls(v, o)' <=> e \in SameCalls(v, o) /\ e # c
        <4>1. \/ call'[e] = call[e] /\ e # c
              \/ e = c /\ call'[e] = new
              \/ /\ e \in SameCalls(u, p) /\ call'[e].user = u /\ call'[e].pool = p
                 /\ e # c
          BY <1>2, <1>5
        <4>2. QED
          BY <1>1, <3>2, <4>1 DEF SameCalls
      <3>5. SameCalls(v, o)' = {d}
        BY <2>3, <3>3, <3>4 DEF SameCalls
      <3>6. QED
        BY <1>3, <1>4, <3>1, <3>3, <3>5
    <2>4. QED
      BY <2>2, <2>3
  <1>7. QED
    BY <1>6 DEF CallsKeepLimits

\* A call that ends leaves the others alone.
LEMMA CallEndsElsewhere ==
  ASSUME TypeOK, NEW c \in Caller, call' = [call EXCEPT ![c] = Idle]
  PROVE  /\ \A v, o : SameCalls(v, o)' = SameCalls(v, o) \ {c}
         /\ \A d \in Caller \ {c} : call'[d] = call[d]
  <1>1. call'[c] = Idle /\ \A d \in Caller \ {c} : call'[d] = call[d]
    BY DEF TypeOK
  <1>2. QED
    BY <1>1 DEF SameCalls

\* A commit of another user or for another pool: it is not the same call.
LEMMA CallCommitKeepsLimits ==
  ASSUME Stand, TypeOK', CallsKeepLimits,
         NEW c \in Caller, NEW s \in Stake, CreateStakeCommit(c, s)
  PROVE  CallsKeepLimits'
  <1>1. NewStake(c, s)
    BY CommitWrites
  <1>2. call' = [call EXCEPT ![c] = Idle] /\ now' = now /\ call[c] # Idle
    BY DEF CreateStakeCommit, EndsCall
  <1>3. /\ \A v, o : SameCalls(v, o)' = SameCalls(v, o) \ {c}
        /\ \A d \in Caller \ {c} : call'[d] = call[d]
    BY <1>2, CallEndsElsewhere DEF Stand
  <1>4. ASSUME NEW v \in User, NEW o \in Pool, NEW d \in Caller,
               d \in SameCalls(v, o)', ~call'[d].raced
        PROVE  /\ SameCalls(v, o)' = {d}
               /\ ActiveTotal(v, o)' + call'[d].amount <= call'[d].terms.cap
               /\ \A z \in StakesOf(v, o)' :
                    now' - stake'[z].startedAt >= call'[d].terms.cooldown
    <2>1. d \in SameCalls(v, o) /\ d # c /\ call'[d] = call[d]
      BY <1>3, <1>4
    <2>2. /\ SameCalls(v, o) = {d}
          /\ ActiveTotal(v, o) + call[d].amount <= call[d].terms.cap
          /\ \A z \in StakesOf(v, o) : now - stake[z].startedAt >= call[d].terms.cooldown
      BY <1>4, <2>1 DEF CallsKeepLimits
    <2>3. ~(call[c].user = v /\ call[c].pool = o)
      BY <1>2, <2>1, <2>2 DEF SameCalls
    <2>4. ActiveTotal(v, o)' = ActiveTotal(v, o) /\ StakesOf(v, o)' = StakesOf(v, o)
      BY <1>1, <2>3, NewStakeLocks
    <2>5. s \notin StakesOf(v, o)
      BY <1>1 DEF NewStake, StakesOf, StakesIn
    <2>6. \A z \in StakesOf(v, o) : stake'[z] = stake[z]
      BY <1>1, <2>5 DEF NewStake, StakesOf, StakesIn
    <2>7. QED
      BY <1>2, <1>3, <2>1, <2>2, <2>4, <2>6
  <1>5. QED
    BY <1>4 DEF CallsKeepLimits

\* A request that fails counts for no limit.
LEMMA CallFailsKeepsLimits ==
  ASSUME Stand, CallsKeepLimits, NEW c \in Caller, CreateStakeFails(c)
  PROVE  CallsKeepLimits'
  <1>1. call' = [call EXCEPT ![c] = Idle] /\ UNCHANGED <<stake, now>>
    BY DEF CreateStakeFails, EndsCall
  <1>2. /\ \A v, o : SameCalls(v, o)' = SameCalls(v, o) \ {c}
        /\ \A d \in Caller \ {c} : call'[d] = call[d]
    BY <1>1, CallEndsElsewhere DEF Stand
  <1>3. \A v, o : StakesOf(v, o)' = StakesOf(v, o) /\ ActiveTotal(v, o)' = ActiveTotal(v, o)
    BY <1>1 DEF StakesOf, StakesIn, Exists, ActiveTotal, Active
  <1>4. ASSUME NEW v \in User, NEW o \in Pool, NEW d \in Caller,
               d \in SameCalls(v, o)', ~call'[d].raced
        PROVE  /\ SameCalls(v, o)' = {d}
               /\ ActiveTotal(v, o)' + call'[d].amount <= call'[d].terms.cap
               /\ \A z \in StakesOf(v, o)' :
                    now' - stake'[z].startedAt >= call'[d].terms.cooldown
    <2>1. d \in SameCalls(v, o) /\ d # c /\ call'[d] = call[d]
      BY <1>2, <1>4
    <2>2. /\ SameCalls(v, o) = {d}
          /\ ActiveTotal(v, o) + call[d].amount <= call[d].terms.cap
          /\ \A z \in StakesOf(v, o) : now - stake[z].startedAt >= call[d].terms.cooldown
      BY <1>4, <2>1 DEF CallsKeepLimits
    <2>3. QED
      BY <1>1, <1>2, <1>3, <2>1, <2>2
  <1>5. QED
    BY <1>4 DEF CallsKeepLimits

\* A settlement frees room under the cap.
LEMMA SettleCommitKeepsLimits ==
  ASSUME Stand, TypeOK', CallsKeepLimits, NEW k \in Settler, NEW s \in Stake,
         SettleCommit(k, s)
  PROVE  CallsKeepLimits'
  <1>1. PICK asset, u : Settles(k, s, asset, u)
    BY SettleWrites
  <1>2. UNCHANGED <<call, now>>
    BY <1>1 DEF Settles
  <1>3. \A v, o : SameCalls(v, o)' = SameCalls(v, o)
    BY <1>2 DEF SameCalls
  <1>4. \A v, o : StakesOf(v, o)' = StakesOf(v, o)
    BY <1>1 DEF Settles, StakesOf, StakesIn
  <1>5. LocksAreNat /\ LocksAreNat'
    <2>1. TypeOK
      BY DEF Stand
    <2>2. QED
      BY <2>1, LocksNumbers, PTL
  <1>6. ASSUME NEW v \in User, NEW o \in Pool
        PROVE  ActiveTotal(v, o)' <= ActiveTotal(v, o)
    <2>1. /\ \A z \in Stake : Locks(v, o)[z] \in Nat /\ Locks(v, o)'[z] \in Nat
          /\ ActiveTotal(v, o) = SumFunctionOnSet(Locks(v, o), Stake)
          /\ ActiveTotal(v, o)' = SumFunctionOnSet(Locks(v, o)', Stake)
      BY <1>5 DEF LocksAreNat
    <2>2. ASSUME NEW z \in Stake
          PROVE  Locks(v, o)'[z] <= Locks(v, o)[z]
      <3>1. CASE z = s
        <4>1. Locks(v, o)'[s] = 0
          BY <1>1 DEF Settles, Locks, Active
        <4>2. QED
          BY <2>1, <3>1, <4>1
      <3>2. CASE z # s
        <4>1. Locks(v, o)'[z] = Locks(v, o)[z]
          BY <1>1, <1>4, <3>2 DEF Settles, Locks, Active
        <4>2. QED
          BY <2>1, <4>1
      <3>3. QED
        BY <3>1, <3>2
    <2>3. \A z \in Stake : Locks(v, o)[z] \in Int /\ Locks(v, o)'[z] \in Int
      BY <2>1
    <2>4. IsFiniteSet(Stake)
      BY StakesFinite
    <2>5. SumFunctionOnSet(Locks(v, o)', Stake) <= SumFunctionOnSet(Locks(v, o), Stake)
      BY <2>2, <2>3, <2>4, SumAtMost
    <2>6. QED
      BY <2>1, <2>5
  <1>7. \A v \in User, o \in Pool : ActiveTotal(v, o) \in Nat /\ ActiveTotal(v, o)' \in Nat
    BY <1>5 DEF LocksAreNat
  <1>8. \A d \in Caller : call[d] # Idle => call[d].amount \in Nat /\ call[d].terms.cap \in Nat
    <2>1. \A d \in Caller : call[d] # Idle => call[d].amount \in Amount /\ call[d].terms \in Terms
      BY RowKinds DEF Stand, OpenCall
    <2>2. QED
      BY <2>1, StakingAssumption
  <1>9. ASSUME NEW v \in User, NEW o \in Pool, NEW d \in Caller,
               d \in SameCalls(v, o)', ~call'[d].raced
        PROVE  /\ SameCalls(v, o)' = {d}
               /\ ActiveTotal(v, o)' + call'[d].amount <= call'[d].terms.cap
               /\ \A z \in StakesOf(v, o)' :
                    now' - stake'[z].startedAt >= call'[d].terms.cooldown
    <2>1. d \in SameCalls(v, o) /\ call'[d] = call[d] /\ call[d] # Idle
      BY <1>2, <1>3, <1>9 DEF SameCalls
    <2>2. /\ SameCalls(v, o) = {d}
          /\ ActiveTotal(v, o) + call[d].amount <= call[d].terms.cap
          /\ \A z \in StakesOf(v, o) : now - stake[z].startedAt >= call[d].terms.cooldown
      BY <1>9, <2>1 DEF CallsKeepLimits
    <2>3. ActiveTotal(v, o)' + call[d].amount <= call[d].terms.cap
      BY <1>6, <1>7, <1>8, <2>1, <2>2
    <2>4. \A z \in StakesOf(v, o)' : stake'[z].startedAt = stake[z].startedAt
      BY <1>1, <1>4 DEF Settles, StakesOf, StakesIn
    <2>5. QED
      BY <1>2, <1>3, <1>4, <2>1, <2>2, <2>3, <2>4
  <1>10. QED
    BY <1>9 DEF CallsKeepLimits

\* The longer a call takes, the longer the user has waited.
LEMMA TickKeepsLimits ==
  ASSUME Stand, CallsKeepLimits, Tick
  PROVE  CallsKeepLimits'
  <1>1. now' = now + 1 /\ UNCHANGED <<stake, call>>
    BY DEF Tick, rows
  <1>2. \A v, o : /\ StakesOf(v, o)' = StakesOf(v, o) /\ ActiveTotal(v, o)' = ActiveTotal(v, o)
                  /\ SameCalls(v, o)' = SameCalls(v, o)
    BY <1>1 DEF StakesOf, StakesIn, Exists, ActiveTotal, Active, SameCalls
  <1>3. now \in Nat
    BY StakingAssumption DEF Stand, TypeOK
  <1>4. ASSUME NEW v \in User, NEW o \in Pool, NEW d \in Caller,
               d \in SameCalls(v, o)', ~call'[d].raced
        PROVE  /\ SameCalls(v, o)' = {d}
               /\ ActiveTotal(v, o)' + call'[d].amount <= call'[d].terms.cap
               /\ \A z \in StakesOf(v, o)' :
                    now' - stake'[z].startedAt >= call'[d].terms.cooldown
    <2>1. d \in SameCalls(v, o) /\ call'[d] = call[d] /\ call[d] # Idle
      BY <1>1, <1>2, <1>4 DEF SameCalls
    <2>2. /\ SameCalls(v, o) = {d}
          /\ ActiveTotal(v, o) + call[d].amount <= call[d].terms.cap
          /\ \A z \in StakesOf(v, o) : now - stake[z].startedAt >= call[d].terms.cooldown
      BY <1>1, <1>4, <2>1 DEF CallsKeepLimits
    <2>3. call[d].terms \in Terms /\ call[d].terms.cooldown \in Nat
      <3>1. call[d].terms \in Terms
        BY <2>1, RowKinds DEF Stand, OpenCall
      <3>2. QED
        BY <3>1, StakingAssumption
    <2>4. \A z \in StakesOf(v, o) : stake[z].startedAt \in Nat
      <3>1. \A z \in StakesOf(v, o) : stake[z] \in UserStake
        BY RowKinds DEF Stand, StakesOf, StakesIn
      <3>2. QED
        BY <3>1 DEF UserStake
    <2>5. \A z \in StakesOf(v, o) : (now + 1) - stake[z].startedAt >= call[d].terms.cooldown
      BY <1>3, <2>2, <2>3, <2>4
    <2>6. StakesOf(v, o)' = StakesOf(v, o) /\ ActiveTotal(v, o)' = ActiveTotal(v, o)
          /\ SameCalls(v, o)' = SameCalls(v, o)
      BY <1>2
    <2>7. \A z \in StakesOf(v, o) : now' - stake'[z].startedAt >= call'[d].terms.cooldown
      BY <1>1, <2>1, <2>5
    <2>8. QED
      BY <2>1, <2>2, <2>6, <2>7
  <1>5. QED
    BY <1>4 DEF CallsKeepLimits

\* Every step keeps the limits of the requests that run alone.
LEMMA LimitsNext == Stand /\ CallsKeepLimits /\ [Next]_vars => CallsKeepLimits'
  <1> SUFFICES ASSUME Stand, CallsKeepLimits, [Next]_vars PROVE CallsKeepLimits'
    OBVIOUS
  <1>1. TypeOK'
    BY StandNext DEF Stand
  <1>2. ASSUME UNCHANGED <<stake, call, now>>
        PROVE  CallsKeepLimits'
    <2>1. \A v, o : /\ StakesOf(v, o)' = StakesOf(v, o)
                    /\ ActiveTotal(v, o)' = ActiveTotal(v, o)
                    /\ SameCalls(v, o)' = SameCalls(v, o)
      BY <1>2 DEF StakesOf, StakesIn, Exists, ActiveTotal, Active, SameCalls
    <2>2. QED
      BY <1>2, <2>1 DEF CallsKeepLimits
  <1>3. ASSUME UNCHANGED stakingVars \/ UNCHANGED vars
        PROVE  CallsKeepLimits'
    BY <1>2, <1>3 DEF stakingVars, rows, vars
  <1>4. ASSUME NEW p \in Pool, NEW row \in PoolRow,
               CreateStakingPool(p, row) \/ UpdateStakingPool(p, row)
        PROVE  CallsKeepLimits'
    BY <1>2, <1>4 DEF CreateStakingPool, UpdateStakingPool, AnAdminAsks
  <1>5. ASSUME NEW p \in Pool, CountStakes(p) \/ DeletePool(p)
        PROVE  CallsKeepLimits'
    BY <1>2, <1>5 DEF CountStakes, DeletePool, AnAdminAsks
  <1>6. ASSUME NEW c \in Caller, NEW u \in Staker, NEW p \in Pool, NEW amount \in Amount,
               CreateStakeRead(c, u, p, amount)
        PROVE  CallsKeepLimits'
    BY <1>6, CallReadKeepsLimits
  <1>7. ASSUME NEW c \in Caller, CreateStakeGoesOn(c)
        PROVE  CallsKeepLimits'
    BY <1>1, <1>2, <1>7, CallFailsKeepsLimits, CallCommitKeepsLimits
       DEF CreateStakeGoesOn, CreateStakeReads, ReadsWallet
  <1>8. ASSUME NEW k \in Settler, ListDueStakes(k) \/ SettleFails(k)
        PROVE  CallsKeepLimits'
    BY <1>2, <1>8 DEF ListDueStakes, SettleFails, rows
  <1>9. ASSUME NEW k \in Settler, NEW s \in Stake,
               \/ SettleSkips(k, s) \/ SettleRead(k, s)
               \/ SettleReadOwner(k, s) \/ SettleReadTreasury(k, s)
        PROVE  CallsKeepLimits'
    BY <1>2, <1>9
       DEF SettleSkips, SettleRead, SettleReadOwner, SettleReadTreasury, ReadsWallet, rows
  <1>10. ASSUME NEW k \in Settler, NEW s \in Stake, SettleCommit(k, s)
         PROVE  CallsKeepLimits'
    BY <1>1, <1>10, SettleCommitKeepsLimits
  <1>11. ASSUME Tick
         PROVE  CallsKeepLimits'
    BY <1>11, TickKeepsLimits
  <1>12. QED
    BY <1>3, <1>4, <1>5, <1>6, <1>7, <1>8, <1>9, <1>10, <1>11 DEF Next, Serves

\* At first there is no call.
LEMMA LimitsInit == Init => CallsKeepLimits
  BY DEF Init, CallsKeepLimits, SameCalls

\* A call that no other call of the user for the pool overlapped keeps the
\* cap and the cooldown it has read.
THEOREM LimitsKeptAloneHolds == Spec => LimitsKeptAlone
  <1> DEFINE Kept ==
        \A s \in Stake, c \in Caller, u \in User, p \in Pool :
          /\ ~Exists(s) /\ Exists(s)'
          /\ c \in SameCalls(u, p) /\ call'[c] = Idle /\ ~call[c].raced
          => /\ ActiveTotal(u, p)' <= call[c].terms.cap
             /\ \A z \in StakesOf(u, p) :
                  stake'[s].startedAt - stake[z].startedAt >= call[c].terms.cooldown
  <1>1. Init => Stand /\ CallsKeepLimits
    BY StandInit, LimitsInit
  <1>2. Stand /\ CallsKeepLimits /\ [Next]_vars => (Stand /\ CallsKeepLimits)'
    BY StandNext, LimitsNext
  <1>3. Stand /\ CallsKeepLimits /\ [Next]_vars => [Kept]_vars
    <2> SUFFICES ASSUME Stand, CallsKeepLimits, [Next]_vars,
                        NEW s \in Stake, NEW c \in Caller, NEW u \in User, NEW p \in Pool,
                        ~Exists(s), Exists(s)', c \in SameCalls(u, p), call'[c] = Idle,
                        ~call[c].raced
                 PROVE  /\ ActiveTotal(u, p)' <= call[c].terms.cap
                        /\ \A z \in StakesOf(u, p) :
                             stake'[s].startedAt - stake[z].startedAt >= call[c].terms.cooldown
      BY DEF Kept
    <2>1. TypeOK'
      BY StandNext DEF Stand
    <2>2. stake' # stake
      BY DEF Exists
    <2>3. ASSUME NEW k \in Settler, NEW r \in Stake, SettleRead(k, r) \/ SettleCommit(k, r)
          PROVE  FALSE
      <3>1. CASE SettleRead(k, r)
        BY <2>2, <3>1 DEF SettleRead, rows
      <3>2. CASE SettleCommit(k, r)
        BY <3>2, SettleWrites DEF Settles
      <3>3. QED
        BY <2>3, <3>1, <3>2
    <2>4. PICK d \in Caller, r \in Stake : CreateStakeCommit(d, r)
      BY <2>2, <2>3, StepKinds
    <2>5. NewStake(d, r)
      BY <2>4, CommitWrites
    <2>6. r = s
      BY <2>5 DEF NewStake
    <2>7. d = c
      BY <2>4 DEF CreateStakeCommit, EndsCall, SameCalls, Stand, TypeOK
    <2>8. /\ call[c].user = u /\ call[c].pool = p
          /\ stake'[s].startedAt = now
      BY <2>5, <2>6 DEF SameCalls, NewStake
    <2>9. ActiveTotal(u, p)' = ActiveTotal(u, p) + call[c].amount
      BY <2>1, <2>5, <2>7, <2>8, NewStakeLocks
    <2>10. QED
      BY <2>8, <2>9 DEF CallsKeepLimits
  <1>4. QED
    BY <1>1, <1>2, <1>3, PTL DEF Spec, LimitsKeptAlone, Kept

-----------------------------------------------------------------------------
(* The ledger is explained by stakes and fees, balances by the ledger. *)

EntriesMatch ==
    \A u \in User :
      SumFunctionOnSet(entries[u], Asset) = SumFunctionOnSet(Brought(u), Stake)

\* How far an amount is from what the entries of the wallet come to.
Drift(u, asset, amount) == amount - (InitialBalance + entries[u][asset])

DriftInv ==
    \A u \in User, asset \in Asset :
      /\ Drift(u, asset, balance[u][asset]) \in -exposed[u][asset]..exposed[u][asset]
      /\ \A t \in Txn : Saw(t, u, asset) =>
           Drift(u, asset, seen[t][u][asset]) \in -exposed[u][asset]..exposed[u][asset]

\* How often a value occurs in a sequence, and in one that has grown by one.
LEMMA TimesAppend ==
  ASSUME NEW T, NEW q \in Seq(T), NEW v
  PROVE  /\ Times(v, q) \in Nat
         /\ \A e \in T : Times(v, Append(q, e)) = Times(v, q) + (IF e = v THEN 1 ELSE 0)
  <1> DEFINE n   == Len(q)
             old == {i \in DOMAIN q : q[i] = v}
  <1>1. n \in Nat /\ DOMAIN q = 1..n
    OBVIOUS
  <1> HIDE DEF n
  <1>2. old \subseteq 1..n /\ n + 1 \notin old
    BY <1>1
  <1>3. IsFiniteSet(old) /\ Cardinality(old) \in Nat
    <2>1. IsFiniteSet(1..n)
      BY <1>1, FS_Interval
    <2>2. QED
      BY <1>2, <2>1, FS_Subset, FS_CardinalityType
  <1>4. Times(v, q) = Cardinality(old)
    BY DEF Times
  <1>5. ASSUME NEW e \in T
        PROVE  Times(v, Append(q, e)) = Times(v, q) + (IF e = v THEN 1 ELSE 0)
    <2> DEFINE new == {i \in DOMAIN Append(q, e) : Append(q, e)[i] = v}
    <2>1. /\ DOMAIN Append(q, e) = 1..(n + 1)
          /\ \A i \in 1..n : Append(q, e)[i] = q[i]
          /\ Append(q, e)[n + 1] = e
      BY DEF n
    <2>2. new = IF e = v THEN old \cup {n + 1} ELSE old
      BY <1>1, <2>1
    <2>3. Times(v, Append(q, e)) = Cardinality(new)
      BY DEF Times
    <2> HIDE DEF old, new
    <2>4. Cardinality(old \cup {n + 1}) = Cardinality(old) + 1
      BY <1>2, <1>3, FS_AddElement
    <2>5. CASE e = v
      BY <1>4, <2>2, <2>3, <2>4, <2>5
    <2>6. CASE e # v
      BY <1>3, <1>4, <2>2, <2>3, <2>6
    <2>7. QED
      BY <2>5, <2>6
  <1>6. QED
    BY <1>3, <1>4, <1>5

\* What a stake has brought a user is a number.
BroughtNumbers ==
    \A u \in User, s \in Stake : Brought(u)[s] \in Int

\* The parts of it, for a stake that is there.
LEMMA BroughtParts ==
  ASSUME TypeOK, NEW u \in User, NEW s \in Stake, Exists(s)
  PROVE  /\ stake[s].amount \in Nat
         /\ Net(stake[s].amount, stake[s].terms) \in Nat
         /\ Fee(stake[s].amount, stake[s].terms) \in Nat
         /\ Len(paid[s]) \in Nat
         /\ Times(u, fees[s]) \in Nat
  <1>1. stake[s].amount \in Amount /\ stake[s].terms \in Terms
    BY RowKinds DEF UserStake
  <1>2. /\ stake[s].amount \in Nat
        /\ Net(stake[s].amount, stake[s].terms) \in Nat
        /\ Fee(stake[s].amount, stake[s].terms) \in Nat
    BY <1>1, StakingAssumption
  <1>3. paid[s] \in Seq(Asset) /\ fees[s] \in Seq(User)
    BY DEF TypeOK
  <1>4. Times(u, fees[s]) \in Nat
    BY <1>3, TimesAppend
  <1>5. QED
    BY <1>2, <1>3, <1>4

\* What each stake has brought is a number.
LEMMA BroughtIsNumber == TypeOK => BroughtNumbers
  <1> SUFFICES ASSUME TypeOK, NEW u \in User, NEW s \in Stake
               PROVE  Brought(u)[s] \in Int
    BY DEF BroughtNumbers
  <1>1. CASE ~Exists(s)
    BY <1>1 DEF Brought
  <1>2. CASE Exists(s)
    <2> DEFINE a == stake[s].amount
               m == a + Net(a, stake[s].terms)
               f == Fee(a, stake[s].terms)
               n == Len(paid[s])
               g == Times(u, fees[s])
    <2>1. a \in Nat /\ m \in Nat /\ f \in Nat /\ n \in Nat /\ g \in Nat
      BY <1>2, BroughtParts
    <2>2. Brought(u)[s] = (IF stake[s].user = u THEN n * m - a ELSE 0) + g * f
      BY <1>2 DEF Brought
    <2> HIDE DEF a, m, f, n, g
    <2>3. n * m \in Nat /\ g * f \in Nat
      BY <2>1
    <2>4. QED
      BY <2>1, <2>2, <2>3
  <1>3. QED
    BY <1>1, <1>2

\* The entries of one user move with what one of the stakes has brought him.
LEMMA FundsMove ==
  ASSUME TypeOK, TypeOK', EntriesMatch, NEW s \in Stake, NEW u \in User, NEW c \in Asset,
         \A z \in Stake : z # s => Brought(u)'[z] = Brought(u)[z],
         \A d \in Asset : d # c => entries'[u][d] = entries[u][d],
         entries'[u][c] - entries[u][c] = Brought(u)'[s] - Brought(u)[s]
  PROVE  SumFunctionOnSet(entries'[u], Asset) = SumFunctionOnSet(Brought(u)', Stake)
  <1>1. BroughtNumbers /\ BroughtNumbers'
    BY BroughtIsNumber, PTL
  <1>2. \A z \in Stake : Brought(u)[z] \in Int /\ Brought(u)'[z] \in Int
    BY <1>1 DEF BroughtNumbers
  <1>3. \A d \in Asset : entries[u][d] \in Int /\ entries'[u][d] \in Int
    BY DEF TypeOK
  <1>4. IsFiniteSet(Asset) /\ IsFiniteSet(Stake)
    BY StakingAssumption
  <1>5. SumFunctionOnSet(Brought(u)', Stake)
          = SumFunctionOnSet(Brought(u), Stake) + Brought(u)'[s] - Brought(u)[s]
    BY <1>2, <1>4, SumPoint
  <1>6. SumFunctionOnSet(entries'[u], Asset)
          = SumFunctionOnSet(entries[u], Asset) + entries'[u][c] - entries[u][c]
    BY <1>3, <1>4, SumPoint
  <1>7. SumFunctionOnSet(entries[u], Asset) = SumFunctionOnSet(Brought(u), Stake)
    BY DEF EntriesMatch
  <1>8. SumFunctionOnSet(entries[u], Asset) \in Int /\ SumFunctionOnSet(Brought(u), Stake) \in Int
    BY <1>2, <1>3, <1>4, SumInt
  <1>9. QED
    BY <1>2, <1>3, <1>5, <1>6, <1>7, <1>8

\* What is locked is what the ledger has taken.
LEMMA CallCommitKeepsFunds ==
  ASSUME Stand, TypeOK', EntriesMatch,
         NEW c \in Caller, NEW s \in Stake, CreateStakeCommit(c, s)
  PROVE  EntriesMatch'
  <1> DEFINE user   == call[c].user
             asset  == call[c].asset
             amount == call[c].amount
  <1>1. NewStake(c, s) /\ TypeOK
    BY CommitWrites DEF Stand
  <1>2. Commits(<<"call", c>>, asset, Debits(user, amount)) /\ UNCHANGED <<paid, fees>>
    BY DEF CreateStakeCommit, Debits
  <1>3. user \in User /\ asset \in Asset /\ amount \in Nat
    BY <1>1, StakingAssumption DEF NewStake, OpenCall
  <1>4. ASSUME NEW u \in User
        PROVE  SumFunctionOnSet(entries'[u], Asset) = SumFunctionOnSet(Brought(u)', Stake)
    <2>1. \A z \in Stake : z # s => Brought(u)'[z] = Brought(u)[z]
      BY <1>1, <1>2 DEF NewStake, Brought
    <2>2. /\ \A d \in Asset : d # asset => entries'[u][d] = entries[u][d]
          /\ entries'[u][asset] = entries[u][asset] + Debits(user, amount)[u]
      <3>1. <<"call", c>> \in Txn /\ Debits(user, amount) \in [User -> Int]
        BY <1>3 DEF Txn, Debits
      <3>2. QED
        BY <1>1, <1>2, <1>3, <3>1, CommitWallets
    <2>3. entries[u][asset] \in Int
      BY <1>1, <1>3 DEF TypeOK
    <2>4. entries'[u][asset] = IF u = user THEN entries[u][asset] - amount
                               ELSE entries[u][asset]
      BY <1>3, <2>2, <2>3 DEF Debits
    <2>5. Brought(u)[s] = 0
      BY <1>1 DEF NewStake, Brought
    <2>6. Brought(u)'[s] = IF u = user THEN -amount ELSE 0
      <3> DEFINE m == stake'[s].amount + Net(stake'[s].amount, stake'[s].terms)
                 f == Fee(stake'[s].amount, stake'[s].terms)
                 n == Len(paid'[s])
                 g == Times(u, fees'[s])
      <3>1. Exists(s)' /\ stake'[s].user = user /\ stake'[s].amount = amount
        BY <1>1 DEF NewStake
      <3>2. Brought(u)'[s] = (IF user = u THEN n * m - amount ELSE 0) + g * f
        BY <3>1 DEF Brought
      <3>3. n = 0
        BY <1>1, <1>2 DEF NewStake
      <3>4. g = 0
        <4>1. {i \in DOMAIN fees'[s] : fees'[s][i] = u} = {}
          BY <1>1, <1>2 DEF NewStake
        <4>2. QED
          BY <4>1, FS_EmptySet DEF Times
      <3>5. stake'[s].amount \in Amount /\ stake'[s].terms \in Terms
        BY <1>1 DEF NewStake, UserStake
      <3>6. m \in Nat /\ f \in Nat
        BY <1>3, <3>1, <3>5, StakingAssumption
      <3> HIDE DEF m, f, n, g
      <3>7. n * m = 0 /\ g * f = 0
        BY <3>3, <3>4, <3>6
      <3>8. QED
        BY <1>3, <3>2, <3>7
    <2>7. entries'[u][asset] - entries[u][asset] = Brought(u)'[s] - Brought(u)[s]
      BY <1>3, <2>3, <2>4, <2>5, <2>6
    <2>8. QED
      BY <1>1, <1>3, <2>1, <2>2, <2>7, FundsMove
  <1>5. QED
    BY <1>4 DEF EntriesMatch

\* What is paid out is what the stake has brought.
LEMMA SettleCommitKeepsFunds ==
  ASSUME Stand, TypeOK', EntriesMatch,
         NEW k \in Settler, NEW s \in Stake, SettleCommit(k, s)
  PROVE  EntriesMatch'
  <1>1. PICK asset, t : Settles(k, s, asset, t)
    BY SettleWrites
  <1>2. TypeOK
    BY DEF Stand
  <1>3. ASSUME NEW u \in User
        PROVE  SumFunctionOnSet(entries'[u], Asset) = SumFunctionOnSet(Brought(u)', Stake)
    <2>1. \A z \in Stake : z # s => Brought(u)'[z] = Brought(u)[z]
      <3>1. \A z \in Stake : z # s => /\ paid'[z] = paid[z] /\ fees'[z] = fees[z]
                                      /\ stake'[z] = stake[z] /\ (Exists(z)' <=> Exists(z))
        BY <1>1, <1>2 DEF Settles, TypeOK
      <3>2. QED
        BY <3>1 DEF Brought
    <2>2. <<"round", k>> \in Txn /\ Pays(s, t) \in [User -> Int] /\ Pays(s, t)[u] = Gets(u, s, t)
      BY <1>1 DEF Settles, Pays, Txn
    <2>3. asset \in Asset /\ entries[u] \in [Asset -> Int]
      BY <1>1, <1>2 DEF Settles, TypeOK
    <2>4. /\ \A d \in Asset : d # asset => entries'[u][d] = entries[u][d]
          /\ entries'[u][asset] = entries[u][asset] + Gets(u, s, t)
      <3>1. Commits(<<"round", k>>, asset, Pays(s, t))
        BY <1>1 DEF Settles
      <3>2. QED
        BY <1>2, <2>2, <2>3, <3>1, CommitWallets
    <2>5. Brought(u)'[s] = Brought(u)[s] + Gets(u, s, t)
      <3> DEFINE a == stake[s].amount
                 m == a + Net(a, stake[s].terms)
                 f == Fee(a, stake[s].terms)
                 n == Len(paid[s])
                 g == Times(u, fees[s])
                 h == Times(u, fees'[s])
                 fee == IF u = t /\ FeeIsCredited(s, t) THEN 1 ELSE 0
      <3>1. /\ Exists(s) /\ Exists(s)' /\ stake'[s].user = stake[s].user
            /\ stake'[s].amount = a /\ stake'[s].terms = stake[s].terms
        BY <1>1 DEF Settles, Existing
      <3>2. a \in Nat /\ m \in Nat /\ f \in Nat /\ n \in Nat /\ g \in Nat
        <4>1. a \in Nat /\ Net(a, stake[s].terms) \in Nat
          BY <1>2, <3>1, BroughtParts
        <4>2. f \in Nat /\ n \in Nat /\ g \in Nat
          BY <1>2, <3>1, BroughtParts
        <4>3. QED
          BY <4>1, <4>2
      <3>3. Brought(u)[s] = (IF stake[s].user = u THEN n * m - a ELSE 0) + g * f
        BY <3>1 DEF Brought
      <3>4. paid'[s] = Append(paid[s], asset) /\ paid[s] \in Seq(Asset)
        BY <1>1, <1>2 DEF Settles, TypeOK
      <3>5. Len(paid'[s]) = n + 1
        BY <3>4
      <3>6. Brought(u)'[s] = (IF stake[s].user = u THEN (n + 1) * m - a ELSE 0) + h * f
        BY <3>1, <3>5 DEF Brought
      <3>7. h = g + fee
        <4>1. fees'[s] = (IF FeeIsCredited(s, t) THEN Append(fees[s], t) ELSE fees[s])
              /\ fees[s] \in Seq(User)
          BY <1>1, <1>2 DEF Settles, TypeOK
        <4>2. CASE FeeIsCredited(s, t)
          <5>1. t \in User
            BY <1>1, <4>2 DEF Settles, FeeIsCredited
          <5>2. Times(u, Append(fees[s], t)) = g + (IF t = u THEN 1 ELSE 0)
            BY <4>1, <5>1, TimesAppend
          <5>3. fees'[s] = Append(fees[s], t)
            BY <4>1, <4>2
          <5>4. h = g + (IF t = u THEN 1 ELSE 0)
            BY <5>2, <5>3
          <5>5. QED
            BY <4>2, <5>4
        <4>3. CASE ~FeeIsCredited(s, t)
          BY <3>2, <4>1, <4>3
        <4>4. QED
          BY <4>2, <4>3
      <3>8. Gets(u, s, t) = (IF stake[s].user = u THEN m ELSE 0) + fee * f
        <4>1. /\ NetOf(s) = Net(a, stake[s].terms) /\ FeeOf(s) = f
          BY DEF NetOf, FeeOf, LockTerms
        <4>2. fee * f = IF u = t /\ FeeIsCredited(s, t) THEN f ELSE 0
          <5> HIDE DEF f
          <5>1. QED
            BY <3>2
        <4>3. QED
          BY <4>1, <4>2 DEF Gets
      <3>9. fee \in {0, 1}
        OBVIOUS
      <3> HIDE DEF a, m, f, n, g, h, fee
      <3>10. (n + 1) * m = n * m + m /\ (g + fee) * f = g * f + fee * f
        BY <3>2, <3>9
      <3>11. n * m \in Nat /\ g * f \in Nat /\ fee * f \in Nat
        BY <3>2, <3>9
      <3>12. QED
        BY <3>2, <3>3, <3>6, <3>7, <3>8, <3>10, <3>11
    <2>6. Brought(u)[s] \in Int /\ Gets(u, s, t) \in Nat
      BY <1>1, <1>2, BroughtIsNumber DEF BroughtNumbers, Settles
    <2>7. entries'[u][asset] - entries[u][asset] = Brought(u)'[s] - Brought(u)[s]
      BY <2>3, <2>4, <2>5, <2>6
    <2>8. QED
      BY <1>2, <2>1, <2>3, <2>4, <2>7, FundsMove
  <1>4. QED
    BY <1>3 DEF EntriesMatch

\* A commit moves what others have seen by what it writes, and exposes as much.
LEMMA CommittingKeepsDrift ==
  ASSUME TypeOK, DriftInv, NEW t \in Txn, NEW asset \in Asset, NEW gets \in [User -> Int],
         Commits(t, asset, gets), Forgets(t)
  PROVE  DriftInv'
  <1>1. ASSUME NEW u \in User, NEW d \in Asset
        PROVE  /\ InitialBalance \in Int /\ balance[u][d] \in Int /\ entries[u][d] \in Int
               /\ exposed[u][d] \in Nat
               /\ \A o \in Txn : Saw(o, u, d) => seen[o][u][d] \in Int
    BY StakingAssumption DEF TypeOK, Saw
  <1>2. \A o \in Txn, u \in User, d \in Asset :
          Saw(o, u, d)' => o # t /\ Saw(o, u, d) /\ seen'[o][u][d] = seen[o][u][d]
    BY DEF TypeOK, Forgets, Saw, Nothing
  <1>3. ASSUME NEW u \in User, NEW d \in Asset
        PROVE  /\ Drift(u, d, balance[u][d])' \in -exposed'[u][d]..exposed'[u][d]
               /\ \A o \in Txn : Saw(o, u, d)' =>
                    Drift(u, d, seen[o][u][d])' \in -exposed'[u][d]..exposed'[u][d]
    <2>1. CASE d # asset
      <3>1. /\ balance'[u][d] = balance[u][d] /\ entries'[u][d] = entries[u][d]
            /\ exposed'[u][d] = exposed[u][d]
        BY <2>1, CommitWallets
      <3>2. QED
        BY <1>2, <3>1 DEF DriftInv, Drift
    <2>2. CASE d = asset
      <3> DEFINE b == balance[u][asset]
                 e == entries[u][asset]
                 x == exposed[u][asset]
                 y == exposed'[u][asset]
                 g == gets[u]
      <3>1. /\ entries'[u][asset] = e + g
            /\ g = 0 => balance'[u][asset] = b
            /\ g # 0 => /\ Saw(t, u, asset)
                        /\ balance'[u][asset] = seen[t][u][asset] + g
            /\ y = IF \E o \in Txn \ {t} : Saw(o, u, asset) THEN x + Size(g) ELSE x
        BY CommitWallets
      <3>2. /\ b \in Int /\ e \in Int /\ x \in Nat /\ InitialBalance \in Int /\ g \in Int
            /\ \A o \in Txn : Saw(o, u, asset) => seen[o][u][asset] \in Int
        BY <1>1
      <3>3. /\ b - (InitialBalance + e) \in -x..x
            /\ \A o \in Txn : Saw(o, u, asset) =>
                 seen[o][u][asset] - (InitialBalance + e) \in -x..x
        BY DEF DriftInv, Drift
      <3> HIDE DEF b, e, x, y, g
      <3>4. Size(g) \in Nat /\ -Size(g) <= g /\ g <= Size(g)
        BY <3>2 DEF Size
      <3>5. y \in Nat /\ x <= y
        BY <3>1, <3>2, <3>4
      <3>6. balance'[u][asset] - (InitialBalance + (e + g)) \in -y..y
        <4>1. CASE g = 0
          BY <3>1, <3>2, <3>3, <3>5, <4>1
        <4>2. CASE g # 0
          BY <3>1, <3>2, <3>3, <3>5, <4>2
        <4>3. QED
          BY <4>1, <4>2
      <3>7. ASSUME NEW o \in Txn, Saw(o, u, asset)'
            PROVE  seen'[o][u][asset] - (InitialBalance + (e + g)) \in -y..y
        <4>1. o # t /\ Saw(o, u, asset) /\ seen'[o][u][asset] = seen[o][u][asset]
          BY <1>2, <3>7
        <4>2. y = x + Size(g)
          BY <3>1, <4>1
        <4>3. /\ seen[o][u][asset] \in Int
              /\ seen[o][u][asset] - (InitialBalance + e) \in -x..x
          BY <3>2, <3>3, <4>1
        <4>4. QED
          BY <3>2, <3>4, <4>1, <4>2, <4>3
      <3>8. /\ Drift(u, asset, balance[u][asset])' \in -exposed'[u][asset]..exposed'[u][asset]
            /\ \A o \in Txn : Saw(o, u, asset)' =>
                 Drift(u, asset, seen[o][u][asset])' \in -exposed'[u][asset]..exposed'[u][asset]
        BY <3>1, <3>6, <3>7 DEF Drift, y
      <3>9. QED
        BY <2>2, <3>8
    <2>3. QED
      BY <2>1, <2>2
  <1>4. QED
    BY <1>3 DEF DriftInv

\* What is read is no further from the entries than the wallet is.
LEMMA ReadingKeepsDrift ==
  ASSUME TypeOK, DriftInv, NEW t \in Txn, NEW u \in User, NEW asset \in Asset,
         ReadsWallet(t, u, asset)
  PROVE  DriftInv'
  <1>1. /\ seen'[t][u][asset] = balance[u][asset]
        /\ \A o \in Txn, v \in User, d \in Asset :
             <<o, v, d>> # <<t, u, asset>> => seen'[o][v][d] = seen[o][v][d]
        /\ UNCHANGED <<balance, entries, exposed>>
    <2>1. UNCHANGED <<balance, entries, exposed>>
      BY DEF ReadsWallet
    <2>2. QED
      BY <2>1, ReadingKeepsTypes
  <1>2. ASSUME NEW v \in User, NEW d \in Asset, NEW o \in Txn, Saw(o, v, d)'
        PROVE  Drift(v, d, seen[o][v][d])' \in -exposed[v][d]..exposed[v][d]
    <2>1. CASE <<o, v, d>> = <<t, u, asset>>
      BY <1>1, <2>1 DEF DriftInv, Drift
    <2>2. CASE <<o, v, d>> # <<t, u, asset>>
      BY <1>1, <1>2, <2>2 DEF DriftInv, Drift, Saw
    <2>3. QED
      BY <2>1, <2>2
  <1>3. QED
    BY <1>1, <1>2 DEF DriftInv, Drift

\* A transaction that ends without a commit leaves the wallets as they are.
LEMMA ForgettingKeepsDrift ==
  ASSUME TypeOK, DriftInv, NEW t \in Txn, Forgets(t), UNCHANGED <<balance, entries, exposed>>
  PROVE  DriftInv'
  <1>1. \A o \in Txn, u \in User, d \in Asset :
          Saw(o, u, d)' => Saw(o, u, d) /\ seen'[o][u][d] = seen[o][u][d]
    BY DEF TypeOK, Forgets, Saw, Nothing
  <1>2. QED
    BY <1>1 DEF DriftInv, Drift

\* At first nobody has got anything.
LEMMA FundsInit == Init => EntriesMatch /\ DriftInv
  <1> SUFFICES ASSUME Init PROVE EntriesMatch /\ DriftInv
    OBVIOUS
  <1>1. ASSUME NEW u \in User
        PROVE  SumFunctionOnSet(entries[u], Asset) = SumFunctionOnSet(Brought(u), Stake)
    <2>1. \A s \in Stake : Brought(u)[s] = 0
      BY DEF Init, Exists, Brought
    <2>2. SumFunctionOnSet(Brought(u), Stake) = 0
      BY <2>1, StakesFinite, SumZero
    <2>3. \A c \in Asset : entries[u][c] = 0
      BY DEF Init
    <2>4. SumFunctionOnSet(entries[u], Asset) = 0
      BY <2>3, StakingAssumption, SumZero
    <2>5. QED
      BY <2>2, <2>4
  <1>2. DriftInv
    BY StakingAssumption DEF Init, DriftInv, Drift, Saw, Nothing
  <1>3. QED
    BY <1>1, <1>2 DEF EntriesMatch

\* Steps that move no money.
LEMMA NoMoneyKeepsFunds ==
  ASSUME TypeOK, EntriesMatch, DriftInv, NoMoneyMoves, UNCHANGED <<stake, paid, fees>>
  PROVE  EntriesMatch' /\ DriftInv'
  <1>1. \A u : Brought(u)' = Brought(u)
    BY DEF Brought, Exists
  <1>2. UNCHANGED entries
    BY DEF NoMoneyMoves, wallets, ReadsWallet
  <1>3. EntriesMatch'
    BY <1>1, <1>2 DEF EntriesMatch
  <1>4. ASSUME UNCHANGED wallets PROVE DriftInv'
    <2>1. /\ balance' = balance /\ entries' = entries
          /\ exposed' = exposed /\ seen' = seen
      BY <1>4 DEF wallets
    <2>2. QED
      BY <2>1 DEF DriftInv, Drift, Saw
  <1>5. DriftInv'
    BY <1>4, ForgettingKeepsDrift, ReadingKeepsDrift DEF NoMoneyMoves
  <1>6. QED
    BY <1>3, <1>5

\* Every step keeps the funds and the stakes together.
LEMMA FundsNext ==
  Stand /\ EntriesMatch /\ DriftInv /\ [Next]_vars => EntriesMatch' /\ DriftInv'
  <1> SUFFICES ASSUME Stand, EntriesMatch, DriftInv, [Next]_vars
               PROVE  EntriesMatch' /\ DriftInv'
    OBVIOUS
  <1>1. TypeOK /\ TypeOK'
    BY StandNext DEF Stand
  <1>2. ASSUME NoMoneyMoves, UNCHANGED <<stake, paid, fees>>
        PROVE  EntriesMatch' /\ DriftInv'
    BY <1>1, <1>2, NoMoneyKeepsFunds
  <1>3. ASSUME NEW k \in Settler, NEW s \in Stake, SettleRead(k, s) \/ SettleCommit(k, s)
        PROVE  EntriesMatch' /\ DriftInv'
    <2>1. CASE SettleRead(k, s)
      BY <1>2, <2>1 DEF SettleRead, rows, NoMoneyMoves
    <2>2. CASE SettleCommit(k, s)
      <3>1. PICK asset, u : Settles(k, s, asset, u)
        BY <2>2, SettleWrites
      <3>2. <<"round", k>> \in Txn /\ Pays(s, u) \in [User -> Int]
        BY <3>1 DEF Settles, Pays, Txn
      <3>3. DriftInv'
        BY <1>1, <3>1, <3>2, CommittingKeepsDrift DEF Settles
      <3>4. QED
        BY <1>1, <2>2, <3>3, SettleCommitKeepsFunds
    <2>3. QED
      BY <1>3, <2>1, <2>2
  <1>4. ASSUME NEW c \in Caller, NEW s \in Stake, CreateStakeCommit(c, s)
        PROVE  EntriesMatch' /\ DriftInv'
    <2>1. /\ Commits(<<"call", c>>, call[c].asset, Debits(call[c].user, call[c].amount))
          /\ Forgets(<<"call", c>>)
      BY <1>4 DEF CreateStakeCommit, EndsCall, Debits
    <2>2. call[c] \in OpenCall
      BY <1>4, CommitWrites DEF NewStake
    <2>3. /\ <<"call", c>> \in Txn /\ call[c].asset \in Asset
          /\ Debits(call[c].user, call[c].amount) \in [User -> Int]
      <3>1. call[c].asset \in Asset /\ call[c].amount \in Nat
        BY <2>2, StakingAssumption DEF OpenCall
      <3>2. Debits(call[c].user, call[c].amount) \in [User -> Int]
        BY <3>1 DEF Debits
      <3>3. QED
        BY <3>1, <3>2 DEF Txn
    <2>4. DriftInv'
      BY <1>1, <2>1, <2>3, CommittingKeepsDrift
    <2>5. QED
      BY <1>1, <1>4, <2>4, CallCommitKeepsFunds
  <1>5. QED
    BY <1>2, <1>3, <1>4, StepKinds

\* The entries of every user are what his stakes have brought and the fees that
\* were his to receive, and every balance is as far from its entries as what
\* was committed beside another reader allows.
THEOREM FundsMatchStakesHolds == Spec => []FundsMatchStakes
  <1>1. Init => Stand /\ EntriesMatch /\ DriftInv
    BY StandInit, FundsInit
  <1>2. Stand /\ EntriesMatch /\ DriftInv /\ [Next]_vars
          => (Stand /\ EntriesMatch /\ DriftInv)'
    BY StandNext, FundsNext
  <1>3. EntriesMatch /\ DriftInv => FundsMatchStakes
    BY DEF EntriesMatch, DriftInv, Drift, FundsMatchStakes
  <1>4. QED
    BY <1>1, <1>2, <1>3, PTL DEF Spec

=============================================================================
