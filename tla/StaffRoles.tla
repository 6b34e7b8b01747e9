----------------------------- MODULE StaffRoles -----------------------------
(***************************************************************************)
(* Staff roles: staff-role.service and adminMiddleware.                    *)
(*                                                                         *)
(* A Request of the roles page passes requireAdmin, which reads the        *)
(* actor's rights, and goes on in later statements that do not look at     *)
(* them again.  To assign TREASURY is a transaction of two statements on   *)
(* READ COMMITTED: deleteMany takes the rows committed when it starts,     *)
(* waits for those another transaction has locked, and skips those that    *)
(* are gone by then; the upsert inserts a row the other deletes have not   *)
(* seen.  Deletes of shared rows wait for each other, which orders their   *)
(* commits; a lock outlives its transaction nowhere.                       *)
(*                                                                         *)
(* No code writes User.isBlacklisted: it is a constant here.               *)
(***************************************************************************)
EXTENDS Integers, FiniteSets, FiniteSetsExt

CONSTANTS
    User,
    Role,         \* StaffRole: ADMIN, TREASURY, AGENT
    EmailAdmin,   \* ADMIN_EMAILS: administrators without a row
    Blacklisted,  \* User.isBlacklisted
    PlatformFees, \* PLATFORM_STAKING_FEES_USER_ID, None when not configured
    FirstRoles,   \* rows of UserStaffRole to begin with
    Request,      \* 1..n: requests of the roles page served at the same time
    None,
    MaxChanges    \* bound: requests of administrators that are let in

\* There is an administrator to begin with, and no two treasuries.
ASSUME StaffAssumption ==
    /\ FirstRoles \subseteq User \X Role
    /\ \E u \in User : u \in EmailAdmin \/ <<u, "ADMIN">> \in FirstRoles
    /\ \A u, v \in User :
         <<u, "TREASURY">> \in FirstRoles /\ <<v, "TREASURY">> \in FirstRoles => u = v
    /\ PlatformFees \in User \cup {None}
    /\ MaxChanges \in Nat

VARIABLES
    roles,      \* UserStaffRole: pairs of a user and a role
    request,    \* what each request is at
    overlapped, \* history: the last assignments of TREASURY overlapped
    crossed,    \* history: an administrator was revoked by one who no longer was
    changes     \* requests of administrators let in so far

staffVars == <<roles, request, overlapped, crossed, changes>>

NoRequest == [step |-> "idle"]
StaffRequest ==
    [step : {"assign", "insert", "revoke"}, actor : User \cup {None}, user : User,
     role : Role, seen : SUBSET User, alone : BOOLEAN]

Holders(role) == {u \in User : <<u, role>> \in roles}
Treasuries    == Holders("TREASURY")

StaffTypeOK ==
    /\ roles \subseteq User \X Role
    /\ request \in [Request -> {NoRequest} \cup StaffRequest]
    /\ overlapped \in BOOLEAN
    /\ crossed \in BOOLEAN
    /\ changes \in 0..MaxChanges

StaffInit ==
    /\ roles = FirstRoles
    /\ request = [q \in Request |-> NoRequest]
    /\ overlapped = FALSE
    /\ crossed = FALSE
    /\ changes = 0

-----------------------------------------------------------------------------

IsPlatformAdmin(u) == u \in EmailAdmin \/ <<u, "ADMIN">> \in roles

\* requireAdmin: what the middleware reads before the handler runs.
RequireAdmin(u) == u \notin Blacklisted /\ IsPlatformAdmin(u)

\* Slots are interchangeable: the first idle one is taken.
FirstIdle(slots) == IF slots = {} THEN None ELSE Min(slots)

\* Who asked is kept where it can still matter.
LetIn(q, step, actor, user, role) ==
    /\ changes < MaxChanges
    /\ changes' = changes + 1
    /\ q = FirstIdle({p \in Request : request[p] = NoRequest})
    /\ RequireAdmin(actor)
    /\ request' = [request EXCEPT ![q] =
         [step |-> step,
          actor |-> IF step = "revoke" /\ role = "ADMIN" THEN actor ELSE None,
          user |-> user, role |-> role, seen |-> {}, alone |-> TRUE]]
    /\ UNCHANGED <<roles, overlapped, crossed>>

\* USER_BLACKLISTED otherwise; also read before the transaction.
AssignStaffRole(q, actor, user, role) ==
    /\ user \notin Blacklisted
    /\ LetIn(q, "assign", actor, user, role)

\* CANNOT_REVOKE_OWN_ADMIN otherwise.
RevokeStaffRole(q, actor, user, role) ==
    /\ ~(actor = user /\ role = "ADMIN")
    /\ LetIn(q, "revoke", actor, user, role)

At(q, step) == request[q].step = step
Inserting   == {q \in Request : At(q, "insert")}

\* The open deletes that have taken these rows find them gone.
Gone(users, q) ==
    [p \in Request |->
       IF p = q THEN NoRequest
       ELSE IF p \in Inserting THEN [request[p] EXCEPT !.seen = @ \ users]
       ELSE request[p]]

\* Mutant: a new treasury does not replace the old one.
DeleteNoTreasuries(q) ==
    /\ At(q, "assign") /\ request[q].role = "TREASURY"
    /\ request' = [request EXCEPT ![q].step = "insert"]
    /\ UNCHANGED <<roles, overlapped, crossed, changes>>

\* deleteMany: the rows it takes; they go when the transaction commits.
DeleteTreasuries(q) ==
    /\ At(q, "assign") /\ request[q].role = "TREASURY"
    /\ request' = [p \in Request |->
         IF p = q THEN [request[q] EXCEPT !.step = "insert", !.seen = Treasuries,
                                          !.alone = (Inserting = {})]
         ELSE IF p \in Inserting THEN [request[p] EXCEPT !.alone = FALSE]
         ELSE request[p]]
    /\ UNCHANGED <<roles, overlapped, crossed, changes>>

\* The upsert, and the commit of what was deleted before it.
UpsertTreasury(q) ==
    /\ At(q, "insert")
    /\ roles' = (roles \ (request[q].seen \X {"TREASURY"}))
                \cup {<<request[q].user, "TREASURY">>}
    /\ request' = Gone(request[q].seen, q)
    /\ overlapped' = ~request[q].alone
    /\ UNCHANGED <<crossed, changes>>

UpsertRole(q) ==
    /\ At(q, "assign") /\ request[q].role # "TREASURY"
    /\ roles' = roles \cup {<<request[q].user, request[q].role>>}
    /\ request' = Gone({}, q)
    /\ UNCHANGED <<overlapped, crossed, changes>>

\* The row, if there is one (ROLE_NOT_FOUND), and if no open transaction is
\* about to delete it.
DeleteRole(q) ==
    /\ At(q, "revoke")
    /\ LET user == request[q].user
           role == request[q].role
       IN  /\ role = "TREASURY" => \A p \in Inserting : user \notin request[p].seen
           /\ roles' = roles \ {<<user, role>>}
           /\ request' = Gone({}, q)
           /\ crossed' = (crossed \/ (role = "ADMIN" /\ ~RequireAdmin(request[q].actor)))
    /\ UNCHANGED <<overlapped, changes>>

\* The statement fails or the process stops: the transaction is rolled back.
StaffRequestFails(q) ==
    /\ request[q] # NoRequest
    /\ request' = Gone({}, q)
    /\ UNCHANGED <<roles, overlapped, crossed, changes>>

StaffRequests ==
    \E q \in Request, actor, user \in User, role \in Role :
      AssignStaffRole(q, actor, user, role) \/ RevokeStaffRole(q, actor, user, role)

StaffStep(q) ==
    \/ DeleteTreasuries(q) \/ UpsertTreasury(q) \/ UpsertRole(q)
    \/ DeleteRole(q) \/ StaffRequestFails(q)

-----------------------------------------------------------------------------
(* Properties. *)

\* schema.prisma: one treasury at a time.  True of assignments that do not
\* overlap: the last one replaces whoever was there, also those that
\* overlapping ones have left.
OneTreasury ==
    Cardinality(Treasuries) <= 1 \/ overlapped

\* Somebody can always administer: nobody revokes himself, so only requests
\* that overlap, each revoking the actor of the other, leave no one.
AnAdminRemains ==
    \/ \E u \in User : IsPlatformAdmin(u)
    \/ crossed

=============================================================================
