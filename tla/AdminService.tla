----------------------------- MODULE AdminService -----------------------------
(***************************************************************************)
(* The administrative surface: policy versions, exemptions, identity       *)
(* overrides and admin roles, with the LTI launches that also write roles. *)
(* A handler authenticates in one database session, reads what it will     *)
(* change in another and commits later; nothing is locked in between.  The *)
(* ORM writes only the columns whose value differs from what was read, so  *)
(* two overlapping commits may each leave part of a row.                   *)
(***************************************************************************)
EXTENDS Naturals, Sequences, FiniteSets

CONSTANTS
    Admins,         \* possible AdminUser rows
    FirstRoles,     \* FirstRoles[a]: the role a holds at the start, or None
    Overrides,      \* possible override requests of one exam session
    Handlers,       \* requests in progress at a time
    Operations,     \* the operations clients use
    MaxRequests,    \* bound on requests
    None

AdminRoles == {"instructor", "proctor", "admin", "head"}

AllOperations == {"policy", "exempt", "request", "approve", "reject",
                  "role", "launch"}

Override == [status : {"pending", "approved", "rejected"},
             requester : Admins, decider : Admins \cup {None}]

ASSUME AdminAssumption ==
    /\ FirstRoles \in [Admins -> AdminRoles \cup {None}]
    /\ Operations \subseteq AllOperations
    /\ MaxRequests \in Nat
    /\ None \notin Admins \cup AdminRoles \cup Override

VARIABLES
    role,        \* admin_users.role, by admin
    audit,       \* admin_role_audits
    policies,    \* policy_configs of one name, in order of insertion
    exemptions,  \* admins who have approved an exemption
    overrides,   \* identity_verification_override_requests
    approvals,   \* <<request, admin>> of every approval committed so far
    handler,     \* what each request has read so far
    requests     \* number of requests begun

vars == <<role, audit, policies, exemptions, overrides, approvals, handler,
          requests>>

-----------------------------------------------------------------------------
Policy == [version : Nat, is_active : BOOLEAN, retired : BOOLEAN]

AuditRow == [target : Admins, by : Admins,
             previous : AdminRoles, new : AdminRoles]

Free == [op |-> "free"]

Handling ==
    {Free}
    \cup [op : {"auth"}, admin : Admins, role : AdminRoles]
    \cup [op : {"policy"}, previous : Nat, is_active : BOOLEAN,
          max_version : Nat \cup {None}]
    \cup [op : {"approve", "reject"}, admin : Admins, id : Overrides,
          seen : Override]
    \cup [op : {"role"}, admin : Admins, target : Admins, new : AdminRoles,
          seen : AdminRoles]
    \cup [op : {"launch"}, target : Admins, new : AdminRoles \ {"head"},
          seen : AdminRoles \cup {None}]

(* Every variable has its type.                                            *)
AdminTypeOK ==
    /\ role \in [Admins -> AdminRoles \cup {None}]
    /\ audit \subseteq AuditRow
    /\ policies \in Seq(Policy)
    /\ exemptions \subseteq Admins
    /\ overrides \in [Overrides -> Override \cup {None}]
    /\ approvals \subseteq Overrides \X Admins
    /\ handler \in [Handlers -> Handling]
    /\ requests \in 0..MaxRequests

Init ==
    /\ role = FirstRoles
    /\ audit = {}
    /\ policies = <<>>
    /\ exemptions = {}
    /\ overrides = [o \in Overrides |-> None]
    /\ approvals = {}
    /\ handler = [h \in Handlers |-> Free]
    /\ requests = 0

-----------------------------------------------------------------------------
Set(h, next) == handler' = [handler EXCEPT ![h] = next]

Begin(h, next) ==
    /\ handler[h] = Free
    /\ requests < MaxRequests
    /\ requests' = requests + 1
    /\ Set(h, next)

(* require_admin_role: the role is read from the row, in a session of its  *)
(* own, before the handler runs.                                           *)
require_admin_role(h, a) ==
    /\ role[a] # None
    /\ Begin(h, [op |-> "auth", admin |-> a, role |-> role[a]])
    /\ UNCHANGED <<role, audit, policies, exemptions, overrides, approvals>>

Authenticated(h, operation) == handler[h].op = "auth" /\ operation \in Operations

(* The request is refused, or its process dies, before it commits.         *)
Abandon(h) ==
    /\ handler[h] # Free
    /\ Set(h, Free)
    /\ UNCHANGED <<role, audit, policies, exemptions, overrides, approvals,
                   requests>>

(* The value a flush leaves in a column: it is written only if it differs  *)
(* from the value that was loaded.                                         *)
Flushed(new, seen, current) == IF new = seen THEN current ELSE new

-----------------------------------------------------------------------------
Active(p) == policies[p].is_active /\ ~policies[p].retired

_resolve_previous_active ==
    IF \E p \in DOMAIN policies : Active(p)
    THEN CHOOSE p \in DOMAIN policies : Active(p)
    ELSE 0

Versions == {policies[p].version : p \in DOMAIN policies}

_resolve_max_version ==
    IF Versions = {} THEN 0 ELSE CHOOSE v \in Versions : \A u \in Versions : u <= v

(* An active policy of the name must be retired explicitly.  Requests that *)
(* _validate_policy_request refuses are abandoned.                         *)
ReadPreviousPolicy(h, is_active, retire_previous) ==
    /\ Authenticated(h, "policy")
    /\ _resolve_previous_active # 0 => retire_previous
    /\ Set(h, [op |-> "policy", previous |-> _resolve_previous_active,
               is_active |-> is_active, max_version |-> None])
    /\ UNCHANGED <<role, audit, policies, exemptions, overrides, approvals,
                   requests>>

ReadMaxVersion(h) ==
    /\ handler[h].op = "policy" /\ handler[h].max_version = None
    /\ handler' = [handler EXCEPT ![h].max_version = _resolve_max_version]
    /\ UNCHANGED <<role, audit, policies, exemptions, overrides, approvals,
                   requests>>

(* uq_policy_configs_active_name, once the previous row is retired.        *)
ActiveNameTaken(previous) ==
    \E p \in DOMAIN policies : Active(p) /\ p # previous

Retire(previous) ==
    [p \in DOMAIN policies |->
        IF p = previous THEN [policies[p] EXCEPT !.retired = TRUE]
        ELSE policies[p]]

(* Mutant: a conflicting insert leaves the retirement committed.           *)
CommitPolicyKeepingRetirement(h) ==
    /\ handler[h].op = "policy" /\ handler[h].max_version # None
    /\ policies' =
         IF handler[h].is_active /\ ActiveNameTaken(handler[h].previous)
         THEN Retire(_resolve_previous_active)
         ELSE Append(Retire(handler[h].previous),
                     [version |-> handler[h].max_version + 1,
                      is_active |-> handler[h].is_active, retired |-> FALSE])
    /\ Set(h, Free)
    /\ UNCHANGED <<role, audit, exemptions, overrides, approvals, requests>>

(* Retirement and insert in one transaction; a conflict rolls both back.   *)
CommitPolicy(h) ==
    /\ handler[h].op = "policy" /\ handler[h].max_version # None
    /\ IF handler[h].is_active /\ ActiveNameTaken(handler[h].previous)
       THEN UNCHANGED policies
       ELSE policies' = Append(Retire(handler[h].previous),
                               [version |-> handler[h].max_version + 1,
                                is_active |-> handler[h].is_active,
                                retired |-> FALSE])
    /\ Set(h, Free)
    /\ UNCHANGED <<role, audit, exemptions, overrides, approvals, requests>>

create_exemption(h) ==
    /\ Authenticated(h, "exempt")
    /\ exemptions' = exemptions \cup {handler[h].admin}
    /\ Set(h, Free)
    /\ UNCHANGED <<role, audit, policies, overrides, approvals, requests>>

-----------------------------------------------------------------------------
create_identity_override_request(h, o) ==
    /\ Authenticated(h, "request")
    /\ overrides[o] = None
    /\ overrides' = [overrides EXCEPT ![o] =
         [status |-> "pending", requester |-> handler[h].admin,
          decider |-> None]]
    /\ Set(h, Free)
    /\ UNCHANGED <<role, audit, policies, exemptions, approvals, requests>>

(* Mutant: the requester is compared with the last decider instead.        *)
MayApproveLoosely(caller, caller_role, request) ==
    /\ caller_role = "head"
    /\ caller # request.decider

MayApprove(caller, caller_role, request) ==
    /\ caller_role = "head"
    /\ caller # request.requester

(* Approval needs the HEAD role and another admin than the requester;      *)
(* the request's status and department are not looked at.                  *)
approve_identity_override_request(h, o) ==
    /\ Authenticated(h, "approve")
    /\ overrides[o] # None
    /\ MayApprove(handler[h].admin, handler[h].role, overrides[o])
    /\ Set(h, [op |-> "approve", admin |-> handler[h].admin, id |-> o,
               seen |-> overrides[o]])
    /\ UNCHANGED <<role, audit, policies, exemptions, overrides, approvals,
                   requests>>

(* Rejection is open to every admin, the requester included.               *)
reject_identity_override_request(h, o) ==
    /\ Authenticated(h, "reject")
    /\ overrides[o] # None
    /\ Set(h, [op |-> "reject", admin |-> handler[h].admin, id |-> o,
               seen |-> overrides[o]])
    /\ UNCHANGED <<role, audit, policies, exemptions, overrides, approvals,
                   requests>>

Verdict == [approve |-> "approved", reject |-> "rejected"]

CommitDecision(h) ==
    /\ handler[h].op \in {"approve", "reject"}
    /\ LET c == handler[h]
           row == overrides[c.id]
       IN  overrides' = [overrides EXCEPT ![c.id] =
             [row EXCEPT
                !.status = Flushed(Verdict[c.op], c.seen.status, row.status),
                !.decider = Flushed(c.admin, c.seen.decider, row.decider)]]
    /\ approvals' = IF handler[h].op = "approve"
                    THEN approvals \cup {<<handler[h].id, handler[h].admin>>}
                    ELSE approvals
    /\ Set(h, Free)
    /\ UNCHANGED <<role, audit, policies, exemptions, requests>>

-----------------------------------------------------------------------------
(* Mutant: ADMIN suffices to grant any role.                               *)
MayGrantLoosely(caller, caller_role, target, new_role) ==
    /\ caller # target
    /\ caller_role \in {"admin", "head"}

MayGrant(caller, caller_role, target, new_role) ==
    /\ caller # target
    /\ new_role = "head" => caller_role = "head"
    /\ caller_role \in {"admin", "head"}

update_admin_user_role(h, t, new_role) ==
    /\ Authenticated(h, "role")
    /\ MayGrant(handler[h].admin, handler[h].role, t, new_role)
    /\ role[t] # None
    /\ Set(h, [op |-> "role", admin |-> handler[h].admin, target |-> t,
               new |-> new_role, seen |-> role[t]])
    /\ UNCHANGED <<role, audit, policies, exemptions, overrides, approvals,
                   requests>>

(* The role and its audit row, which quotes the role that was read.        *)
CommitRole(h) ==
    /\ handler[h].op = "role"
    /\ LET c == handler[h] IN
         /\ role' = [role EXCEPT ![c.target] = Flushed(c.new, c.seen, @)]
         /\ audit' = audit \cup {[target |-> c.target, by |-> c.admin,
                                  previous |-> c.seen, new |-> c.new]}
    /\ Set(h, Free)
    /\ UNCHANGED <<policies, exemptions, overrides, approvals, requests>>

AppRoles == {"learner", "instructor", "proctor", "admin"}

_PRIVILEGE == [learner |-> 0, instructor |-> 1, proctor |-> 2, admin |-> 3]

(* A launch carries several role URIs, each standing for an application    *)
(* role; the most privileged one counts.                                   *)
map_roles(roles) ==
    CHOOSE r \in roles : \A q \in roles : _PRIVILEGE[q] <= _PRIVILEGE[r]

is_admin_route(app_role) == app_role # "learner"

_ADMIN_ROLE_PRIVILEGE ==
    [instructor |-> 1, proctor |-> 2, admin |-> 3, head |-> 4]

(* The admin part of process_launch: it reads the row, if there is one ... *)
ReadLaunchingAdmin(h, a, roles) ==
    /\ "launch" \in Operations
    /\ is_admin_route(map_roles(roles))
    /\ Begin(h, [op |-> "launch", target |-> a, new |-> map_roles(roles),
                 seen |-> role[a]])
    /\ UNCHANGED <<role, audit, policies, exemptions, overrides, approvals>>

(* ... and inserts it, or raises its role; an insert that finds the row    *)
(* there by now fails.  No audit row is written.                           *)
CommitLaunchingAdmin(h) ==
    /\ handler[h].op = "launch"
    /\ LET c == handler[h] IN
         IF \/ c.seen = None /\ role[c.target] = None
            \/ /\ c.seen # None
               /\ _ADMIN_ROLE_PRIVILEGE[c.new] > _ADMIN_ROLE_PRIVILEGE[c.seen]
         THEN role' = [role EXCEPT ![c.target] = c.new]
         ELSE UNCHANGED role
    /\ Set(h, Free)
    /\ UNCHANGED <<audit, policies, exemptions, overrides, approvals, requests>>

-----------------------------------------------------------------------------
PolicyStep(h) ==
    \/ \E active, retire \in BOOLEAN : ReadPreviousPolicy(h, active, retire)
    \/ ReadMaxVersion(h) \/ CommitPolicy(h)

OverrideStep(h) ==
    \/ \E o \in Overrides : \/ create_identity_override_request(h, o)
                            \/ approve_identity_override_request(h, o)
                            \/ reject_identity_override_request(h, o)
    \/ CommitDecision(h)

RoleStep(h) ==
    \/ \E t \in Admins, r \in AdminRoles : update_admin_user_role(h, t, r)
    \/ CommitRole(h)
    \/ \E a \in Admins, rs \in (SUBSET AppRoles) \ {{}} :
         ReadLaunchingAdmin(h, a, rs)
    \/ CommitLaunchingAdmin(h)

Next == \E h \in Handlers :
          \/ \E a \in Admins : require_admin_role(h, a)
          \/ PolicyStep(h) \/ create_exemption(h)
          \/ OverrideStep(h) \/ RoleStep(h)
          \/ Abandon(h)

Spec == Init /\ [][Next]_vars

-----------------------------------------------------------------------------
GivenHead(a, b) ==
    \E e \in audit : e.target = a /\ e.by = b /\ e.new = "head"

HeldHead(a) == FirstRoles[a] = "head" \/ \E b \in Admins : GivenHead(a, b)

(* Whoever holds HEAD held it from the start or was given it by another    *)
(* admin who had held it, and the grant is on record: neither a launch nor *)
(* a stale role nor an overlapping change opens another way.               *)
HeadsGrantedByHeads ==
    \A a \in Admins : role[a] = "head" =>
        \/ FirstRoles[a] = "head"
        \/ \E b \in Admins \ {a} : GivenHead(a, b) /\ HeldHead(b)

(* A policy is retired only together with the insertion of a later         *)
(* version, whatever the unique index does to overlapping requests.        *)
SupersededHasSuccessor ==
    \A p \in DOMAIN policies : policies[p].retired =>
        \E q \in DOMAIN policies : policies[q].version > policies[p].version

(* An approved override was approved by an admin who had held HEAD and is  *)
(* not the requester, however decisions on it overlap.  The row itself may *)
(* name another admin as its decider: a later rejection that lost part of  *)
(* its write can leave even the requester there.                           *)
ApprovedByAnotherHead ==
    \A o \in Overrides : overrides[o] # None =>
        (overrides[o].status = "approved" =>
            \E a \in Admins : /\ <<o, a>> \in approvals
                              /\ a # overrides[o].requester
                              /\ HeldHead(a))
=============================================================================
