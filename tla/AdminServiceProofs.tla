-------------------------- MODULE AdminServiceProofs --------------------------
(***************************************************************************)
(* What holds of roles, overrides and policy versions for any number of    *)
(* administrators, requests and overlapping handlers.                      *)
(*                                                                         *)
(* A handler commits on the strength of what it read earlier.  Justified   *)
(* says what of that cannot become false while it waits: who once held     *)
(* HEAD has held it for good, a request keeps its requester, a version     *)
(* keeps its number.                                                       *)
(***************************************************************************)
EXTENDS AdminService, SequenceTheorems, WellFoundedInduction, TLAPS

Justified(c) ==
    /\ c.op = "auth" /\ c.role = "head" => HeldHead(c.admin)
    /\ c.op = "role" => c.admin # c.target
    /\ c.op = "role" /\ c.new = "head" => HeldHead(c.admin)
    /\ c.op \in {"approve", "reject"} => overrides[c.id] # None
    /\ c.op = "approve" => /\ HeldHead(c.admin)
                           /\ c.admin # overrides[c.id].requester
    /\ c.op = "policy" => c.previous <= Len(policies)
    /\ c.op = "policy" /\ c.max_version # None =>
          /\ c.max_version <= Len(policies)
          /\ c.previous > 0 => policies[c.previous].version <= c.max_version

VersionsBounded ==
    \A p \in DOMAIN policies : policies[p].version <= Len(policies)

AdminInv == /\ AdminTypeOK
            /\ VersionsBounded
            /\ \A h \in Handlers : Justified(handler[h])
            /\ HeadsGrantedByHeads
            /\ SupersededHasSuccessor
            /\ ApprovedByAnotherHead

-----------------------------------------------------------------------------
(* A nonempty set of naturals that is bounded above has a greatest element. *)
LEMMA GreatestExists ==
    ASSUME NEW S \in SUBSET Nat, S # {}, NEW n \in Nat, \A x \in S : x <= n
    PROVE  \E m \in S : \A x \in S : x <= m
<1> DEFINE R == OpToRel(<, Nat)
           T == {b \in Nat : \A x \in S : x <= b}
<1>1. T \subseteq Nat /\ T # {}
  OBVIOUS
<1>2. PICK b \in T : \A y \in T : ~(<<y, b>> \in R)
  <2> HIDE DEF R, T
  <2>1. IsWellFoundedOn(R, Nat)
    BY NatLessThanWellFounded DEF R
  <2> QED
    BY <1>1, <2>1, WFMin
<1>3. \A y \in T : ~(y < b)
  BY <1>2 DEF OpToRel
<1>4. b \in Nat /\ \A x \in S : x \in Nat /\ x <= b
  BY <1>2
<1>5. b \in S
  <2> SUFFICES ASSUME b \notin S PROVE FALSE
    OBVIOUS
  <2>1. \A x \in S : x <= b - 1
    BY <1>4
  <2>2. b - 1 \in Nat
    <3>1. PICK x \in S : TRUE
      OBVIOUS
    <3> QED
      BY <1>4, <2>1, <3>1
  <2>3. b - 1 \in T
    BY <2>1, <2>2
  <2> QED
    BY <1>3, <1>4, <2>3
<1> QED
  BY <1>4, <1>5

(* The rows of policy_configs are policies, numbered from one.             *)
LEMMA RowsAreTyped ==
    ASSUME AdminTypeOK
    PROVE  /\ Len(policies) \in Nat /\ DOMAIN policies = 1..Len(policies)
           /\ \A p \in DOMAIN policies : policies[p] \in Policy
<1>1. policies \in Seq(Policy)
  BY DEF AdminTypeOK
<1> QED
  BY <1>1

(* What _resolve_max_version returns: a number no version exceeds.         *)
LEMMA HighestVersion ==
    ASSUME AdminTypeOK, VersionsBounded
    PROVE  /\ _resolve_max_version \in Nat
           /\ _resolve_max_version <= Len(policies)
           /\ \A p \in DOMAIN policies : policies[p].version <= _resolve_max_version
<1>0. \A p \in DOMAIN policies : policies[p].version \in Nat
  BY RowsAreTyped DEF Policy
<1>1. Versions \in SUBSET Nat /\ Len(policies) \in Nat
  BY <1>0 DEF AdminTypeOK, Versions
<1>2. \A v \in Versions : v <= Len(policies)
  BY DEF VersionsBounded, Versions
<1>3. CASE Versions = {}
  <2>1. DOMAIN policies = {}
    BY <1>3 DEF Versions
  <2> QED
    BY <1>1, <1>3, <2>1 DEF _resolve_max_version
<1>4. CASE Versions # {}
  <2>1. \E m \in Versions : \A v \in Versions : v <= m
    BY <1>1, <1>2, <1>4, GreatestExists
  <2>2. /\ _resolve_max_version \in Versions
        /\ \A v \in Versions : v <= _resolve_max_version
    BY <1>4, <2>1 DEF _resolve_max_version
  <2> QED
    BY <1>1, <1>2, <2>2 DEF Versions
<1> QED
  BY <1>3, <1>4

(* What _resolve_previous_active returns: a row's index, or 0.             *)
LEMMA PreviousIsARow ==
    ASSUME AdminTypeOK
    PROVE  _resolve_previous_active \in 0..Len(policies)
  BY RowsAreTyped DEF _resolve_previous_active

(* A handler that only notes what it has read keeps the invariant if that  *)
(* justifies what it will do.                                              *)
LEMMA NotingKeeps ==
    ASSUME AdminInv, AdminTypeOK',
           UNCHANGED <<role, audit, policies, overrides, approvals>>,
           NEW h \in Handlers, NEW c \in Handling, Set(h, c), Justified(c)
    PROVE  AdminInv'
<1>1. /\ handler'[h] = c
      /\ \A g \in Handlers : g # h => handler'[g] = handler[g]
  BY DEF AdminInv, AdminTypeOK, Set
<1>2. \A g \in Handlers : Justified(handler'[g])
  BY <1>1 DEF AdminInv
<1>3. \A g \in Handlers : Justified(handler[g])'
  BY <1>2 DEF Justified, HeldHead, GivenHead
<1>4. VersionsBounded' /\ SupersededHasSuccessor'
  BY DEF AdminInv, VersionsBounded, SupersededHasSuccessor
<1>5. HeadsGrantedByHeads' /\ ApprovedByAnotherHead'
  BY DEF AdminInv, HeadsGrantedByHeads, ApprovedByAnotherHead, HeldHead, GivenHead
<1> QED
  BY <1>3, <1>4, <1>5 DEF AdminInv

(* A handler that has nothing in hand is justified.                        *)
LEMMA FreeIsJustified == Free \in Handling /\ Justified(Free)
  BY DEF Free, Handling, Justified

(* The initial state satisfies the invariant.                              *)
LEMMA AdminInit == Init => AdminInv
<1> SUFFICES ASSUME Init PROVE AdminInv
  OBVIOUS
<1>1. AdminTypeOK
  BY AdminAssumption, FreeIsJustified DEF Init, AdminTypeOK
<1>2. \A h \in Handlers : Justified(handler[h])
  BY FreeIsJustified DEF Init
<1>3. VersionsBounded /\ SupersededHasSuccessor
  BY DEF Init, VersionsBounded, SupersededHasSuccessor
<1>4. HeadsGrantedByHeads /\ ApprovedByAnotherHead
  BY DEF Init, HeadsGrantedByHeads, ApprovedByAnotherHead
<1> QED
  BY <1>1, <1>2, <1>3, <1>4 DEF AdminInv

(* The steps that only read: authentication, the first half of every       *)
(* handler, and a request that is abandoned.                               *)
LEMMA ReadingKeeps ==
    ASSUME AdminInv, NEW h \in Handlers,
           \/ \E a \in Admins : require_admin_role(h, a)
           \/ \E active, retire \in BOOLEAN : ReadPreviousPolicy(h, active, retire)
           \/ ReadMaxVersion(h)
           \/ \E o \in Overrides : approve_identity_override_request(h, o)
           \/ \E o \in Overrides : reject_identity_override_request(h, o)
           \/ \E t \in Admins, r \in AdminRoles : update_admin_user_role(h, t, r)
           \/ \E a \in Admins, rs \in (SUBSET AppRoles) \ {{}} :
                 ReadLaunchingAdmin(h, a, rs)
           \/ Abandon(h)
    PROVE  AdminInv'
<1>0. /\ AdminTypeOK /\ VersionsBounded
      /\ handler \in [Handlers -> Handling] /\ handler[h] \in Handling
      /\ Justified(handler[h])
  BY DEF AdminInv, AdminTypeOK
<1>1. ASSUME NEW c \in Handling, Set(h, c), Justified(c),
             \/ Begin(h, c) \/ UNCHANGED requests,
             UNCHANGED <<role, audit, policies, exemptions, overrides, approvals>>
      PROVE  AdminInv'
  <2>1. handler' \in [Handlers -> Handling]
    BY <1>0, <1>1 DEF Set
  <2>2. requests' \in 0..MaxRequests
    BY <1>0, <1>1, AdminAssumption DEF Begin, AdminTypeOK
  <2>3. AdminTypeOK'
    BY <1>0, <1>1, <2>1, <2>2 DEF AdminTypeOK
  <2> QED
    BY <1>1, <2>3, NotingKeeps
<1>2. ASSUME NEW a \in Admins, require_admin_role(h, a) PROVE AdminInv'
  <2> DEFINE c == [op |-> "auth", admin |-> a, role |-> role[a]]
  <2>1. role[a] \in AdminRoles
    BY <1>0, <1>2 DEF require_admin_role, AdminTypeOK
  <2>2. c \in Handling
    BY <2>1 DEF Handling
  <2>3. Justified(c)
    BY DEF Justified, AdminInv, HeadsGrantedByHeads, HeldHead
  <2> QED
    BY <1>1, <1>2, <2>2, <2>3 DEF require_admin_role, Begin
<1>3. ASSUME NEW active \in BOOLEAN, NEW retire \in BOOLEAN,
             ReadPreviousPolicy(h, active, retire)
      PROVE  AdminInv'
  <2> DEFINE c == [op |-> "policy", previous |-> _resolve_previous_active,
                   is_active |-> active, max_version |-> None]
  <2>1. _resolve_previous_active \in Nat /\ _resolve_previous_active <= Len(policies)
    BY <1>0, PreviousIsARow, RowsAreTyped
  <2>2. c \in Handling
    BY <2>1 DEF Handling
  <2>3. Justified(c)
    BY <2>1 DEF Justified
  <2> QED
    BY <1>1, <1>3, <2>2, <2>3 DEF ReadPreviousPolicy
<1>4. ASSUME ReadMaxVersion(h) PROVE AdminInv'
  <2> DEFINE c == [handler[h] EXCEPT !.max_version = _resolve_max_version]
  <2>1. /\ handler[h].op = "policy"
        /\ handler' = [handler EXCEPT ![h] = c]
    BY <1>0, <1>4 DEF ReadMaxVersion
  <2>2. handler[h] \in [op : {"policy"}, previous : Nat, is_active : BOOLEAN,
                        max_version : Nat \cup {None}]
    BY <1>0, <2>1 DEF Handling, Free
  <2>3. /\ _resolve_max_version \in Nat
        /\ _resolve_max_version <= Len(policies)
        /\ \A p \in DOMAIN policies : policies[p].version <= _resolve_max_version
    BY <1>0, HighestVersion
  <2>4. c \in Handling
    BY <2>2, <2>3 DEF Handling
  <2>5. c.op = "policy" /\ c.previous = handler[h].previous
        /\ c.max_version = _resolve_max_version /\ c.previous \in Nat
    BY <2>2
  <2>6. Justified(c)
    BY <1>0, <2>1, <2>3, <2>5, RowsAreTyped DEF Justified
  <2> QED
    BY <1>1, <1>4, <2>1, <2>4, <2>6 DEF ReadMaxVersion, Set
<1>5. ASSUME NEW o \in Overrides, NEW op \in {"approve", "reject"},
             handler[h].op = "auth", overrides[o] # None,
             op = "approve" => MayApprove(handler[h].admin, handler[h].role, overrides[o]),
             Set(h, [op |-> op, admin |-> handler[h].admin, id |-> o,
                     seen |-> overrides[o]]),
             UNCHANGED <<role, audit, policies, exemptions, overrides, approvals,
                         requests>>
      PROVE  AdminInv'
  <2> DEFINE c == [op |-> op, admin |-> handler[h].admin, id |-> o,
                   seen |-> overrides[o]]
  <2>1. handler[h] \in [op : {"auth"}, admin : Admins, role : AdminRoles]
    BY <1>0, <1>5 DEF Handling, Free
  <2>2. overrides[o] \in Override
    BY <1>0, <1>5 DEF AdminTypeOK
  <2>3. c \in Handling
    BY <2>1, <2>2 DEF Handling
  <2>4. Justified(c)
    BY <1>0, <1>5 DEF Justified, MayApprove
  <2> QED
    BY <1>1, <1>5, <2>3, <2>4
<1>6. ASSUME NEW t \in Admins, NEW r \in AdminRoles, update_admin_user_role(h, t, r)
      PROVE  AdminInv'
  <2> DEFINE c == [op |-> "role", admin |-> handler[h].admin, target |-> t,
                   new |-> r, seen |-> role[t]]
  <2>1. handler[h] \in [op : {"auth"}, admin : Admins, role : AdminRoles]
    BY <1>0, <1>6 DEF Handling, Free, update_admin_user_role, Authenticated
  <2>2. role[t] \in AdminRoles
    BY <1>0, <1>6 DEF update_admin_user_role, AdminTypeOK
  <2>3. c \in Handling
    BY <2>1, <2>2 DEF Handling
  <2>4. Justified(c)
    BY <1>0, <1>6 DEF Justified, update_admin_user_role, Authenticated, MayGrant
  <2> QED
    BY <1>1, <1>6, <2>3, <2>4 DEF update_admin_user_role
<1>7. ASSUME NEW a \in Admins, NEW rs \in (SUBSET AppRoles) \ {{}},
             ReadLaunchingAdmin(h, a, rs)
      PROVE  AdminInv'
  <2> DEFINE c == [op |-> "launch", target |-> a, new |-> map_roles(rs),
                   seen |-> role[a]]
  <2>1. role[a] \in AdminRoles \cup {None}
    BY <1>0 DEF AdminTypeOK
  <2>2. map_roles(rs) \in AppRoles
    <3>1. \E r \in rs : \A q \in rs : _PRIVILEGE[q] <= _PRIVILEGE[r]
      BY DEF AppRoles, _PRIVILEGE
    <3> QED
      BY <3>1 DEF map_roles
  <2>3. map_roles(rs) \in AdminRoles \ {"head"}
    BY <1>7, <2>2 DEF ReadLaunchingAdmin, is_admin_route, AppRoles, AdminRoles
  <2>4. c \in Handling
    BY <2>1, <2>3 DEF Handling
  <2>5. Justified(c)
    BY DEF Justified
  <2> QED
    BY <1>1, <1>7, <2>4, <2>5 DEF ReadLaunchingAdmin, Begin
<1>8. ASSUME Abandon(h) PROVE AdminInv'
  BY <1>1, <1>8, FreeIsJustified DEF Abandon
<1> QED
  BY <1>2, <1>3, <1>4, <1>5, <1>6, <1>7, <1>8
     DEF approve_identity_override_request, reject_identity_override_request,
         Authenticated

-----------------------------------------------------------------------------
(* Whoever has held HEAD has held it for good: audit rows are never removed. *)
LEMMA HeldForGood ==
    ASSUME audit \subseteq audit'
    PROVE  /\ \A a, b : GivenHead(a, b) => GivenHead(a, b)'
           /\ \A a : HeldHead(a) => HeldHead(a)'
<1>1. \A a, b : GivenHead(a, b) => GivenHead(a, b)'
  BY DEF GivenHead
<1> QED
  BY <1>1 DEF HeldHead

(* A handler that commits lets go of what it read; the others keep theirs.  *)
LEMMA LettingGo ==
    ASSUME handler \in [Handlers -> Handling], NEW h \in Handlers, Set(h, Free)
    PROVE  /\ handler' \in [Handlers -> Handling]
           /\ handler'[h] = Free
           /\ \A g \in Handlers : g # h => handler'[g] = handler[g]
  BY FreeIsJustified DEF Set

(* The table of policies after a retirement and an insert.                 *)
LEMMA PoliciesAfter ==
    ASSUME AdminTypeOK, NEW previous \in Nat, NEW row \in Policy,
           policies' = Append(Retire(previous), row)
    PROVE  /\ policies' \in Seq(Policy)
           /\ Len(policies') = Len(policies) + 1
           /\ \A p \in 1..Len(policies) :
                 /\ policies'[p].version = policies[p].version
                 /\ policies'[p].retired = (policies[p].retired \/ p = previous)
           /\ policies'[Len(policies) + 1] = row
<1> DEFINE n == Len(policies)
           old == Retire(previous)
<1>1. /\ n \in Nat /\ DOMAIN policies = 1..n
      /\ \A p \in 1..n : policies[p] \in Policy
  BY RowsAreTyped
<1>2. \A p \in 1..n : [policies[p] EXCEPT !.retired = TRUE] \in Policy
  BY <1>1 DEF Policy
<1>3. old \in [1..n -> Policy]
  BY <1>1, <1>2 DEF Retire
<1>4. old \in Seq(Policy) /\ Len(old) = n
  <2> HIDE DEF old, n
  <2>1. old \in Seq(Policy)
    BY <1>1, <1>3, SeqDef
  <2> QED
    BY <1>1, <1>3, <2>1
<1>5. \A p \in 1..n : /\ old[p].version = policies[p].version
                      /\ old[p].retired = (policies[p].retired \/ p = previous)
  BY <1>1 DEF Retire, Policy
<1>6. /\ policies' \in Seq(Policy) /\ Len(policies') = n + 1
      /\ \A p \in 1..n : policies'[p] = old[p]
      /\ policies'[n + 1] = row
  <2>1. policies' = Append(old, row)
    OBVIOUS
  <2> HIDE DEF old
  <2> QED
    BY <1>1, <1>4, <2>1, AppendProperties
<1> QED
  BY <1>5, <1>6

(* Retirement and insert in one transaction.                               *)
LEMMA CommitPolicyKeeps ==
    ASSUME AdminInv, NEW h \in Handlers, CommitPolicy(h)
    PROVE  AdminInv'
<1> DEFINE c == handler[h]
           n == Len(policies)
           row == [version |-> c.max_version + 1, is_active |-> c.is_active,
                   retired |-> FALSE]
<1>0. /\ AdminTypeOK /\ Justified(c)
      /\ handler \in [Handlers -> Handling] /\ c \in Handling
      /\ n \in Nat /\ DOMAIN policies = 1..n
      /\ \A p \in DOMAIN policies : policies[p] \in Policy
  BY RowsAreTyped DEF AdminInv, AdminTypeOK
<1>1. /\ handler' \in [Handlers -> Handling] /\ handler'[h] = Free
      /\ \A g \in Handlers : g # h => handler'[g] = handler[g]
  BY <1>0, LettingGo DEF CommitPolicy
<1>2. c.op = "policy" /\ c.max_version \in Nat /\ c.previous \in Nat
      /\ c.is_active \in BOOLEAN
  <2>1. c.op = "policy" /\ c.max_version # None
    BY DEF CommitPolicy
  <2>2. c \in [op : {"policy"}, previous : Nat, is_active : BOOLEAN,
               max_version : Nat \cup {None}]
    BY <1>0, <2>1 DEF Handling, Free
  <2> QED
    BY <2>1, <2>2
<1>3. CASE UNCHANGED policies
  <2>1. AdminTypeOK'
    BY <1>0, <1>1, <1>3 DEF AdminTypeOK, CommitPolicy
  <2> QED
    BY <1>3, <2>1, FreeIsJustified, NotingKeeps DEF CommitPolicy
<1>4. CASE policies' = Append(Retire(c.previous), row)
  <2>1. row \in Policy
    BY <1>2 DEF Policy
  <2>2. /\ policies' \in Seq(Policy) /\ Len(policies') = n + 1
        /\ \A p \in 1..n :
              /\ policies'[p].version = policies[p].version
              /\ policies'[p].retired = (policies[p].retired \/ p = c.previous)
        /\ policies'[n + 1] = row
    BY <1>0, <1>2, <1>4, <2>1, PoliciesAfter, ZenonT(60)
  <2>3. AdminTypeOK'
    BY <1>0, <1>1, <2>2 DEF AdminTypeOK, CommitPolicy
  <2>4. DOMAIN policies' = 1..(n + 1)
    BY <1>0, <2>2
  <2>5. c.max_version <= n /\ c.previous <= n
        /\ (c.previous > 0 => policies[c.previous].version <= c.max_version)
    <3>1. c.max_version # None
      BY DEF CommitPolicy
    <3> QED
      BY <1>0, <1>2, <3>1 DEF Justified
  <2>6. \A p \in 1..n : policies[p].version \in Nat
    BY <1>0 DEF Policy
  <2>7. VersionsBounded'
    <3>1. \A p \in 1..n : policies[p].version <= n
      BY <1>0 DEF AdminInv, VersionsBounded
    <3>2. \A p \in 1..(n + 1) : policies'[p].version <= n + 1
      BY <1>0, <1>2, <2>2, <2>5, <2>6, <3>1
    <3> QED
      BY <2>2, <2>4, <3>2 DEF VersionsBounded
  <2>8. SupersededHasSuccessor'
    <3> SUFFICES ASSUME NEW p \in 1..(n + 1), policies'[p].retired
                 PROVE  \E q \in 1..(n + 1) : policies'[q].version > policies'[p].version
      BY <2>4 DEF SupersededHasSuccessor
    <3>1. p # n + 1
      BY <2>2
    <3>2. p \in 1..n
      BY <1>0, <3>1
    <3>3. CASE policies[p].retired
      <4>1. PICK q \in 1..n : policies[q].version > policies[p].version
        BY <1>0, <3>2, <3>3 DEF AdminInv, SupersededHasSuccessor
      <4> QED
        BY <1>0, <2>2, <3>2, <4>1
    <3>4. CASE p = c.previous
      BY <1>0, <1>2, <2>2, <2>5, <2>6, <3>2, <3>4
    <3> QED
      BY <2>2, <3>2, <3>3, <3>4
  <2>9. \A g \in Handlers : Justified(handler[g])'
    <3> SUFFICES ASSUME NEW g \in Handlers PROVE Justified(handler[g])'
      OBVIOUS
    <3>1. CASE g = h
      BY <1>1, <3>1 DEF Justified, Free
    <3>2. CASE g # h
      <4> DEFINE d == handler[g]
      <4>1. handler'[g] = d /\ Justified(d) /\ d \in Handling
        BY <1>0, <1>1, <3>2 DEF AdminInv
      <4>2. d.op = "policy" => /\ d.previous \in Nat
                               /\ d.max_version # None => d.max_version \in Nat
        BY <4>1 DEF Handling, Free
      <4>3. d.op = "policy" => d.previous <= n + 1
        BY <1>0, <4>1, <4>2 DEF Justified
      <4>4. d.op = "policy" /\ d.max_version # None =>
              /\ d.max_version <= n + 1
              /\ d.previous > 0 => policies'[d.previous].version <= d.max_version
        BY <1>0, <2>2, <4>1, <4>2 DEF Justified
      <4>5. UNCHANGED <<audit, overrides>>
        BY DEF CommitPolicy
      <4> QED
        BY <2>2, <4>1, <4>3, <4>4, <4>5 DEF Justified, HeldHead, GivenHead
    <3> QED
      BY <3>1, <3>2
  <2>10. HeadsGrantedByHeads' /\ ApprovedByAnotherHead'
    <3>1. UNCHANGED <<role, audit, overrides, approvals>>
      BY DEF CommitPolicy
    <3> QED
      BY <3>1 DEF AdminInv, HeadsGrantedByHeads, ApprovedByAnotherHead,
                  HeldHead, GivenHead
  <2> QED
    BY <2>3, <2>7, <2>8, <2>9, <2>10 DEF AdminInv
<1> QED
  BY <1>3, <1>4 DEF CommitPolicy

-----------------------------------------------------------------------------
(* What a handler other than the committing one has in hand stays          *)
(* justified: requests keep their requesters and audit rows stay.          *)
LEMMA OthersStayJustified ==
    ASSUME AdminInv, NEW h \in Handlers, Set(h, Free), UNCHANGED policies,
           audit \subseteq audit',
           \A o \in Overrides : overrides[o] # None =>
               /\ overrides'[o] # None
               /\ overrides'[o].requester = overrides[o].requester
    PROVE  \A g \in Handlers : Justified(handler[g])'
<1> SUFFICES ASSUME NEW g \in Handlers PROVE Justified(handler[g])'
  OBVIOUS
<1>0. handler \in [Handlers -> Handling]
  BY DEF AdminInv, AdminTypeOK
<1>1. CASE g = h
  <2>1. handler'[g] = Free
    BY <1>0, <1>1, LettingGo
  <2> QED
    BY <2>1 DEF Justified, Free
<1>2. CASE g # h
  <2> DEFINE d == handler[g]
  <2>1. handler'[g] = d /\ Justified(d) /\ d \in Handling
    BY <1>0, <1>2, LettingGo DEF AdminInv
  <2>2. d.op \in {"approve", "reject"} => d.id \in Overrides
    BY <2>1 DEF Handling, Free
  <2>3. \A a : HeldHead(a) => HeldHead(a)'
    BY HeldForGood
  <2> QED
    BY <2>1, <2>2, <2>3 DEF Justified
<1> QED
  BY <1>1, <1>2

(* An exemption touches nothing the other properties speak of.             *)
LEMMA ExemptionKeeps ==
    ASSUME AdminInv, NEW h \in Handlers, create_exemption(h)
    PROVE  AdminInv'
<1>1. handler \in [Handlers -> Handling] /\ handler[h] \in Handling
  BY DEF AdminInv, AdminTypeOK
<1>2. handler' \in [Handlers -> Handling]
  BY <1>1, LettingGo DEF create_exemption
<1>3. handler[h].admin \in Admins
  BY <1>1 DEF create_exemption, Authenticated, Handling, Free
<1>4. AdminTypeOK'
  BY <1>2, <1>3 DEF AdminInv, AdminTypeOK, create_exemption
<1> QED
  BY <1>4, FreeIsJustified, NotingKeeps DEF create_exemption

(* A new request is pending.                                               *)
LEMMA RequestKeeps ==
    ASSUME AdminInv, NEW h \in Handlers, NEW o \in Overrides,
           create_identity_override_request(h, o)
    PROVE  AdminInv'
<1> DEFINE new == [status |-> "pending", requester |-> handler[h].admin,
                   decider |-> None]
<1>1. handler \in [Handlers -> Handling] /\ handler[h] \in Handling
      /\ overrides \in [Overrides -> Override \cup {None}]
  BY DEF AdminInv, AdminTypeOK
<1>2. handler' \in [Handlers -> Handling]
  BY <1>1, LettingGo DEF create_identity_override_request
<1>3. handler[h].admin \in Admins
  BY <1>1 DEF create_identity_override_request, Authenticated, Handling, Free
<1>4. new \in Override
  BY <1>3 DEF Override
<1>5. overrides[o] = None /\ overrides' = [overrides EXCEPT ![o] = new]
  BY DEF create_identity_override_request
<1>6. AdminTypeOK'
  <2>1. overrides' \in [Overrides -> Override \cup {None}]
    BY <1>1, <1>4, <1>5
  <2> QED
    BY <1>2, <2>1 DEF AdminInv, AdminTypeOK, create_identity_override_request
<1>7. UNCHANGED <<role, audit, policies, approvals>> /\ Set(h, Free)
  BY DEF create_identity_override_request
<1>8. \A g \in Handlers : Justified(handler[g])'
  BY <1>1, <1>5, <1>7, OthersStayJustified
<1>9. ApprovedByAnotherHead'
  <2> SUFFICES ASSUME NEW q \in Overrides, overrides'[q] # None,
                      overrides'[q].status = "approved"
               PROVE  \E a \in Admins : /\ <<q, a>> \in approvals'
                                        /\ a # overrides'[q].requester
                                        /\ HeldHead(a)'
    BY DEF ApprovedByAnotherHead
  <2>1. q # o
    BY <1>1, <1>5
  <2>2. overrides'[q] = overrides[q]
    BY <1>1, <1>5, <2>1
  <2>3. PICK a \in Admins : /\ <<q, a>> \in approvals
                            /\ a # overrides[q].requester /\ HeldHead(a)
    BY <2>2 DEF AdminInv, ApprovedByAnotherHead
  <2> QED
    BY <1>7, <2>2, <2>3 DEF HeldHead, GivenHead
<1>10. VersionsBounded' /\ SupersededHasSuccessor' /\ HeadsGrantedByHeads'
  BY <1>7 DEF AdminInv, VersionsBounded, SupersededHasSuccessor,
              HeadsGrantedByHeads, HeldHead, GivenHead
<1> QED
  BY <1>6, <1>8, <1>9, <1>10 DEF AdminInv

(* A decision: an approval is a HEAD's and not the requester's, and a      *)
(* status "approved" that is already there has its own approval.           *)
LEMMA DecisionKeeps ==
    ASSUME AdminInv, NEW h \in Handlers, CommitDecision(h)
    PROVE  AdminInv'
<1> DEFINE c == handler[h]
           row == overrides[c.id]
           status == Flushed(Verdict[c.op], c.seen.status, row.status)
           decider == Flushed(c.admin, c.seen.decider, row.decider)
           new == [row EXCEPT !.status = status, !.decider = decider]
<1>1. /\ handler \in [Handlers -> Handling] /\ c \in Handling /\ Justified(c)
      /\ overrides \in [Overrides -> Override \cup {None}]
  BY DEF AdminInv, AdminTypeOK
<1>2. handler' \in [Handlers -> Handling]
  BY <1>1, LettingGo DEF CommitDecision
<1>3. c \in [op : {"approve", "reject"}, admin : Admins, id : Overrides,
             seen : Override]
  BY <1>1 DEF CommitDecision, Handling, Free
<1>4. row \in Override
  BY <1>1, <1>3 DEF Justified
<1>5. overrides' = [overrides EXCEPT ![c.id] = new]
  BY <1>1, <1>3 DEF CommitDecision
<1>6. /\ new \in Override /\ new.requester = row.requester
      /\ new.status = status
  <2>1. /\ status \in {"pending", "approved", "rejected"}
        /\ decider \in Admins \cup {None}
    BY <1>3, <1>4 DEF Override, Flushed, Verdict
  <2> HIDE DEF status, decider, row
  <2> QED
    BY <1>4, <2>1 DEF Override
<1>7. AdminTypeOK'
  <2>1. overrides' \in [Overrides -> Override \cup {None}]
    BY <1>1, <1>5, <1>6
  <2>2. approvals' \subseteq Overrides \X Admins
    BY <1>3 DEF AdminInv, AdminTypeOK, CommitDecision
  <2> QED
    BY <1>2, <2>1, <2>2 DEF AdminInv, AdminTypeOK, CommitDecision
<1>8. UNCHANGED <<role, audit, policies>> /\ Set(h, Free)
  BY DEF CommitDecision
<1>9. \A q \in Overrides : overrides[q] # None =>
        /\ overrides'[q] # None
        /\ overrides'[q].requester = overrides[q].requester
  BY <1>1, <1>3, <1>5, <1>6, AdminAssumption
<1>10. \A g \in Handlers : Justified(handler[g])'
  BY <1>8, <1>9, OthersStayJustified
<1>11. ApprovedByAnotherHead'
  <2> SUFFICES ASSUME NEW q \in Overrides, overrides'[q] # None,
                      overrides'[q].status = "approved"
               PROVE  \E a \in Admins : /\ <<q, a>> \in approvals'
                                        /\ a # overrides'[q].requester
                                        /\ HeldHead(a)'
    BY DEF ApprovedByAnotherHead
  <2>1. approvals \subseteq approvals'
    BY DEF CommitDecision
  <2>2. \A a : HeldHead(a) => HeldHead(a)'
    BY <1>8 DEF HeldHead, GivenHead
  <2>3. CASE overrides[q] # None /\ overrides[q].status = "approved"
    <3>1. PICK a \in Admins : /\ <<q, a>> \in approvals
                              /\ a # overrides[q].requester /\ HeldHead(a)
      BY <2>3 DEF AdminInv, ApprovedByAnotherHead
    <3> QED
      BY <1>9, <2>1, <2>2, <2>3, <3>1
  <2>4. CASE ~(overrides[q] # None /\ overrides[q].status = "approved")
    <3>1. q = c.id /\ overrides'[q] = new
      BY <1>1, <1>3, <1>5, <2>4
    <3>2. c.op = "approve"
      BY <1>3, <1>4, <1>6, <2>4, <3>1, AdminAssumption DEF Flushed, Verdict
    <3>3. <<q, c.admin>> \in approvals'
      BY <3>1, <3>2 DEF CommitDecision
    <3>4. HeldHead(c.admin) /\ c.admin # row.requester
      BY <1>1, <3>2 DEF Justified
    <3> QED
      BY <1>3, <1>6, <2>2, <3>1, <3>3, <3>4
  <2> QED
    BY <2>3, <2>4
<1>12. VersionsBounded' /\ SupersededHasSuccessor' /\ HeadsGrantedByHeads'
  BY <1>8 DEF AdminInv, VersionsBounded, SupersededHasSuccessor,
              HeadsGrantedByHeads, HeldHead, GivenHead
<1> QED
  BY <1>7, <1>10, <1>11, <1>12 DEF AdminInv

-----------------------------------------------------------------------------
(* A role change writes its audit row in the same transaction; if it left  *)
(* the column alone because it had read the same role, HEAD there has its  *)
(* own grant.                                                              *)
LEMMA RoleKeeps ==
    ASSUME AdminInv, NEW h \in Handlers, CommitRole(h)
    PROVE  AdminInv'
<1> DEFINE c == handler[h]
           entry == [target |-> c.target, by |-> c.admin,
                     previous |-> c.seen, new |-> c.new]
<1>1. /\ handler \in [Handlers -> Handling] /\ c \in Handling /\ Justified(c)
      /\ role \in [Admins -> AdminRoles \cup {None}]
  BY DEF AdminInv, AdminTypeOK
<1>2. handler' \in [Handlers -> Handling]
  BY <1>1, LettingGo DEF CommitRole
<1>3. c \in [op : {"role"}, admin : Admins, target : Admins, new : AdminRoles,
             seen : AdminRoles]
  BY <1>1 DEF CommitRole, Handling, Free
<1>4. /\ role' = [role EXCEPT ![c.target] = Flushed(c.new, c.seen, role[c.target])]
      /\ audit' = audit \cup {entry}
      /\ UNCHANGED <<policies, exemptions, overrides, approvals, requests>>
      /\ Set(h, Free)
  BY DEF CommitRole
<1>5. AdminTypeOK'
  <2>1. Flushed(c.new, c.seen, role[c.target]) \in AdminRoles \cup {None}
    BY <1>1, <1>3 DEF Flushed
  <2>2. role' \in [Admins -> AdminRoles \cup {None}]
    BY <1>1, <1>4, <2>1
  <2>3. entry \in AuditRow
    BY <1>3 DEF AuditRow
  <2>4. audit' \subseteq AuditRow
    BY <1>4, <2>3 DEF AdminInv, AdminTypeOK
  <2> QED
    BY <1>2, <1>4, <2>2, <2>4 DEF AdminInv, AdminTypeOK
<1>6. \A g \in Handlers : Justified(handler[g])'
  BY <1>4, OthersStayJustified
<1>7. /\ \A a, b : GivenHead(a, b) => GivenHead(a, b)'
      /\ \A a : HeldHead(a) => HeldHead(a)'
  BY <1>4, HeldForGood
<1>8. HeadsGrantedByHeads'
  <2> SUFFICES ASSUME NEW a \in Admins, role'[a] = "head", FirstRoles[a] # "head"
               PROVE  \E b \in Admins \ {a} : GivenHead(a, b)' /\ HeldHead(b)'
    BY DEF HeadsGrantedByHeads
  <2>1. CASE role[a] = "head"
    <3>1. PICK b \in Admins \ {a} : GivenHead(a, b) /\ HeldHead(b)
      BY <2>1 DEF AdminInv, HeadsGrantedByHeads
    <3> QED
      BY <1>7, <3>1
  <2>2. CASE role[a] # "head"
    <3>1. a = c.target /\ c.new = "head"
      BY <1>1, <1>3, <1>4, <2>2 DEF Flushed
    <3>2. PICK b \in Admins : b = c.admin
      BY <1>3
    <3>3. entry \in audit' /\ entry.target = a /\ entry.by = b
          /\ entry.new = "head"
      BY <1>4, <3>1, <3>2
    <3>4. GivenHead(a, b)'
      BY <3>3 DEF GivenHead
    <3>5. b \in Admins \ {a} /\ HeldHead(b)
      BY <1>1, <1>3, <3>1, <3>2 DEF Justified
    <3> QED
      BY <1>7, <3>4, <3>5
  <2> QED
    BY <2>1, <2>2
<1>9. ApprovedByAnotherHead'
  BY <1>4, <1>7 DEF AdminInv, ApprovedByAnotherHead
<1>10. VersionsBounded' /\ SupersededHasSuccessor'
  BY <1>4 DEF AdminInv, VersionsBounded, SupersededHasSuccessor
<1> QED
  BY <1>5, <1>6, <1>8, <1>9, <1>10 DEF AdminInv

(* A launch never writes HEAD.                                             *)
LEMMA LaunchKeeps ==
    ASSUME AdminInv, NEW h \in Handlers, CommitLaunchingAdmin(h)
    PROVE  AdminInv'
<1> DEFINE c == handler[h]
<1>1. /\ handler \in [Handlers -> Handling] /\ c \in Handling
      /\ role \in [Admins -> AdminRoles \cup {None}]
  BY DEF AdminInv, AdminTypeOK
<1>2. handler' \in [Handlers -> Handling]
  BY <1>1, LettingGo DEF CommitLaunchingAdmin
<1>3. c.target \in Admins /\ c.new \in AdminRoles \ {"head"}
  BY <1>1 DEF CommitLaunchingAdmin, Handling, Free
<1>4. /\ role' = [role EXCEPT ![c.target] = c.new] \/ role' = role
      /\ UNCHANGED <<audit, policies, exemptions, overrides, approvals, requests>>
      /\ Set(h, Free)
  BY DEF CommitLaunchingAdmin
<1>5. role' \in [Admins -> AdminRoles \cup {None}]
  BY <1>1, <1>3, <1>4
<1>6. AdminTypeOK'
  BY <1>2, <1>4, <1>5 DEF AdminInv, AdminTypeOK
<1>7. \A g \in Handlers : Justified(handler[g])'
  BY <1>4, OthersStayJustified
<1>8. HeadsGrantedByHeads'
  <2>1. \A a \in Admins : role'[a] = "head" => role[a] = "head"
    BY <1>1, <1>3, <1>4
  <2> QED
    BY <1>4, <2>1 DEF AdminInv, HeadsGrantedByHeads, HeldHead, GivenHead
<1>9. ApprovedByAnotherHead'
  BY <1>4 DEF AdminInv, ApprovedByAnotherHead, HeldHead, GivenHead
<1>10. VersionsBounded' /\ SupersededHasSuccessor'
  BY <1>4 DEF AdminInv, VersionsBounded, SupersededHasSuccessor
<1> QED
  BY <1>6, <1>7, <1>8, <1>9, <1>10 DEF AdminInv

-----------------------------------------------------------------------------
(* Every step keeps the invariant.                                         *)
LEMMA AdminStep == AdminInv /\ [Next]_vars => AdminInv'
<1> SUFFICES ASSUME AdminInv, [Next]_vars PROVE AdminInv'
  OBVIOUS
<1>1. CASE UNCHANGED vars
  <2>1. UNCHANGED <<role, audit, policies, exemptions, overrides, approvals,
                    handler, requests>>
    BY <1>1 DEF vars
  <2>2. AdminTypeOK' /\ VersionsBounded' /\ SupersededHasSuccessor'
    BY <2>1 DEF AdminInv, AdminTypeOK, VersionsBounded, SupersededHasSuccessor
  <2>3. HeadsGrantedByHeads' /\ ApprovedByAnotherHead'
    BY <2>1 DEF AdminInv, HeadsGrantedByHeads, ApprovedByAnotherHead, HeldHead,
                GivenHead
  <2>4. \A g \in Handlers : Justified(handler[g])'
    BY <2>1 DEF AdminInv, Justified, HeldHead, GivenHead
  <2> QED
    BY <2>2, <2>3, <2>4 DEF AdminInv
<1>2. CASE Next
  <2>1. PICK h \in Handlers :
          \/ \E a \in Admins : require_admin_role(h, a)
          \/ PolicyStep(h) \/ create_exemption(h)
          \/ OverrideStep(h) \/ RoleStep(h)
          \/ Abandon(h)
    BY <1>2 DEF Next
  <2>2. CASE PolicyStep(h)
    BY <2>2, ReadingKeeps, CommitPolicyKeeps DEF PolicyStep
  <2>3. CASE OverrideStep(h)
    BY <2>3, ReadingKeeps, RequestKeeps, DecisionKeeps DEF OverrideStep
  <2>4. CASE RoleStep(h)
    BY <2>4, ReadingKeeps, RoleKeeps, LaunchKeeps DEF RoleStep
  <2> QED
    BY <2>1, <2>2, <2>3, <2>4, ReadingKeeps, ExemptionKeeps
<1> QED
  BY <1>1, <1>2

(* The invariant holds throughout.                                         *)
LEMMA AdminAlways == Spec => []AdminInv
  BY AdminInit, AdminStep, PTL DEF Spec

(* Rows and handlers keep their types, for any number of overlapping       *)
(* requests on policies, exemptions, overrides and roles.                  *)
THEOREM AdminTypeCorrect == Spec => []AdminTypeOK
<1>1. AdminInv => AdminTypeOK
  BY DEF AdminInv
<1> QED
  BY <1>1, AdminAlways, PTL

(* HEAD comes only from a HEAD, on record, whatever role changes and LTI   *)
(* launches overlap.                                                       *)
THEOREM HeadsGranted == Spec => []HeadsGrantedByHeads
<1>1. AdminInv => HeadsGrantedByHeads
  BY DEF AdminInv
<1> QED
  BY <1>1, AdminAlways, PTL

(* create_policy never leaves a name with a retired policy and no later    *)
(* version, whatever requests overlap and whichever the index refuses.     *)
THEOREM SupersededSucceeded == Spec => []SupersededHasSuccessor
<1>1. AdminInv => SupersededHasSuccessor
  BY DEF AdminInv
<1> QED
  BY <1>1, AdminAlways, PTL

(* The two-person rule of identity overrides, for any number of requests   *)
(* decided again and again by overlapping handlers.                        *)
THEOREM ApprovedByAnother == Spec => []ApprovedByAnotherHead
<1>1. AdminInv => ApprovedByAnotherHead
  BY DEF AdminInv
<1> QED
  BY <1>1, AdminAlways, PTL
=============================================================================
