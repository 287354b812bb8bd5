------------------------- MODULE OrganizationProofs -------------------------
(***************************************************************************)
(* One organization, for any number of users, custom roles, invites,       *)
(* workers, requests and failed writes.                                    *)
(*                                                                         *)
(* A request carries what it decided at its start and the Casbin writes it *)
(* still has to make.  The invariants speak of both: what the checks of a  *)
(* request in flight still guarantee (Ready), and that every row of Casbin *)
(* is right or a write that makes it right is still to come.               *)
(***************************************************************************)
EXTENDS Organization, FiniteSetTheorems, SequenceTheorems, TLAPS

\* What a request may carry, by what it does next.
Ops ==
    [do: {"idle"}] \cup [do: {"createOrg", "removeMember"}, user: Users]
    \cup [do: {"deleteOrg"}, seen: SUBSET Users]
    \cup [do: {"addMember", "updateRole", "invite"}, user: Users, role: FixedRoles]
    \cup [do: {"consume"}, invite: Invites]
    \cup [do: {"accept"}, invite: Invites, known: BOOLEAN]
    \cup [do: {"defineRole", "updateCustom"}, role: CustomRoles, perms: SUBSET Grants]
    \cup [do: {"deleteRole"}, role: CustomRoles]
    \cup [do: {"assign", "unassign"}, user: Users, role: CustomRoles]
    \cup [do: {"sync"}, todo: Seq(SyncOps)]
    \cup [do: {"repair"}, user: Users \cup {NoUser}, since: Nat, todo: Seq(SyncOps)]

\* Writes that need no other write just before them.
Plain(s) == s \in Seq(SyncOps) /\ \A x \in Range(s) : x.k \notin {"add", "drop"}

\* Only the write that comes next may be the add of a sweep or a drop.
Tidy(s) == s \in Seq(SyncOps) /\ (s # <<>> => Plain(Tail(s)))

Busy(w) == op[w].do \in {"sync", "repair"}

\* A request about an invite names one that was sent.
InvitesSent ==
    \A w \in Workers : op[w].do \in {"consume", "accept"} => invites[op[w].invite].user \in Users

\* The tables and the requests, typed.
Shape ==
    /\ TypeOK /\ InvitesSent
    /\ op \in [Workers -> Ops] /\ serial \in BOOLEAN
    /\ \A w \in Workers : Busy(w) => Tidy(op[w].todo)

(***************************************************************************)
(* Records and sequences                                                   *)
(***************************************************************************)
\* What a request carries, field by field.
LEMMA OpFields ==
    ASSUME NEW o \in Ops
    PROVE  /\ o.do \in {"createOrg", "removeMember", "addMember", "updateRole", "invite", "assign", "unassign"}
                => o.user \in Users
           /\ o.do \in {"addMember", "updateRole", "invite"} => o.role \in FixedRoles
           /\ o.do \in {"defineRole", "updateCustom", "deleteRole", "assign", "unassign"}
                => o.role \in CustomRoles
           /\ o.do \in {"defineRole", "updateCustom"} => o.perms \in SUBSET Grants
           /\ o.do \in {"consume", "accept"} => o.invite \in Invites
           /\ o.do = "accept" => o.known \in BOOLEAN
           /\ o.do = "deleteOrg" => o.seen \in SUBSET Users
           /\ o.do = "sync" => o \in [do: {"sync"}, todo: Seq(SyncOps)]
           /\ o.do = "repair" =>
                o \in [do: {"repair"}, user: Users \cup {NoUser}, since: Nat, todo: Seq(SyncOps)]
  BY DEF Ops

\* A write, field by field.
LEMMA SyncFields ==
    ASSUME NEW x \in SyncOps
    PROVE  /\ x.k = "role" => x \in [k: {"role"}, user: Users, role: Roles]
           /\ x.k = "add" => x.user \in Users /\ x.role \in FixedRoles
           /\ x.k = "custom" => x.user \in Users /\ x.role \in CustomRoles /\ x.grant \in BOOLEAN
           /\ x.k = "ensure" => x.role \in CustomRoles /\ x.perms \in SUBSET Grants
           /\ x.k = "drop" => x.role \in CustomRoles
           /\ x.k = "orphans" => x.defined \in SUBSET CustomRoles
  BY DEF SyncOps

\* The writes the handlers build are writes.
LEMMA SyncBuilt ==
    /\ \A u \in Users, r \in Roles : SyncRole(u, r) \in SyncOps /\ SyncRole(u, r).k = "role"
    /\ \A u \in Users, c \in CustomRoles, g \in BOOLEAN :
            SyncCustom(u, c, g) \in SyncOps /\ SyncCustom(u, c, g).k = "custom"
    /\ \A c \in CustomRoles, p \in SUBSET Grants :
            Ensure(c, p) \in SyncOps /\ Ensure(c, p).k = "ensure"
    /\ \A c \in CustomRoles : Drop(c) \in SyncOps /\ Drop(c).k = "drop"
    /\ [k |-> "seed"] \in SyncOps /\ [k |-> "unseed"] \in SyncOps
    /\ \A d \in SUBSET CustomRoles : [k |-> "orphans", defined |-> d] \in SyncOps
  BY DEF SyncOps, SyncRole, SyncCustom, Ensure, Drop

\* A list of writes is its head and its tail.
LEMMA HeadAndTail ==
    ASSUME NEW s \in Seq(SyncOps), s # <<>>
    PROVE  /\ Head(s) \in SyncOps /\ Tail(s) \in Seq(SyncOps)
           /\ Range(s) = {Head(s)} \cup Range(Tail(s))
<1>1. Head(s) \in SyncOps /\ Tail(s) \in Seq(SyncOps)
  BY HeadTailProperties
<1>2. /\ Len(s) \in Nat \ {0} /\ DOMAIN s = 1..Len(s) /\ Head(s) = s[1]
      /\ Len(Tail(s)) = Len(s) - 1 /\ DOMAIN Tail(s) = 1..Len(Tail(s))
      /\ \A i \in 1..Len(Tail(s)) : Tail(s)[i] = s[i + 1]
  BY <1>1, HeadTailProperties, LenProperties, EmptySeq
<1>3. ASSUME NEW x \in Range(s) PROVE x \in {Head(s)} \cup Range(Tail(s))
  <2>1. PICK i \in 1..Len(s) : x = s[i]
    BY <1>2 DEF Range
  <2>2. CASE i = 1
    BY <1>2, <2>1, <2>2
  <2>3. CASE i # 1
    <3>1. i - 1 \in 1..Len(Tail(s)) /\ Tail(s)[i - 1] = x
      BY <1>2, <2>1, <2>3
    <3>2. QED
      BY <1>2, <3>1 DEF Range
  <2>4. QED
    BY <2>2, <2>3
<1>4. ASSUME NEW x \in {Head(s)} \cup Range(Tail(s)) PROVE x \in Range(s)
  BY <1>2 DEF Range
<1>5. QED
  BY <1>1, <1>3, <1>4

\* One write put in front of others.
LEMMA InFront ==
    ASSUME NEW x \in SyncOps, NEW s \in Seq(SyncOps)
    PROVE  /\ <<x>> \o s \in Seq(SyncOps) /\ <<x>> \o s # <<>>
           /\ Head(<<x>> \o s) = x /\ Tail(<<x>> \o s) = s
           /\ Range(<<x>> \o s) = {x} \cup Range(s)
<1>1. /\ <<x>> \in Seq(SyncOps) /\ Len(<<x>>) = 1 /\ <<x>>[1] = x /\ Range(<<x>>) = {x}
  BY DEF Range
<1>2. /\ <<x>> \o s \in Seq(SyncOps) /\ Len(<<x>> \o s) = 1 + Len(s)
      /\ Range(<<x>> \o s) = {x} \cup Range(s)
      /\ \A i \in 1..(1 + Len(s)) : (<<x>> \o s)[i] = IF i <= 1 THEN <<x>>[i] ELSE s[i - 1]
  <2>1. /\ <<x>> \o s \in Seq(SyncOps)
        /\ Len(<<x>> \o s) = Len(<<x>>) + Len(s)
        /\ \A i \in 1..(Len(<<x>>) + Len(s)) :
                (<<x>> \o s)[i] = IF i <= Len(<<x>>) THEN <<x>>[i] ELSE s[i - Len(<<x>>)]
    BY <1>1, ConcatProperties, Zenon
  <2>2. Range(<<x>> \o s) = Range(<<x>>) \cup Range(s)
    <3> DEFINE first == <<x>>
    <3>1. first \in Seq(SyncOps)
      BY <1>1
    <3> HIDE DEF first
    <3>2. Range(first \o s) = Range(first) \cup Range(s)
      BY <3>1, RangeConcatenation
    <3>3. QED
      BY <3>2 DEF first
  <2>3. QED
    BY <1>1, <2>1, <2>2
<1>3. Len(s) \in Nat
  BY LenProperties
<1>4. <<x>> \o s # <<>> /\ Head(<<x>> \o s) = x
  <2>1. (<<x>> \o s)[1] = x /\ Len(<<x>> \o s) # 0
    BY <1>1, <1>2, <1>3
  <2>2. <<x>> \o s # <<>>
    BY <2>1, EmptySeq
  <2>3. QED
    BY <1>2, <2>1, <2>2
<1>5. Tail(<<x>> \o s) = s
  <2>1. /\ Tail(<<x>> \o s) \in Seq(SyncOps) /\ Len(Tail(<<x>> \o s)) = Len(s)
        /\ \A i \in 1..Len(s) : Tail(<<x>> \o s)[i] = (<<x>> \o s)[i + 1]
    BY <1>2, <1>3, <1>4, HeadTailProperties
  <2>2. \A i \in 1..Len(s) : (<<x>> \o s)[i + 1] = s[i]
    BY <1>2, <1>3
  <2>3. QED
    BY <2>1, <2>2, SeqEqual
<1>6. QED
  BY <1>2, <1>4, <1>5

\* Lists that need no order stay so one after the other.
LEMMA PlainJoined ==
    ASSUME NEW s, NEW t, Plain(s), Plain(t)
    PROVE  Plain(s \o t) /\ Range(s \o t) = Range(s) \cup Range(t)
  BY ConcatProperties, RangeConcatenation DEF Plain

\* The empty list and lists of one write.
LEMMA PlainSmall ==
    /\ Plain(<<>>) /\ Range(<<>>) = {}
    /\ \A x \in SyncOps : /\ <<x>> \in Seq(SyncOps) /\ Range(<<x>>) = {x} /\ <<x>> # <<>>
                          /\ Head(<<x>>) = x /\ Tail(<<x>>) = <<>>
                          /\ x.k \notin {"add", "drop"} => Plain(<<x>>)
  BY DEF Plain, Range

\* A write that needs no order, or one that comes first.
LEMMA TidyLists ==
    /\ \A s : Plain(s) => Tidy(s)
    /\ \A x \in SyncOps : \A s : Plain(s) =>
            Tidy(<<x>> \o s) /\ (x.k \notin {"add", "drop"} => Plain(<<x>> \o s))
    /\ \A x \in SyncOps : Tidy(<<x>>)
    /\ Tidy(<<>>)
<1>1. ASSUME NEW s, Plain(s) PROVE Tidy(s)
  BY <1>1, HeadAndTail DEF Plain, Tidy
<1>2. ASSUME NEW x \in SyncOps, NEW s, Plain(s)
      PROVE  Tidy(<<x>> \o s) /\ (x.k \notin {"add", "drop"} => Plain(<<x>> \o s))
  BY <1>2, InFront DEF Plain, Tidy
<1>3. QED
  BY <1>1, <1>2, PlainSmall DEF Tidy

\* A finite set has an order that lists it.
LEMMA Listed ==
    ASSUME NEW S, IsFiniteSet(S)
    PROVE  SomeSeq(S) \in Seq(S) /\ Range(SomeSeq(S)) = S
<1>1. Cardinality(S) \in Nat /\ ExistsBijection(1..Cardinality(S), S)
  BY FS_CardinalityType
<1>2. PICK f \in [1..Cardinality(S) -> S] : \A x \in S : \E i \in 1..Cardinality(S) : f[i] = x
  BY <1>1 DEF ExistsBijection, Bijection, Injection, Surjection
<1>3. /\ SomeSeq(S) \in [1..Cardinality(S) -> S]
      /\ \A x \in S : \E i \in DOMAIN SomeSeq(S) : SomeSeq(S)[i] = x
  BY <1>2 DEF SomeSeq
<1>4. SomeSeq(S) \in Seq(S)
  BY <1>1, <1>3
<1>5. QED
  BY <1>3, <1>4 DEF Range

(***************************************************************************)
(* The lists of writes the handlers build                                  *)
(***************************************************************************)
RoleWrites(s, r) == [i \in DOMAIN s |-> SyncRole(s[i], r)]
CustomWrites(u, s, g) == [i \in DOMAIN s |-> SyncCustom(u, s[i], g)]
EnsureWrites(s) == [i \in DOMAIN s |-> Ensure(s[i], defs[s[i]])]

\* The writes of ReseedOrgPolicies.
ReseedWrites ==
    <<[k |-> "seed"]>> \o EnsureWrites(SomeSeq(Defined)) \o <<[k |-> "orphans", defined |-> Defined]>>

LEMMA RoleWritesPlain ==
    ASSUME NEW s \in Seq(Users), NEW r \in Roles
    PROVE  /\ Plain(RoleWrites(s, r))
           /\ Range(RoleWrites(s, r)) = {SyncRole(u, r) : u \in Range(s)}
<1>1. Len(s) \in Nat /\ DOMAIN s = 1..Len(s) /\ \A i \in 1..Len(s) : s[i] \in Users
  BY LenProperties
<1>2. RoleWrites(s, r) \in [1..Len(s) -> SyncOps]
  BY <1>1, SyncBuilt DEF RoleWrites
<1>3. RoleWrites(s, r) \in Seq(SyncOps)
  BY <1>1, <1>2
<1>4. Range(RoleWrites(s, r)) = {SyncRole(u, r) : u \in Range(s)}
  BY <1>1 DEF RoleWrites, Range
<1>5. \A x \in Range(RoleWrites(s, r)) : x.k \notin {"add", "drop"}
  BY <1>1, <1>4, SyncBuilt DEF Range
<1>6. QED
  BY <1>3, <1>4, <1>5 DEF Plain

LEMMA CustomWritesPlain ==
    ASSUME NEW u \in Users, NEW s \in Seq(CustomRoles), NEW g \in BOOLEAN
    PROVE  /\ Plain(CustomWrites(u, s, g))
           /\ Range(CustomWrites(u, s, g)) = {SyncCustom(u, c, g) : c \in Range(s)}
<1>1. Len(s) \in Nat /\ DOMAIN s = 1..Len(s) /\ \A i \in 1..Len(s) : s[i] \in CustomRoles
  BY LenProperties
<1>2. CustomWrites(u, s, g) \in [1..Len(s) -> SyncOps]
  BY <1>1, SyncBuilt DEF CustomWrites
<1>3. CustomWrites(u, s, g) \in Seq(SyncOps)
  BY <1>1, <1>2
<1>4. Range(CustomWrites(u, s, g)) = {SyncCustom(u, c, g) : c \in Range(s)}
  BY <1>1 DEF CustomWrites, Range
<1>5. \A x \in Range(CustomWrites(u, s, g)) : x.k \notin {"add", "drop"}
  BY <1>1, <1>4, SyncBuilt DEF Range
<1>6. QED
  BY <1>3, <1>4, <1>5 DEF Plain

LEMMA EnsureWritesPlain ==
    ASSUME NEW s \in Seq(CustomRoles), defs \in [CustomRoles -> SUBSET Grants]
    PROVE  /\ Plain(EnsureWrites(s))
           /\ Range(EnsureWrites(s)) = {Ensure(c, defs[c]) : c \in Range(s)}
<1>1. Len(s) \in Nat /\ DOMAIN s = 1..Len(s) /\ \A i \in 1..Len(s) : s[i] \in CustomRoles
  BY LenProperties
<1>2. EnsureWrites(s) \in [1..Len(s) -> SyncOps]
  BY <1>1, SyncBuilt DEF EnsureWrites
<1>3. EnsureWrites(s) \in Seq(SyncOps)
  BY <1>1, <1>2
<1>4. Range(EnsureWrites(s)) = {Ensure(c, defs[c]) : c \in Range(s)}
  BY <1>1 DEF EnsureWrites, Range
<1>5. \A x \in Range(EnsureWrites(s)) : x.k \notin {"add", "drop"}
  <2>1. \A c \in CustomRoles : Ensure(c, defs[c]).k = "ensure"
    BY SyncBuilt
  <2>2. Range(s) \subseteq CustomRoles
    BY <1>1 DEF Range
  <2>3. QED
    BY <1>4, <2>1, <2>2
<1>6. QED
  BY <1>3, <1>4, <1>5 DEF Plain

\* Some of the custom roles, in some order.
LEMMA SomeRoles ==
    ASSUME NEW S \in SUBSET CustomRoles
    PROVE  SomeSeq(S) \in Seq(CustomRoles) /\ Range(SomeSeq(S)) = S
<1>1. IsFiniteSet(S)
  BY IamAssumption, FS_Subset
<1>2. QED
  BY <1>1, Listed, SeqMonotonic

\* Some of the users, in some order.
LEMMA SomeUsers ==
    ASSUME NEW S \in SUBSET Users
    PROVE  SomeSeq(S) \in Seq(Users) /\ Range(SomeSeq(S)) = S
<1>1. IsFiniteSet(S)
  BY IamAssumption, FS_Subset
<1>2. QED
  BY <1>1, Listed, SeqMonotonic

\* The writes of a reseed.
LEMMA ReseedPlain ==
    ASSUME Shape
    PROVE  /\ Plain(ReseedWrites)
           /\ Range(ReseedWrites) = {[k |-> "seed"], [k |-> "orphans", defined |-> Defined]}
                                    \cup {Ensure(c, defs[c]) : c \in Defined}
<1> DEFINE known == SomeSeq(Defined)
           orphans == [k |-> "orphans", defined |-> Defined]
<1>1. Defined \in SUBSET CustomRoles /\ defs \in [CustomRoles -> SUBSET Grants]
  BY DEF Defined, Shape, TypeOK
<1>2. Plain(EnsureWrites(known)) /\ Range(EnsureWrites(known)) = {Ensure(c, defs[c]) : c \in Defined}
  BY <1>1, SomeRoles, EnsureWritesPlain
<1>3. /\ Plain(<<[k |-> "seed"]>>) /\ Range(<<[k |-> "seed"]>>) = {[k |-> "seed"]}
      /\ Plain(<<orphans>>) /\ Range(<<orphans>>) = {orphans}
  <2>1. /\ [k |-> "seed"] \in SyncOps /\ [k |-> "seed"].k \notin {"add", "drop"}
        /\ orphans \in SyncOps /\ orphans.k \notin {"add", "drop"}
    BY <1>1, SyncBuilt
  <2>2. QED
    BY <2>1, PlainSmall
<1>4. /\ Plain(<<[k |-> "seed"]>> \o EnsureWrites(known))
      /\ Range(<<[k |-> "seed"]>> \o EnsureWrites(known))
            = {[k |-> "seed"]} \cup {Ensure(c, defs[c]) : c \in Defined}
  BY <1>2, <1>3, PlainJoined
<1>5. /\ Plain(<<[k |-> "seed"]>> \o EnsureWrites(known) \o <<orphans>>)
      /\ Range(<<[k |-> "seed"]>> \o EnsureWrites(known) \o <<orphans>>)
            = {[k |-> "seed"]} \cup {Ensure(c, defs[c]) : c \in Defined} \cup {orphans}
  BY <1>3, <1>4, PlainJoined
<1>6. QED
  BY <1>5 DEF ReseedWrites

\* The writes of a repair of user u: for a member the fixed row and every
\* assigned row, for anybody else the removal of what there is.
LEMMA RepairPlain ==
    ASSUME Shape, NEW u \in Users
    PROVE  /\ Plain(RepairOfUser(u))
           /\ IsMember(u) =>
                Range(RepairOfUser(u)) = {SyncRole(u, members[u])}
                    \cup {SyncCustom(u, c, TRUE) : c \in ListUserCustomRoles(u)}
           /\ ~IsMember(u) =>
                Range(RepairOfUser(u)) = {SyncCustom(u, c, FALSE) : c \in {d \in CustomRoles : <<u, d>> \in groups}}
                    \cup (IF \E r \in FixedRoles : <<u, r>> \in groups THEN {SyncRole(u, "none")} ELSE {})
<1>1. members[u] \in Roles /\ "none" \in Roles
  BY DEF Shape, TypeOK, Roles
<1>2. ASSUME NEW r \in Roles
      PROVE  Plain(<<SyncRole(u, r)>>) /\ Range(<<SyncRole(u, r)>>) = {SyncRole(u, r)}
  <2>1. SyncRole(u, r) \in SyncOps /\ SyncRole(u, r).k \notin {"add", "drop"}
    BY SyncBuilt
  <2>2. QED
    BY <2>1, PlainSmall
<1>3. CASE IsMember(u)
  <2>1. ListUserCustomRoles(u) \in SUBSET CustomRoles
    BY DEF ListUserCustomRoles
  <2> DEFINE t == CustomWrites(u, SomeSeq(ListUserCustomRoles(u)), TRUE)
  <2>2. Plain(t) /\ Range(t) = {SyncCustom(u, c, TRUE) : c \in ListUserCustomRoles(u)}
    BY <2>1, SomeRoles, CustomWritesPlain
  <2>3. Plain(<<SyncRole(u, members[u])>> \o t)
        /\ Range(<<SyncRole(u, members[u])>> \o t) = {SyncRole(u, members[u])} \cup Range(t)
    BY <1>1, <1>2, <2>2, PlainJoined
  <2>4. RepairOfUser(u) = <<SyncRole(u, members[u])>> \o t
    BY <1>3 DEF RepairOfUser, CustomWrites
  <2>5. QED
    BY <1>3, <2>2, <2>3, <2>4
<1>4. CASE ~IsMember(u)
  <2> DEFINE S == {c \in CustomRoles : <<u, c>> \in groups}
             t == CustomWrites(u, SomeSeq(S), FALSE)
             f == IF \E r \in FixedRoles : <<u, r>> \in groups THEN <<SyncRole(u, "none")>> ELSE <<>>
  <2>1. Plain(t) /\ Range(t) = {SyncCustom(u, c, FALSE) : c \in S}
    BY SomeRoles, CustomWritesPlain
  <2>2. Plain(f) /\ Range(f) = IF \E r \in FixedRoles : <<u, r>> \in groups THEN {SyncRole(u, "none")} ELSE {}
    BY <1>1, <1>2, PlainSmall
  <2>3. Plain(t \o f) /\ Range(t \o f) = Range(t) \cup Range(f)
    BY <2>1, <2>2, PlainJoined
  <2>4. RepairOfUser(u) = t \o f
    BY <1>4 DEF RepairOfUser, CustomWrites
  <2>5. QED
    BY <1>4, <2>1, <2>2, <2>3, <2>4
<1>5. QED
  BY <1>3, <1>4

(***************************************************************************)
(* Requests: what they checked at their start                              *)
(***************************************************************************)
\* What the checks of request o found.  Served one at a time, it still holds
\* when the request commits.
Ready(o) ==
    /\ o.do = "createOrg" => org = "none"
    /\ o.do \in {"addMember", "accept"} => org # "none"
    /\ o.do = "addMember" => ~IsMember(o.user)
    /\ o.do \in {"updateRole", "removeMember", "assign"} => IsMember(o.user)
    /\ o.do = "updateRole" => ((members[o.user] = "OWNER" /\ o.role # "OWNER") => ~LastOwner)
    /\ o.do = "removeMember" => (members[o.user] = "OWNER" => ~LastOwner)
    /\ o.do \in {"consume", "accept"} =>
            /\ invites[o.invite].user # NoUser
            /\ ~invites[o.invite].accepted /\ ~invites[o.invite].declined
    /\ o.do = "accept" => (o.known <=> IsMember(invites[o.invite].user))
    /\ o.do \in {"defineRole", "updateCustom"} => o.perms # {}
    /\ o.do = "deleteRole" => Holders(o.role) = {}
    /\ o.do = "assign" => o.role \in Defined

\* The writes a repair starts with.
RepairBegun(o) ==
    /\ o.since = faults
    /\ \/ o.user \in Users /\ o.todo = RepairOfUser(o.user)
       \/ o.user = NoUser /\ org = "live" /\ o.todo = ReseedWrites

\* Request w has started, its checks passed.
Begun(w) ==
    \E o \in Ops : /\ Start(w, o) /\ Ready(o)
                   /\ o.do # "sync" /\ (o.do = "repair" => RepairBegun(o))

\* Every handler starts so.
LEMMA BeginReady ==
    ASSUME Shape, NEW w \in Workers, Begin(w)
    PROVE  Begun(w)
<1>t. /\ faults \in Nat /\ members \in [Users -> Roles] /\ invites \in [Invites -> Invite]
      /\ \A n \in Invites : invites[n].accepted \in BOOLEAN
  BY MembershipAssumption DEF Shape, TypeOK, Invite
<1>1. ASSUME NEW u \in Users, CreateOrg(w, u) PROVE Begun(w)
  <2>1. [do |-> "createOrg", user |-> u] \in Ops
    BY DEF Ops
  <2>2. Ready([do |-> "createOrg", user |-> u])
    BY <1>1 DEF CreateOrg, Ready
  <2>3. QED
    BY <1>1, <2>1, <2>2 DEF Begun, CreateOrg
<1>2. ASSUME NEW u \in Users, DeleteOrg(w, u) PROVE Begun(w)
  <2> DEFINE o == [do |-> "deleteOrg", seen |-> {v \in Users : IsMember(v)}]
  <2>1. o \in Ops /\ Ready(o)
    BY DEF Ops, Ready
  <2>2. QED
    BY <1>2, <2>1 DEF Begun, DeleteOrg
<1>3. ASSUME NEW u \in Users, SyncUserPolicies(w, u) PROVE Begun(w)
  <2> DEFINE o == [do |-> "repair", user |-> u, since |-> faults, todo |-> RepairOfUser(u)]
  <2>1. RepairOfUser(u) \in Seq(SyncOps)
    BY RepairPlain DEF Plain
  <2>2. o \in Ops
    BY <1>t, <2>1 DEF Ops
  <2>3. Ready(o) /\ RepairBegun(o)
    BY DEF Ready, RepairBegun
  <2>4. QED
    BY <1>3, <2>2, <2>3 DEF Begun, SyncUserPolicies
<1>4. ASSUME NEW g \in Users, NEW t \in Users, NEW r \in FixedRoles, AddMember(w, g, t, r) PROVE Begun(w)
  <2> DEFINE o == [do |-> "addMember", user |-> t, role |-> r]
  <2>1. o \in Ops /\ Ready(o)
    BY <1>4 DEF Ops, Ready, AddMember, Admitted, InOrg
  <2>2. QED
    BY <1>4, <2>1 DEF Begun, AddMember
<1>5. ASSUME NEW g \in Users, NEW t \in Users, NEW r \in FixedRoles, UpdateMemberRole(w, g, t, r) PROVE Begun(w)
  <2> DEFINE o == [do |-> "updateRole", user |-> t, role |-> r]
  <2>1. o \in Ops /\ Ready(o)
    BY <1>5 DEF Ops, Ready, UpdateMemberRole
  <2>2. QED
    BY <1>5, <2>1 DEF Begun, UpdateMemberRole
<1>6. ASSUME NEW g \in Users, NEW t \in Users, NEW r \in FixedRoles, InviteMember(w, g, t, r) PROVE Begun(w)
  <2> DEFINE o == [do |-> "invite", user |-> t, role |-> r]
  <2>1. o \in Ops /\ Ready(o)
    BY <1>6 DEF Ops, Ready, InviteMember
  <2>2. QED
    BY <1>6, <2>1 DEF Begun, InviteMember
<1>7. ASSUME NEW g \in Users, NEW t \in Users, RemoveMember(w, g, t) PROVE Begun(w)
  <2> DEFINE o == [do |-> "removeMember", user |-> t]
  <2>1. o \in Ops /\ Ready(o)
    BY <1>7 DEF Ops, Ready, RemoveMember
  <2>2. QED
    BY <1>7, <2>1 DEF Begun, RemoveMember
<1>8. ASSUME NEW n \in Invites, Pending(n), Start(w, [do |-> "consume", invite |-> n]) PROVE Begun(w)
  <2> DEFINE o == [do |-> "consume", invite |-> n]
  <2>1. o \in Ops /\ Ready(o)
    BY <1>8 DEF Ops, Ready, Pending
  <2>2. QED
    BY <1>8, <2>1 DEF Begun
<1>9. ASSUME NEW n \in Invites, AcceptInvite(w, n) PROVE Begun(w)
  <2> DEFINE o == [do |-> "accept", invite |-> n, known |-> IsMember(invites[n].user)]
  <2>1. o \in Ops /\ Ready(o)
    BY <1>9 DEF Ops, Ready, AcceptInvite, Acceptable, Pending, IsMember
  <2>2. QED
    BY <1>9, <2>1 DEF Begun, AcceptInvite
<1>10. ASSUME NEW g \in Users, NEW c \in CustomRoles, NEW perms \in SUBSET Grants, DefineRole(w, g, c, perms) PROVE Begun(w)
  <2> DEFINE o == [do |-> "defineRole", role |-> c, perms |-> perms]
  <2>1. o \in Ops /\ Ready(o)
    BY <1>10 DEF Ops, Ready, DefineRole
  <2>2. QED
    BY <1>10, <2>1 DEF Begun, DefineRole
<1>11. ASSUME NEW g \in Users, NEW c \in CustomRoles, NEW perms \in SUBSET Grants, UpdateRole(w, g, c, perms) PROVE Begun(w)
  <2> DEFINE o == [do |-> "updateCustom", role |-> c, perms |-> perms]
  <2>1. o \in Ops /\ Ready(o)
    BY <1>11 DEF Ops, Ready, UpdateRole
  <2>2. QED
    BY <1>11, <2>1 DEF Begun, UpdateRole
<1>12. ASSUME NEW g \in Users, NEW c \in CustomRoles, DeleteRole(w, g, c) PROVE Begun(w)
  <2> DEFINE o == [do |-> "deleteRole", role |-> c]
  <2>1. o \in Ops /\ Ready(o)
    BY <1>12 DEF Ops, Ready, DeleteRole
  <2>2. QED
    BY <1>12, <2>1 DEF Begun, DeleteRole
<1>13. ASSUME NEW g \in Users, NEW t \in Users, NEW c \in CustomRoles, AssignRole(w, g, t, c) PROVE Begun(w)
  <2> DEFINE o == [do |-> "assign", user |-> t, role |-> c]
  <2>1. o \in Ops /\ Ready(o)
    BY <1>13 DEF Ops, Ready, AssignRole
  <2>2. QED
    BY <1>13, <2>1 DEF Begun, AssignRole
<1>14. ASSUME NEW g \in Users, NEW t \in Users, NEW c \in CustomRoles, UnassignRole(w, g, t, c) PROVE Begun(w)
  <2> DEFINE o == [do |-> "unassign", user |-> t, role |-> c]
  <2>1. o \in Ops /\ Ready(o)
    BY <1>14 DEF Ops, Ready, UnassignRole
  <2>2. QED
    BY <1>14, <2>1 DEF Begun, UnassignRole
<1>15. ASSUME ReseedOrgPolicies(w) PROVE Begun(w)
  <2> DEFINE o == [do |-> "repair", user |-> NoUser, since |-> faults, todo |-> ReseedWrites]
  <2>1. ReseedWrites \in Seq(SyncOps)
    BY ReseedPlain DEF Plain
  <2>2. o \in Ops
    BY <1>t, <2>1 DEF Ops
  <2>3. Start(w, o) /\ org = "live"
    BY <1>15 DEF ReseedOrgPolicies, ReseedWrites, EnsureWrites
  <2>4. Ready(o) /\ RepairBegun(o)
    BY <2>3 DEF Ready, RepairBegun
  <2>5. QED
    BY <2>2, <2>3, <2>4 DEF Begun
<1>16. QED
  BY <1>1, <1>2, <1>3, <1>4, <1>5, <1>6, <1>7, <1>8, <1>9, <1>10, <1>11, <1>12, <1>13, <1>14, <1>15
  DEF Begin, RevokeInvite, DeclineInvite

(***************************************************************************)
(* Steps keep the shape                                                    *)
(***************************************************************************)
TablesTyped ==
    /\ org \in {"none", "live", "deleted"}
    /\ members \in [Users -> Roles]
    /\ invites \in [Invites -> Invite]
    /\ defs \in [CustomRoles -> SUBSET Grants]
    /\ assigned \subseteq Users \X CustomRoles

RowsTyped ==
    /\ groups \subseteq Users \X AllRoles
    /\ policies \in [AllRoles -> SUBSET Permissions]

\* Request w has committed; these are its writes.
Committed(w) ==
    /\ ~Idle(w) /\ TablesTyped'
    /\ \E todo : /\ Tidy(todo) /\ (todo # <<>> => Head(todo).k # "add")
                 /\ Then(w, todo)

\* A commit without a write, or with one.
LEMMA FewWrites ==
    /\ Tidy(<<>>)
    /\ \A x \in SyncOps : Tidy(<<x>>) /\ Head(<<x>>) = x
    /\ \A x, y \in SyncOps : y.k \notin {"add", "drop"} =>
            /\ Tidy(<<x, y>>) /\ Head(<<x, y>>) = x /\ <<x, y>> # <<>>
            /\ Range(<<x, y>>) = {x, y} /\ Tail(<<x, y>>) = <<y>>
<1>1. ASSUME NEW x \in SyncOps, NEW y \in SyncOps, y.k \notin {"add", "drop"}
      PROVE  /\ Tidy(<<x, y>>) /\ Head(<<x, y>>) = x /\ <<x, y>> # <<>>
             /\ Range(<<x, y>>) = {x, y} /\ Tail(<<x, y>>) = <<y>>
  <2>1. Plain(<<y>>)
    BY <1>1, PlainSmall
  <2>2. /\ <<x, y>> \in Seq(SyncOps) /\ Head(<<x, y>>) = x /\ <<x, y>> # <<>>
        /\ Tail(<<x, y>>) = <<y>>
    OBVIOUS
  <2>3. Range(<<x, y>>) = {x, y}
    BY DEF Range
  <2>4. QED
    BY <2>1, <2>2, <2>3 DEF Tidy
<1>2. QED
  BY <1>1, TidyLists, PlainSmall

LEMMA CreateOrgCommits ==
    ASSUME Shape, NEW w \in Workers, CommitCreateOrg(w)
    PROVE  Committed(w)
<1>1. op[w].user \in Users /\ ~Idle(w)
  BY OpFields DEF Shape, CommitCreateOrg, Doing, Idle
<1>2. TablesTyped'
  BY <1>1 DEF CommitCreateOrg, Shape, TypeOK, TablesTyped, Roles, FixedRoles
<1> DEFINE x == [k |-> "seed"]
           y == SyncRole(op[w].user, "OWNER")
<1>3. x \in SyncOps /\ x.k = "seed" /\ y \in SyncOps /\ y.k = "role"
  BY <1>1, SyncBuilt DEF Roles, FixedRoles
<1>4. Tidy(<<x, y>>) /\ Head(<<x, y>>) = x
  BY <1>3, FewWrites
<1>5. QED
  BY <1>1, <1>2, <1>3, <1>4 DEF Committed, CommitCreateOrg

LEMMA DeleteOrgCommits ==
    ASSUME Shape, NEW w \in Workers, CommitDeleteOrg(w)
    PROVE  Committed(w)
<1>1. op[w].seen \in SUBSET Users /\ ~Idle(w)
  BY OpFields DEF Shape, CommitDeleteOrg, Doing, Idle
<1>2. TablesTyped'
  BY <1>1 DEF CommitDeleteOrg, Shape, TypeOK, TablesTyped
<1> DEFINE s == RoleWrites(SomeSeq(op[w].seen), "none")
           x == [k |-> "unseed"]
<1>3. Plain(s)
  BY <1>1, SomeUsers, RoleWritesPlain DEF Roles
<1>4. x \in SyncOps /\ x.k = "unseed"
  BY SyncBuilt
<1>5. Plain(Append(s, x))
  <2>1. Append(s, x) = s \o <<x>>
    BY <1>3, <1>4, AppendIsConcat DEF Plain
  <2>2. Plain(<<x>>)
    BY <1>4, PlainSmall
  <2>3. QED
    BY <1>3, <2>1, <2>2, PlainJoined
<1>6. Append(s, x) # <<>> => Head(Append(s, x)).k # "add"
  BY <1>5, HeadAndTail DEF Plain
<1>7. Then(w, Append(s, x))
  BY DEF CommitDeleteOrg, RoleWrites
<1>8. QED
  BY <1>1, <1>2, <1>5, <1>6, <1>7, TidyLists DEF Committed

LEMMA AddMemberCommits ==
    ASSUME Shape, NEW w \in Workers, CommitAddMember(w)
    PROVE  Committed(w)
<1>1. op[w].user \in Users /\ op[w].role \in FixedRoles /\ ~Idle(w)
  BY OpFields DEF Shape, CommitAddMember, Doing, Idle
<1>2. TablesTyped'
  BY <1>1 DEF CommitAddMember, Shape, TypeOK, TablesTyped, Roles
<1>3. SyncRole(op[w].user, op[w].role) \in SyncOps /\ SyncRole(op[w].user, op[w].role).k = "role"
  BY <1>1, SyncBuilt DEF Roles
<1>4. QED
  BY <1>1, <1>2, <1>3, FewWrites DEF Committed, CommitAddMember

LEMMA UpdateMemberRoleCommits ==
    ASSUME Shape, NEW w \in Workers, CommitUpdateMemberRole(w)
    PROVE  Committed(w)
<1>1. op[w].user \in Users /\ op[w].role \in FixedRoles /\ ~Idle(w)
  BY OpFields DEF Shape, CommitUpdateMemberRole, Doing, Idle
<1>2. TablesTyped'
  BY <1>1 DEF CommitUpdateMemberRole, Shape, TypeOK, TablesTyped, Roles
<1>3. SyncRole(op[w].user, op[w].role) \in SyncOps /\ SyncRole(op[w].user, op[w].role).k = "role"
  BY <1>1, SyncBuilt DEF Roles
<1>4. QED
  BY <1>1, <1>2, <1>3, FewWrites DEF Committed, CommitUpdateMemberRole

\* The writes after a removal.
RemovalWrites(u) ==
    <<SyncRole(u, "none")>> \o CustomWrites(u, SomeSeq(ListUserCustomRoles(u)), FALSE)

LEMMA RemovalPlain ==
    ASSUME NEW u \in Users
    PROVE  /\ Plain(RemovalWrites(u)) /\ Head(RemovalWrites(u)) = SyncRole(u, "none")
           /\ RemovalWrites(u) # <<>>
           /\ Range(RemovalWrites(u)) = {SyncRole(u, "none")}
                    \cup {SyncCustom(u, c, FALSE) : c \in ListUserCustomRoles(u)}
<1> DEFINE s == CustomWrites(u, SomeSeq(ListUserCustomRoles(u)), FALSE)
           x == SyncRole(u, "none")
<1>1. Plain(s) /\ Range(s) = {SyncCustom(u, c, FALSE) : c \in ListUserCustomRoles(u)}
  BY SomeRoles, CustomWritesPlain DEF ListUserCustomRoles
<1>2. x \in SyncOps /\ x.k = "role"
  BY SyncBuilt DEF Roles
<1>3. s \in Seq(SyncOps)
  BY <1>1 DEF Plain
<1>4. QED
  BY <1>1, <1>2, <1>3, TidyLists, InFront DEF RemovalWrites

LEMMA RemoveMemberCommits ==
    ASSUME Shape, NEW w \in Workers, CommitRemoveMember(w)
    PROVE  Committed(w) /\ Then(w, RemovalWrites(op[w].user))
<1>1. op[w].user \in Users /\ ~Idle(w)
  BY OpFields DEF Shape, CommitRemoveMember, Doing, Idle
<1>2. TablesTyped'
  BY <1>1 DEF CommitRemoveMember, Shape, TypeOK, TablesTyped, Roles
<1>3. Then(w, RemovalWrites(op[w].user))
  BY DEF CommitRemoveMember, RemovalWrites, CustomWrites
<1>4. Tidy(RemovalWrites(op[w].user)) /\ Head(RemovalWrites(op[w].user)).k = "role"
  BY <1>1, RemovalPlain, TidyLists, SyncBuilt DEF Roles
<1>5. QED
  BY <1>1, <1>2, <1>3, <1>4 DEF Committed

LEMMA InviteCommits ==
    ASSUME Shape, NEW w \in Workers, CommitInvite(w)
    PROVE  Committed(w)
<1>1. op[w].user \in Users /\ op[w].role \in FixedRoles /\ ~Idle(w)
  BY OpFields DEF Shape, CommitInvite, Doing, Idle
<1>2. invites' \in [Invites -> Invite]
  <2>1. invites \in [Invites -> Invite]
    BY DEF Shape, TypeOK
  <2>2. [NoInvite EXCEPT !.user = op[w].user, !.role = op[w].role] \in Invite
    BY <1>1 DEF NoInvite, Invite
  <2>3. \A k \in Invites : [invites[k] EXCEPT !.declined = TRUE] \in Invite
    BY <2>1 DEF Invite
  <2>4. QED
    BY <2>1, <2>2, <2>3 DEF CommitInvite
<1>3. TablesTyped'
  BY <1>2 DEF CommitInvite, Shape, TypeOK, TablesTyped
<1>4. QED
  BY <1>1, <1>3, FewWrites DEF Committed, CommitInvite

LEMMA ConsumeCommits ==
    ASSUME Shape, NEW w \in Workers, CommitConsume(w)
    PROVE  Committed(w)
<1>1. op[w].invite \in Invites /\ ~Idle(w)
  BY OpFields DEF Shape, CommitConsume, Doing, Idle
<1>2. TablesTyped'
  BY <1>1 DEF CommitConsume, Shape, TypeOK, TablesTyped, Invite
<1>3. QED
  BY <1>1, <1>2, FewWrites DEF Committed, CommitConsume

LEMMA AcceptCommits ==
    ASSUME Shape, NEW w \in Workers, CommitAccept(w)
    PROVE  Committed(w)
<1> DEFINE n == op[w].invite
           u == invites[n].user
           x == SyncRole(u, invites[n].role)
<1>1. n \in Invites /\ ~Idle(w)
  BY OpFields DEF Shape, CommitAccept, Doing, Idle
<1>2. u \in Users /\ invites[n].role \in FixedRoles /\ invites \in [Invites -> Invite]
  BY <1>1 DEF Shape, TypeOK, InvitesSent, CommitAccept, Doing, Invite
<1>3. [invites EXCEPT ![n].accepted = TRUE] \in [Invites -> Invite]
  BY <1>1, <1>2 DEF Invite
<1>4. [members EXCEPT ![u] = invites[n].role] \in [Users -> Roles]
  BY <1>2 DEF Shape, TypeOK, Roles
<1>5. TablesTyped'
  BY <1>3, <1>4 DEF CommitAccept, Shape, TypeOK, TablesTyped
<1>6. x \in SyncOps /\ x.k = "role"
  BY <1>2, SyncBuilt DEF Roles
<1>7. Tidy(<<>>) /\ Tidy(<<x>>) /\ Head(<<x>>) = x
  BY <1>6, FewWrites
<1>8. Then(w, <<>>) \/ Then(w, <<x>>)
  BY DEF CommitAccept
<1>9. QED
  BY <1>1, <1>5, <1>6, <1>7, <1>8 DEF Committed

LEMMA DefineRoleCommits ==
    ASSUME Shape, NEW w \in Workers, CommitDefineRole(w)
    PROVE  Committed(w)
<1> DEFINE x == Ensure(op[w].role, op[w].perms)
<1>1. op[w].role \in CustomRoles /\ op[w].perms \in SUBSET Grants /\ ~Idle(w)
  BY OpFields DEF Shape, CommitDefineRole, Doing, Idle
<1>2. TablesTyped'
  BY <1>1 DEF CommitDefineRole, Shape, TypeOK, TablesTyped
<1>3. x \in SyncOps /\ x.k = "ensure"
  BY <1>1, SyncBuilt
<1>4. Tidy(<<>>) /\ Tidy(<<x>>) /\ Head(<<x>>) = x
  BY <1>3, FewWrites
<1>5. Then(w, <<>>) \/ Then(w, <<x>>)
  BY DEF CommitDefineRole
<1>6. QED
  BY <1>1, <1>2, <1>3, <1>4, <1>5 DEF Committed

LEMMA UpdateRoleCommits ==
    ASSUME Shape, NEW w \in Workers, CommitUpdateRole(w)
    PROVE  Committed(w)
<1> DEFINE x == Drop(op[w].role)
           y == Ensure(op[w].role, op[w].perms)
<1>1. op[w].role \in CustomRoles /\ op[w].perms \in SUBSET Grants /\ ~Idle(w)
  BY OpFields DEF Shape, CommitUpdateRole, Doing, Idle
<1>2. TablesTyped'
  BY <1>1 DEF CommitUpdateRole, Shape, TypeOK, TablesTyped
<1>3. x \in SyncOps /\ x.k = "drop" /\ y \in SyncOps /\ y.k = "ensure"
  BY <1>1, SyncBuilt
<1>4. Tidy(<<x, y>>) /\ Head(<<x, y>>) = x
  BY <1>3, FewWrites
<1>5. QED
  BY <1>1, <1>2, <1>3, <1>4 DEF Committed, CommitUpdateRole

LEMMA DeleteRoleCommits ==
    ASSUME Shape, NEW w \in Workers, CommitDeleteRole(w)
    PROVE  Committed(w)
<1> DEFINE x == Drop(op[w].role)
<1>1. op[w].role \in CustomRoles /\ ~Idle(w)
  BY OpFields DEF Shape, CommitDeleteRole, Doing, Idle
<1>2. TablesTyped'
  BY <1>1 DEF CommitDeleteRole, Shape, TypeOK, TablesTyped
<1>3. x \in SyncOps /\ x.k = "drop"
  BY <1>1, SyncBuilt
<1>4. Tidy(<<x>>) /\ Head(<<x>>) = x
  BY <1>3, FewWrites
<1>5. QED
  BY <1>1, <1>2, <1>3, <1>4 DEF Committed, CommitDeleteRole

LEMMA AssignRoleCommits ==
    ASSUME Shape, NEW w \in Workers, CommitAssignRole(w)
    PROVE  Committed(w)
<1> DEFINE x == SyncCustom(op[w].user, op[w].role, TRUE)
<1>1. op[w].user \in Users /\ op[w].role \in CustomRoles /\ ~Idle(w)
  BY OpFields DEF Shape, CommitAssignRole, Doing, Idle
<1>2. TablesTyped'
  BY <1>1 DEF CommitAssignRole, Shape, TypeOK, TablesTyped
<1>3. x \in SyncOps /\ x.k = "custom"
  BY <1>1, SyncBuilt
<1>4. Tidy(<<>>) /\ Tidy(<<x>>) /\ Head(<<x>>) = x
  BY <1>3, FewWrites
<1>5. Then(w, <<>>) \/ Then(w, <<x>>)
  BY DEF CommitAssignRole
<1>6. QED
  BY <1>1, <1>2, <1>3, <1>4, <1>5 DEF Committed

LEMMA UnassignRoleCommits ==
    ASSUME Shape, NEW w \in Workers, CommitUnassignRole(w)
    PROVE  Committed(w)
<1> DEFINE x == SyncCustom(op[w].user, op[w].role, FALSE)
<1>1. op[w].user \in Users /\ op[w].role \in CustomRoles /\ ~Idle(w)
  BY OpFields DEF Shape, CommitUnassignRole, Doing, Idle
<1>2. TablesTyped'
  BY <1>1 DEF CommitUnassignRole, Shape, TypeOK, TablesTyped
<1>3. x \in SyncOps /\ x.k = "custom"
  BY <1>1, SyncBuilt
<1>4. Tidy(<<x>>) /\ Head(<<x>>) = x
  BY <1>3, FewWrites
<1>5. QED
  BY <1>1, <1>2, <1>3, <1>4 DEF Committed, CommitUnassignRole

LEMMA RepairEnds ==
    ASSUME Shape, NEW w \in Workers, RepairDone(w)
    PROVE  Committed(w) /\ Then(w, <<>>)
<1>1. Then(w, <<>>) /\ ~Idle(w)
  BY DEF RepairDone, Then, Doing, Idle
<1>2. TablesTyped'
  BY DEF RepairDone, Shape, TypeOK, TablesTyped, tables
<1>3. QED
  BY <1>1, <1>2, FewWrites DEF Committed

\* Every commit leaves typed tables and an orderly list of writes.
LEMMA CommitsTidy ==
    ASSUME Shape, NEW w \in Workers, Commit(w)
    PROVE  Committed(w)
  BY CreateOrgCommits, DeleteOrgCommits, AddMemberCommits, UpdateMemberRoleCommits,
     RemoveMemberCommits, InviteCommits, ConsumeCommits, AcceptCommits, DefineRoleCommits,
     UpdateRoleCommits, DeleteRoleCommits, AssignRoleCommits, UnassignRoleCommits, RepairEnds
  DEF Commit

\* An invite that was sent keeps its addressee.
LEMMA InvitesKeepUser ==
    ASSUME Shape, Next
    PROVE  \A n \in Invites : invites[n].user \in Users => invites'[n].user = invites[n].user
<1>1. invites \in [Invites -> Invite]
  BY DEF Shape, TypeOK
<1>2. CASE UNCHANGED invites
  BY <1>2
<1>3. ASSUME NEW w \in Workers, CommitInvite(w)
      PROVE  \A n \in Invites : invites[n].user \in Users => invites'[n].user = invites[n].user
  BY <1>1, <1>3, MembershipAssumption DEF CommitInvite, FreeInvite, NoInvite, Invite
<1>4. ASSUME NEW w \in Workers, CommitConsume(w) \/ CommitAccept(w)
      PROVE  \A n \in Invites : invites[n].user \in Users => invites'[n].user = invites[n].user
  BY <1>1, <1>4 DEF CommitConsume, CommitAccept, Invite
<1>5. ASSUME NEW n \in Invites, InviteLapses(n)
      PROVE  \A k \in Invites : invites[k].user \in Users => invites'[k].user = invites[k].user
  BY <1>1, <1>5 DEF InviteLapses, Invite
<1>6. ASSUME NEW w \in Workers, Begin(w) PROVE UNCHANGED invites
  BY <1>6, BeginReady DEF Begun, Start, tables
<1>7. ASSUME NEW w \in Workers, Sync(w) \/ SyncFails(w) PROVE UNCHANGED invites
  BY <1>7 DEF Sync, SyncMembership, SyncOthers, Rest, SyncFails, tables
<1>8. ASSUME NEW w \in Workers, Commit(w)
      PROVE  CommitInvite(w) \/ CommitConsume(w) \/ CommitAccept(w) \/ UNCHANGED invites
  BY <1>8 DEF Commit, CommitCreateOrg, CommitDeleteOrg, CommitAddMember, CommitUpdateMemberRole,
        CommitRemoveMember, CommitDefineRole, CommitUpdateRole, CommitDeleteRole, CommitAssignRole,
        CommitUnassignRole, RepairDone, tables
<1>9. QED
  BY <1>2, <1>3, <1>4, <1>5, <1>6, <1>7, <1>8 DEF Next

\* What is seeded or granted is a permission.
LEMMA SeededTyped == Grants \subseteq Permissions /\ \A r : Seeded(r) \subseteq Permissions
<1>1. Grants \subseteq Permissions /\ AdminPermissions \subseteq Permissions /\ {Wildcard} \subseteq Permissions
  BY IamAssumption DEF Permissions, RoleRegistry
<1>2. MemberPermissions \subseteq Permissions
  BY DEF MemberPermissions, Permissions, RoleRegistry, AdminPermissions, Of
<1>3. QED
  BY <1>1, <1>2 DEF Seeded

\* What remains to be written after the next write.
Remaining(w) ==
    LET x == NextOp(w) IN
    IF x.k = "role" /\ x.role # "none"
    THEN <<[x EXCEPT !.k = "add"]>> \o Tail(op[w].todo) ELSE Tail(op[w].todo)

\* The next write and what remains.
LEMMA NextWrite ==
    ASSUME Shape, NEW w \in Workers, Writing(w)
    PROVE  /\ Busy(w) /\ op[w].todo \in Seq(SyncOps) /\ op[w].todo # <<>>
           /\ NextOp(w) \in SyncOps /\ Plain(Tail(op[w].todo)) /\ Tidy(Remaining(w))
           /\ Range(op[w].todo) = {NextOp(w)} \cup Range(Tail(op[w].todo))
           /\ (NextOp(w).k = "role" /\ NextOp(w).role # "none") =>
                LET y == [NextOp(w) EXCEPT !.k = "add"] IN
                /\ y \in SyncOps /\ y.k = "add" /\ y.user = NextOp(w).user /\ y.role = NextOp(w).role
                /\ Remaining(w) # <<>> /\ Head(Remaining(w)) = y
                /\ Tail(Remaining(w)) = Tail(op[w].todo)
                /\ Range(Remaining(w)) = {y} \cup Range(Tail(op[w].todo))
<1>1. Busy(w) /\ op[w].todo # <<>>
  BY DEF Writing, Busy
<1>2. Tidy(op[w].todo)
  BY <1>1 DEF Shape
<1>3. /\ op[w].todo \in Seq(SyncOps) /\ NextOp(w) \in SyncOps /\ Plain(Tail(op[w].todo))
      /\ Range(op[w].todo) = {NextOp(w)} \cup Range(Tail(op[w].todo))
  BY <1>1, <1>2, HeadAndTail DEF Tidy, NextOp
<1>4. CASE NextOp(w).k = "role" /\ NextOp(w).role # "none"
  <2> DEFINE y == [NextOp(w) EXCEPT !.k = "add"]
  <2>1. NextOp(w) \in [k: {"role"}, user: Users, role: Roles]
    BY <1>3, <1>4, SyncFields
  <2>2. y.k = "add" /\ y.user = NextOp(w).user /\ y.role = NextOp(w).role
    BY <2>1
  <2>3. y \in [k: {"add"}, user: Users, role: FixedRoles]
    BY <1>4, <2>1 DEF Roles
  <2>4. y \in SyncOps
    BY <2>3 DEF SyncOps
  <2>5. Remaining(w) = <<y>> \o Tail(op[w].todo)
    BY <1>4 DEF Remaining
  <2>6. Tail(op[w].todo) \in Seq(SyncOps)
    BY <1>3 DEF Plain
  <2>7. QED
    BY <1>1, <1>3, <2>2, <2>4, <2>5, <2>6, TidyLists, InFront
<1>5. CASE ~(NextOp(w).k = "role" /\ NextOp(w).role # "none")
  <2>1. Remaining(w) = Tail(op[w].todo)
    BY <1>5 DEF Remaining
  <2>2. QED
    BY <1>1, <1>3, <1>5, <2>1, TidyLists
<1>6. QED
  BY <1>4, <1>5

\* The tables of Casbin after write x.
Written(x) ==
    \/ x.k = "role" /\ SweepFixedRoles(x.user)
    \/ x.k = "add" /\ AddGrouping(x.user, x.role)
    \/ x.k = "custom" /\ SyncCustomGrouping(x.user, x.role, x.grant)
    \/ x.k = "ensure" /\ EnsureCustomRolePolicies(x.role, x.perms)
    \/ x.k = "drop" /\ RemoveCustomRolePolicies(x.role)
    \/ x.k = "orphans" /\ RemoveOrphans(x.defined)
    \/ x.k = "seed" /\ SeedOrgPolicies
    \/ x.k = "unseed" /\ RemoveOrgPolicies

\* A step of Sync makes the next write.
LEMMA SyncWrites ==
    ASSUME NEW w \in Workers, Sync(w)
    PROVE  Writing(w) /\ ~Locked(w) /\ Written(NextOp(w)) /\ Rest(w, Remaining(w))
<1>1. CASE SyncMembership(w)
  <2>1. CASE NextOp(w).k = "role"
    BY <1>1, <2>1 DEF SyncMembership, Written, Remaining
  <2>2. CASE NextOp(w).k = "add"
    BY <1>1, <2>2 DEF SyncMembership, Written, Remaining
  <2>3. QED
    BY <1>1, <2>1, <2>2 DEF SyncMembership
<1>2. CASE SyncOthers(w)
  BY <1>2 DEF SyncOthers, Written, Remaining
<1>3. QED
  BY <1>1, <1>2 DEF Sync

\* Every write leaves typed rows.
LEMMA WrittenTyped ==
    ASSUME Shape, NEW x \in SyncOps, Written(x)
    PROVE  RowsTyped'
<1>1. /\ groups \subseteq Users \X AllRoles /\ policies \in [AllRoles -> SUBSET Permissions]
      /\ CustomRoles \subseteq AllRoles /\ FixedRoles \subseteq AllRoles
  BY DEF Shape, TypeOK, AllRoles
<1>2. CASE x.k = "role" /\ SweepFixedRoles(x.user)
  BY <1>1, <1>2 DEF SweepFixedRoles, RowsTyped
<1>3. CASE x.k = "add" /\ AddGrouping(x.user, x.role)
  BY <1>1, <1>3, SyncFields DEF AddGrouping, RowsTyped
<1>4. CASE x.k = "custom" /\ SyncCustomGrouping(x.user, x.role, x.grant)
  BY <1>1, <1>4, SyncFields DEF SyncCustomGrouping, RowsTyped
<1>5. CASE x.k = "ensure" /\ EnsureCustomRolePolicies(x.role, x.perms)
  BY <1>1, <1>5, SyncFields, SeededTyped DEF EnsureCustomRolePolicies, RowsTyped
<1>6. CASE x.k = "drop" /\ RemoveCustomRolePolicies(x.role)
  BY <1>1, <1>6, SyncFields DEF RemoveCustomRolePolicies, RowsTyped
<1>7. CASE x.k = "orphans" /\ RemoveOrphans(x.defined)
  BY <1>1, <1>7 DEF RemoveOrphans, RowsTyped
<1>8. CASE x.k = "seed" /\ SeedOrgPolicies
  BY <1>1, <1>8, SeededTyped DEF SeedOrgPolicies, RowsTyped
<1>9. CASE x.k = "unseed" /\ RemoveOrgPolicies
  BY <1>1, <1>9 DEF RemoveOrgPolicies, RowsTyped
<1>10. QED
  BY <1>2, <1>3, <1>4, <1>5, <1>6, <1>7, <1>8, <1>9 DEF Written

\* The step of one request leaves a record of its kind.
LEMMA OpStep ==
    ASSUME Shape, NEW w \in Workers, NEW o \in Ops, op' = [op EXCEPT ![w] = o],
           o.do \in {"sync", "repair"} => Tidy(o.todo),
           o.do \in {"consume", "accept"} => invites'[o.invite].user \in Users,
           \A n \in Invites : invites[n].user \in Users => invites'[n].user = invites[n].user,
           TablesTyped', RowsTyped', serial' \in BOOLEAN,
           served' \in 0..(MaxRequests + MaxRacing), faults' \in 0..MaxFaults
    PROVE  Shape'
<1>1. op \in [Workers -> Ops] /\ \A v \in Workers : Busy(v) => Tidy(op[v].todo)
  BY DEF Shape
<1>2. op' \in [Workers -> Ops] /\ \A v \in Workers : op'[v] = IF v = w THEN o ELSE op[v]
  BY <1>1
<1>3. \A v \in Workers : Busy(v)' => Tidy(op'[v].todo)
  BY <1>1, <1>2 DEF Busy
<1>4. InvitesSent'
  <2>1. SUFFICES ASSUME NEW v \in Workers, op'[v].do \in {"consume", "accept"}
                 PROVE  invites'[op'[v].invite].user \in Users
    BY DEF InvitesSent
  <2>2. CASE v = w
    BY <1>2, <2>1, <2>2
  <2>3. CASE v # w
    BY <1>1, <1>2, <2>1, <2>3, OpFields DEF Shape, InvitesSent
  <2>4. QED
    BY <2>2, <2>3
<1>5. \A v \in Workers : Writing(v)' => \A i \in DOMAIN op'[v].todo : op'[v].todo[i] \in SyncOps
  BY <1>3 DEF Writing, Busy, Tidy
<1>6. TypeOK'
  BY <1>5 DEF TypeOK, TablesTyped, RowsTyped
<1>7. QED
  BY <1>2, <1>3, <1>4, <1>6 DEF Shape


\* A request whose next write failed has nothing left to do, or the rest.
LEMMA FailsTidy ==
    ASSUME Shape, NEW w \in Workers, SyncFails(w)
    PROVE  \E o \in Ops : /\ op' = [op EXCEPT ![w] = o]
                          /\ \/ o = [do |-> "idle"]
                             \/ o.do = "sync" /\ o.todo = Tail(op[w].todo) /\ Plain(o.todo)
<1>1. Writing(w) /\ op[w] \in Ops /\ op \in [Workers -> Ops]
  BY DEF SyncFails, Shape
<1>2. CASE op' = [op EXCEPT ![w] = [do |-> "idle"]]
  BY <1>2 DEF Ops
<1>3. CASE Doing(w, "sync") /\ op' = [op EXCEPT ![w].todo = Tail(@)]
  <2> DEFINE o == [op[w] EXCEPT !.todo = Tail(op[w].todo)]
  <2>1. op[w] \in [do: {"sync"}, todo: Seq(SyncOps)]
    BY <1>1, <1>3, OpFields DEF Doing
  <2>2. Plain(Tail(op[w].todo))
    BY <1>1, NextWrite
  <2>3. o \in [do: {"sync"}, todo: Seq(SyncOps)] /\ o.todo = Tail(op[w].todo)
    BY <2>1, <2>2 DEF Plain
  <2>4. op' = [op EXCEPT ![w] = o] /\ o \in Ops
    BY <1>1, <1>3, <2>3 DEF Ops
  <2>5. QED
    BY <2>2, <2>3, <2>4
<1>4. QED
  BY <1>2, <1>3 DEF SyncFails

\* Where a request stands after a write.
LEMMA RestTidy ==
    ASSUME Shape, NEW w \in Workers, Sync(w)
    PROVE  \E o \in Ops : /\ op' = [op EXCEPT ![w] = o]
                          /\ \/ o = [do |-> "idle"] /\ Doing(w, "sync") /\ Remaining(w) = <<>>
                             \/ o.do = "sync" /\ o.todo = Remaining(w)
                             \/ /\ o.do = "repair" /\ o.todo = Remaining(w)
                                /\ Doing(w, "repair") /\ o.user = op[w].user /\ o.since = op[w].since
<1>1. Writing(w) /\ op[w] \in Ops /\ op \in [Workers -> Ops] /\ Rest(w, Remaining(w))
  BY SyncWrites DEF Shape
<1>2. Remaining(w) \in Seq(SyncOps)
  BY <1>1, NextWrite DEF Tidy
<1> DEFINE o == [op[w] EXCEPT !.todo = Remaining(w)]
<1>3. CASE Remaining(w) = <<>> /\ Doing(w, "sync")
  BY <1>1, <1>3 DEF Rest, Hold, Ops
<1>4. CASE Doing(w, "sync") /\ op' = [op EXCEPT ![w] = o]
  <2>1. op[w] \in [do: {"sync"}, todo: Seq(SyncOps)]
    BY <1>1, <1>4, OpFields DEF Doing
  <2>2. o \in [do: {"sync"}, todo: Seq(SyncOps)] /\ o.todo = Remaining(w)
    BY <1>2, <2>1
  <2>3. QED
    BY <1>4, <2>2 DEF Ops
<1>5. CASE Doing(w, "repair") /\ op' = [op EXCEPT ![w] = o]
  <2>1. op[w] \in [do: {"repair"}, user: Users \cup {NoUser}, since: Nat, todo: Seq(SyncOps)]
    BY <1>1, <1>5, OpFields DEF Doing
  <2>2. /\ o \in [do: {"repair"}, user: Users \cup {NoUser}, since: Nat, todo: Seq(SyncOps)]
        /\ o.todo = Remaining(w) /\ o.user = op[w].user /\ o.since = op[w].since
    BY <1>2, <2>1
  <2>3. QED
    BY <1>5, <2>2 DEF Ops
<1>6. QED
  BY <1>1, <1>3, <1>4, <1>5 DEF Rest, Hold, Writing, Doing

\* Where a request stands after its commit.
LEMMA ThenTidy ==
    ASSUME Shape, NEW w \in Workers, NEW todo, Tidy(todo), Then(w, todo)
    PROVE  \E o \in Ops : /\ op' = [op EXCEPT ![w] = o]
                          /\ \/ o = [do |-> "idle"] /\ todo = <<>>
                             \/ o.do = "sync" /\ o.todo = todo
<1>1. CASE todo = <<>>
  BY <1>1 DEF Then, Hold, Ops
<1>2. CASE todo # <<>>
  <2>1. [do |-> "sync", todo |-> todo] \in Ops
    BY DEF Tidy, Ops
  <2>2. QED
    BY <1>2, <2>1 DEF Then, Hold
<1>3. QED
  BY <1>1, <1>2

\* Every step keeps the shape.
LEMMA ShapeStep == Shape /\ [Next]_vars => Shape'
<1> SUFFICES ASSUME Shape, [Next]_vars PROVE Shape'
  OBVIOUS
<1>1. /\ TablesTyped /\ RowsTyped /\ serial \in BOOLEAN
      /\ served \in 0..(MaxRequests + MaxRacing) /\ faults \in 0..MaxFaults
      /\ MaxRequests \in Nat /\ MaxRacing \in Nat /\ MaxFaults \in Nat
  BY MembershipAssumption DEF Shape, TypeOK, TablesTyped, RowsTyped
<1>2. CASE UNCHANGED vars
  BY <1>2 DEF vars, tables, Shape, TypeOK, InvitesSent, Busy, Writing
<1>3. CASE Next
  <2>1. \A n \in Invites : invites[n].user \in Users => invites'[n].user = invites[n].user
    BY <1>3, InvitesKeepUser
  <2>2. ASSUME NEW w \in Workers, Begin(w) PROVE Shape'
    <3>1. PICK o \in Ops : /\ Start(w, o) /\ Ready(o)
                           /\ o.do # "sync" /\ (o.do = "repair" => RepairBegun(o))
      BY <2>2, BeginReady DEF Begun
    <3>2. /\ op' = [op EXCEPT ![w] = o] /\ TablesTyped' /\ RowsTyped' /\ serial' \in BOOLEAN
          /\ faults' \in 0..MaxFaults /\ UNCHANGED invites
      BY <1>1, <3>1 DEF Start, Hold, tables, TablesTyped, RowsTyped
    <3>3. served' \in 0..(MaxRequests + MaxRacing)
      BY <1>1, <3>1 DEF Start
    <3>4. o.do = "repair" => Tidy(o.todo)
      BY <3>1, RepairPlain, ReseedPlain, TidyLists DEF RepairBegun
    <3>5. o.do \in {"consume", "accept"} => invites'[o.invite].user \in Users
      BY <1>1, <3>1, <3>2, OpFields DEF Ready, TablesTyped, Invite
    <3>6. QED
      BY <2>1, <3>1, <3>2, <3>3, <3>4, <3>5, OpStep
  <2>3. ASSUME NEW w \in Workers, Commit(w) PROVE Shape'
    <3>1. Committed(w)
      BY <2>3, CommitsTidy
    <3>2. PICK todo : Tidy(todo) /\ Then(w, todo)
      BY <3>1 DEF Committed
    <3>3. /\ TablesTyped' /\ RowsTyped' /\ serial' \in BOOLEAN
          /\ served' \in 0..(MaxRequests + MaxRacing) /\ faults' \in 0..MaxFaults
      BY <1>1, <3>1, <3>2 DEF Committed, Then, RowsTyped
    <3>4. PICK o \in Ops : /\ op' = [op EXCEPT ![w] = o]
                           /\ \/ o = [do |-> "idle"] /\ todo = <<>>
                              \/ o.do = "sync" /\ o.todo = todo
      BY <3>2, ThenTidy
    <3>5. QED
      BY <2>1, <3>2, <3>3, <3>4, OpStep
  <2>4. ASSUME NEW w \in Workers, Sync(w) PROVE Shape'
    <3>1. Writing(w) /\ Written(NextOp(w)) /\ Rest(w, Remaining(w))
      BY <2>4, SyncWrites
    <3>2. NextOp(w) \in SyncOps /\ Tidy(Remaining(w))
      BY <3>1, NextWrite
    <3>3. RowsTyped'
      BY <3>1, <3>2, WrittenTyped
    <3>4. /\ TablesTyped' /\ serial' \in BOOLEAN
          /\ served' \in 0..(MaxRequests + MaxRacing) /\ faults' \in 0..MaxFaults
      BY <1>1, <3>1 DEF Rest, tables, TablesTyped
    <3>5. PICK o \in Ops : /\ op' = [op EXCEPT ![w] = o]
                           /\ \/ o = [do |-> "idle"]
                              \/ o.do \in {"sync", "repair"} /\ o.todo = Remaining(w)
      BY <2>4, RestTidy
    <3>6. QED
      BY <2>1, <3>2, <3>3, <3>4, <3>5, OpStep
  <2>5. ASSUME NEW w \in Workers, SyncFails(w) PROVE Shape'
    <3>1. /\ TablesTyped' /\ RowsTyped' /\ serial' \in BOOLEAN
          /\ served' \in 0..(MaxRequests + MaxRacing)
      BY <1>1, <2>5 DEF SyncFails, tables, TablesTyped, RowsTyped
    <3>2. faults' \in 0..MaxFaults
      BY <1>1, <2>5 DEF SyncFails
    <3>3. PICK o \in Ops : /\ op' = [op EXCEPT ![w] = o]
                           /\ \/ o = [do |-> "idle"]
                              \/ o.do = "sync" /\ Plain(o.todo)
      BY <2>5, FailsTidy
    <3>4. QED
      BY <2>1, <3>1, <3>2, <3>3, OpStep, TidyLists
  <2>6. ASSUME NEW n \in Invites, InviteLapses(n) PROVE Shape'
    <3>1. TablesTyped'
      BY <1>1, <2>6 DEF InviteLapses, TablesTyped, Invite
    <3>2. /\ RowsTyped' /\ serial' \in BOOLEAN /\ op' = op
          /\ served' \in 0..(MaxRequests + MaxRacing) /\ faults' \in 0..MaxFaults
      BY <1>1, <2>6 DEF InviteLapses, RowsTyped
    <3>3. /\ op' \in [Workers -> Ops] /\ \A w \in Workers : Busy(w)' => Tidy(op'[w].todo)
          /\ \A v \in Workers : Writing(v)' => \A i \in DOMAIN op'[v].todo : op'[v].todo[i] \in SyncOps
      BY <3>2 DEF Shape, Busy, Writing, TypeOK
    <3>4. InvitesSent'
      BY <2>1, <3>2, OpFields DEF Shape, InvitesSent
    <3>5. QED
      BY <3>1, <3>2, <3>3, <3>4 DEF Shape, TypeOK, TablesTyped, RowsTyped
  <2>7. QED
    BY <1>3, <2>2, <2>3, <2>4, <2>5, <2>6 DEF Next
<1>4. QED
  BY <1>2, <1>3

\* At the start.
LEMMA ShapeInit == Init => Shape
<1> SUFFICES ASSUME Init PROVE Shape
  OBVIOUS
<1>1. op \in [Workers -> Ops] /\ \A w \in Workers : op[w].do = "idle"
  BY DEF Init, Ops
<1>2. invites \in [Invites -> Invite] /\ members \in [Users -> Roles]
  BY DEF Init, NoInvite, Invite, Roles, FixedRoles
<1>3. TypeOK
  BY <1>1, <1>2, MembershipAssumption DEF Init, TypeOK, Writing
<1>4. QED
  BY <1>1, <1>3 DEF Init, Shape, InvitesSent, Busy

\* The shape of tables, rows and requests, in every state.
LEMMA ShapeHolds == Spec => []Shape
  BY ShapeInit, ShapeStep, PTL DEF Spec

(***************************************************************************)
(* One fixed role                                                          *)
(***************************************************************************)
\* Worker w is between the sweep and the add of SyncMembership.
Adding(w) == Writing(w) /\ NextOp(w).k = "add"

\* LockWrite lets one worker in, and it has swept the user's rows.
SweptFirst ==
    /\ \A v, w \in Workers : Adding(v) /\ Adding(w) => v = w
    /\ \A w \in Workers : Adding(w) => \A r \in FixedRoles : <<NextOp(w).user, r>> \notin groups

FixedInv == OneFixedRole /\ SweptFirst

\* A worker whose request moved on is not adding unless its next write is.
LEMMA NoNewAdder ==
    ASSUME Shape, SweptFirst, OneFixedRole, NEW w \in Workers, NEW o \in Ops,
           op' = [op EXCEPT ![w] = o],
           o.do \in {"sync", "repair"} => (o.todo = <<>> \/ Head(o.todo).k # "add"),
           \A u \in Users, r \in FixedRoles : <<u, r>> \in groups' => <<u, r>> \in groups
    PROVE  FixedInv'
<1>1. /\ ~Adding(w)'
      /\ \A v \in Workers : v # w => op'[v] = op[v]
  BY DEF Shape, Adding, Writing, NextOp
<1>2. \A v \in Workers : Adding(v)' => Adding(v) /\ NextOp(v)' = NextOp(v)
  BY <1>1 DEF Adding, Writing, NextOp
<1>3. \A v \in Workers : Adding(v) => NextOp(v).user \in Users
  BY NextWrite, SyncFields DEF Adding
<1>4. SweptFirst'
  BY <1>2, <1>3 DEF SweptFirst
<1>5. OneFixedRole'
  BY DEF OneFixedRole
<1>6. QED
  BY <1>4, <1>5 DEF FixedInv

\* A plain list does not begin with an add.
LEMMA PlainHead ==
    ASSUME NEW s, Plain(s)
    PROVE  s = <<>> \/ Head(s).k # "add"
  BY HeadAndTail DEF Plain

LEMMA FixedStep == Shape /\ FixedInv /\ [Next]_vars => FixedInv'
<1> SUFFICES ASSUME Shape, FixedInv, [Next]_vars PROVE FixedInv'
  OBVIOUS
<1>1. OneFixedRole /\ SweptFirst
  BY DEF FixedInv
<1>2. CASE UNCHANGED <<op, groups>>
  BY <1>1, <1>2 DEF FixedInv, OneFixedRole, SweptFirst, Adding, Writing, NextOp
<1>3. ASSUME NEW w \in Workers, Begin(w) PROVE FixedInv'
  <2>1. PICK o \in Ops : /\ Start(w, o) /\ o.do # "sync" /\ (o.do = "repair" => RepairBegun(o))
    BY <1>3, BeginReady DEF Begun
  <2>2. o.do = "repair" => Plain(o.todo)
    BY <2>1, RepairPlain, ReseedPlain DEF RepairBegun
  <2>3. op' = [op EXCEPT ![w] = o] /\ UNCHANGED groups
    BY <2>1 DEF Start, Hold
  <2>4. QED
    BY <1>1, <2>1, <2>2, <2>3, PlainHead, NoNewAdder
<1>4. ASSUME NEW w \in Workers, Commit(w) PROVE FixedInv'
  <2>1. PICK todo : Tidy(todo) /\ (todo # <<>> => Head(todo).k # "add") /\ Then(w, todo)
    BY <1>4, CommitsTidy DEF Committed
  <2>2. PICK o \in Ops : /\ op' = [op EXCEPT ![w] = o]
                         /\ \/ o = [do |-> "idle"] /\ todo = <<>>
                            \/ o.do = "sync" /\ o.todo = todo
    BY <2>1, ThenTidy
  <2>3. UNCHANGED groups
    BY <2>1 DEF Then
  <2>4. QED
    BY <1>1, <2>1, <2>2, <2>3, NoNewAdder
<1>5. ASSUME NEW w \in Workers, SyncFails(w) PROVE FixedInv'
  <2>1. PICK o \in Ops : /\ op' = [op EXCEPT ![w] = o]
                         /\ \/ o = [do |-> "idle"]
                            \/ o.do = "sync" /\ Plain(o.todo)
    BY <1>5, FailsTidy
  <2>2. UNCHANGED groups
    BY <1>5 DEF SyncFails
  <2>3. QED
    BY <1>1, <2>1, <2>2, PlainHead, NoNewAdder
<1>6. ASSUME NEW w \in Workers, Sync(w) PROVE FixedInv'
  <2> DEFINE x == NextOp(w)
  <2>1. Writing(w) /\ ~Locked(w) /\ Written(x)
    BY <1>6, SyncWrites
  <2>2. x \in SyncOps /\ Plain(Tail(op[w].todo))
    BY <2>1, NextWrite
  <2>3. PICK o \in Ops : /\ op' = [op EXCEPT ![w] = o]
                         /\ \/ o = [do |-> "idle"]
                            \/ o.do \in {"sync", "repair"} /\ o.todo = Remaining(w)
    BY <1>6, RestTidy
  <2>4. /\ \A v \in Workers : v # w => ~Adding(v) /\ op'[v] = op[v]
        /\ op'[w] = o
    BY <2>1, <2>3 DEF Locked, Adding, Shape
  <2>5. CASE x.k = "role" /\ x.role # "none"
    <3>1. groups' = groups \ ({x.user} \X FixedRoles)
      BY <2>1, <2>5 DEF Written, SweepFixedRoles
    <3>2. Head(Remaining(w)).user = x.user
      BY <2>1, <2>5, NextWrite
    <3>3. \A v \in Workers : Adding(v)' => v = w
      BY <2>4 DEF Adding, Writing, NextOp
    <3>4. Adding(w)' => NextOp(w)'.user = x.user
      BY <2>3, <2>4, <3>2 DEF Adding, Writing, NextOp
    <3>5. SweptFirst'
      BY <3>1, <3>3, <3>4 DEF SweptFirst
    <3>6. OneFixedRole'
      BY <1>1, <3>1 DEF OneFixedRole
    <3>7. QED
      BY <3>5, <3>6 DEF FixedInv
  <2>6. CASE ~(x.k = "role" /\ x.role # "none")
    <3>1. Remaining(w) = Tail(op[w].todo)
      BY <2>6 DEF Remaining
    <3>2. o.do \in {"sync", "repair"} => (o.todo = <<>> \/ Head(o.todo).k # "add")
      BY <2>2, <2>3, <3>1, PlainHead
    <3>3. CASE x.k # "add"
      <4>1. \A u \in Users, r \in FixedRoles : <<u, r>> \in groups' => <<u, r>> \in groups
        BY <2>1, <2>2, <3>3, SyncFields, IamAssumption
        DEF Written, SweepFixedRoles, SyncCustomGrouping, EnsureCustomRolePolicies,
            RemoveCustomRolePolicies, RemoveOrphans, SeedOrgPolicies, RemoveOrgPolicies
      <4>2. QED
        BY <1>1, <2>3, <3>2, <4>1, NoNewAdder
    <3>4. CASE x.k = "add"
      <4>1. groups' = groups \cup {<<x.user, x.role>>}
        BY <2>1, <3>4 DEF Written, AddGrouping
      <4>2. \A r \in FixedRoles : <<x.user, r>> \notin groups
        BY <1>1, <2>1, <3>4 DEF SweptFirst, Adding
      <4>3. OneFixedRole'
        BY <1>1, <4>1, <4>2 DEF OneFixedRole
      <4>4. \A v \in Workers : ~Adding(v)'
        BY <2>4, <3>2 DEF Adding, Writing, NextOp
      <4>5. QED
        BY <4>3, <4>4 DEF FixedInv, SweptFirst
    <3>5. QED
      BY <3>3, <3>4
  <2>7. QED
    BY <2>5, <2>6
<1>7. QED
  BY <1>2, <1>3, <1>4, <1>5, <1>6 DEF Next, InviteLapses, vars

\* What the invariant of one fixed role says in every state.
LEMMA FixedHolds == Spec => []FixedInv
<1>1. Init => FixedInv
  BY DEF Init, FixedInv, OneFixedRole, SweptFirst, Adding, Writing
<1>2. QED
  BY <1>1, FixedStep, ShapeHolds, PTL DEF Spec

\* However syncs overlap, fail or are repaired, nobody holds two fixed roles
\* at once: the sweep and the add are one step under LockWrite, and a failure
\* between them leaves the user without a role, never with two.
THEOREM NobodyHasTwoRoles == Spec => []OneFixedRole
<1>1. FixedInv => OneFixedRole
  BY DEF FixedInv
<1>2. QED
  BY <1>1, FixedHolds, PTL

(***************************************************************************)
(* One request at a time: members, invites and custom roles                *)
(***************************************************************************)
\* What an address was sent and nobody answered.
Open(n) == invites[n].user \in Users /\ ~invites[n].accepted /\ ~invites[n].declined

\* The tables agree with each other.
TablesSound ==
    /\ org = "none" => \A u \in Users : ~IsMember(u)
    /\ org = "live" => \E u \in Users : members[u] = "OWNER"
    /\ \A u \in Users, c \in CustomRoles : <<u, c>> \in assigned => IsMember(u) /\ c \in Defined
    /\ \A m, n \in Invites : (Open(m) /\ Open(n) /\ invites[m].user = invites[n].user) => m = n
    /\ \A n \in Invites : ~(invites[n].accepted /\ invites[n].declined)

\* Served one at a time, at most one request is in flight and its checks
\* still hold.
Alone == \A v, w \in Workers : v # w => Idle(v) \/ Idle(w)

SerialInv ==
    serial => Alone /\ (\A w \in Workers : Ready(op[w])) /\ TablesSound

\* Users are counted.
LEMMA Counted ==
    ASSUME NEW S \in SUBSET Users
    PROVE  IsFiniteSet(S) /\ Cardinality(S) \in Nat
  BY IamAssumption, FS_Subset, FS_CardinalityType

\* Whoever goes or steps down is not the last owner.
LEMMA AnotherOwner ==
    ASSUME ~LastOwner, NEW t \in Users
    PROVE  \E u \in Users : u # t /\ members[u] = "OWNER"
<1> SUFFICES ASSUME \A u \in Users : u = t \/ members[u] # "OWNER" PROVE FALSE
  OBVIOUS
<1> DEFINE O == {u \in Users : members[u] = "OWNER"}
<1>1. IsFiniteSet(O) /\ Cardinality(O) \in Nat
  BY Counted
<1>2. IsFiniteSet({t}) /\ Cardinality({t}) = 1 /\ O \in SUBSET {t}
  BY FS_Singleton
<1>3. Cardinality(O) <= 1
  BY <1>2, FS_Subset
<1>4. QED
  BY <1>3 DEF LastOwner, CountOwners

\* Somebody who owns is counted.
LEMMA OwnersCounted ==
    ASSUME NEW u \in Users, members[u] = "OWNER"
    PROVE  CountOwners > 0
<1> DEFINE O == {v \in Users : members[v] = "OWNER"}
<1>1. IsFiniteSet(O) /\ Cardinality(O) \in Nat
  BY Counted
<1>2. O # {}
  OBVIOUS
<1>3. Cardinality(O) # 0
  BY <1>1, <1>2, FS_EmptySet
<1>4. QED
  BY <1>1, <1>3 DEF CountOwners

\* What a commit does to members, seen alone.
LEMMA CreateOrgSound ==
    ASSUME Shape, TablesSound, NEW w \in Workers, Ready(op[w]), CommitCreateOrg(w)
    PROVE  TablesSound'
<1>1. op[w].user \in Users /\ org = "none" /\ members \in [Users -> Roles] /\ "OWNER" \in Roles
  BY OpFields DEF Shape, TypeOK, CommitCreateOrg, Doing, Ready, Roles, FixedRoles
<1>2. members' = [members EXCEPT ![op[w].user] = "OWNER"] /\ UNCHANGED <<invites, defs, assigned>> /\ org' = "live"
  BY DEF CommitCreateOrg
<1>3. \A u \in Users : IsMember(u) => IsMember(u)'
  BY <1>1, <1>2 DEF IsMember
<1>4. Defined' = Defined /\ \A n \in Invites : Open(n)' <=> Open(n)
  BY <1>2 DEF Defined, Open
<1>5. QED
  BY <1>1, <1>2, <1>3, <1>4 DEF TablesSound

\* A commit that leaves the roster, the definitions and the assignments.
LEMMA SameMembers ==
    ASSUME TablesSound, UNCHANGED <<members, defs, assigned, invites>>, org' \in {org, "deleted"}
    PROVE  TablesSound'
  BY DEF TablesSound, IsMember, Defined, Open

\* A commit that writes one membership.
LEMMA OneMembership ==
    ASSUME Shape, TablesSound, org # "none", UNCHANGED <<org, defs, assigned>>,
           NEW u \in Users, NEW r \in Roles, members' = [members EXCEPT ![u] = r], r # "none",
           (members[u] = "OWNER" /\ r # "OWNER") => ~LastOwner
    PROVE  /\ org' = "none" => \A v \in Users : ~IsMember(v)'
           /\ org' = "live" => \E v \in Users : members'[v] = "OWNER"
           /\ \A v \in Users, c \in CustomRoles : <<v, c>> \in assigned' => IsMember(v)' /\ c \in Defined'
<1>1. members \in [Users -> Roles] /\ members'[u] = r /\ \A v \in Users : v # u => members'[v] = members[v]
  BY DEF Shape, TypeOK
<1>2. \A v \in Users : IsMember(v) => IsMember(v)'
  BY <1>1 DEF IsMember
<1>3. org' = "live" => \E v \in Users : members'[v] = "OWNER"
  <2>1. SUFFICES ASSUME org = "live" PROVE \E v \in Users : members'[v] = "OWNER"
    OBVIOUS
  <2>2. PICK v \in Users : members[v] = "OWNER"
    BY <2>1 DEF TablesSound
  <2>3. CASE v # u \/ r = "OWNER"
    BY <1>1, <2>2, <2>3
  <2>4. CASE v = u /\ r # "OWNER"
    BY <1>1, <2>2, <2>4, AnotherOwner
  <2>5. QED
    BY <2>3, <2>4
<1>4. Defined' = Defined
  BY DEF Defined
<1>5. QED
  BY <1>2, <1>3, <1>4 DEF TablesSound

LEMMA AddMemberSound ==
    ASSUME Shape, TablesSound, NEW w \in Workers, Ready(op[w]), CommitAddMember(w)
    PROVE  TablesSound'
<1>1. CASE UNCHANGED members
  BY <1>1, SameMembers DEF CommitAddMember
<1>2. CASE members' = [members EXCEPT ![op[w].user] = op[w].role] /\ ~IsMember(op[w].user)
  <2>1. op[w].user \in Users /\ op[w].role \in FixedRoles
    BY OpFields DEF Shape, CommitAddMember, Doing
  <2>2. /\ op[w].role \in Roles /\ op[w].role # "none" /\ org # "none"
        /\ members[op[w].user] # "OWNER" /\ UNCHANGED <<org, defs, assigned, invites>>
    BY <1>2, <2>1 DEF Ready, CommitAddMember, Doing, Roles, FixedRoles, IsMember
  <2>3. \A n \in Invites : Open(n)' <=> Open(n)
    BY <2>2 DEF Open
  <2>4. QED
    BY <1>2, <2>1, <2>2, <2>3, OneMembership DEF TablesSound
<1>3. QED
  BY <1>1, <1>2 DEF CommitAddMember

LEMMA UpdateMemberRoleSound ==
    ASSUME Shape, TablesSound, NEW w \in Workers, Ready(op[w]), CommitUpdateMemberRole(w)
    PROVE  TablesSound'
<1>1. op[w].user \in Users /\ op[w].role \in FixedRoles
  BY OpFields DEF Shape, CommitUpdateMemberRole, Doing
<1>2. /\ op[w].role \in Roles /\ op[w].role # "none" /\ IsMember(op[w].user)
      /\ (members[op[w].user] = "OWNER" /\ op[w].role # "OWNER") => ~LastOwner
      /\ UNCHANGED <<org, defs, assigned, invites>>
  BY <1>1 DEF Ready, CommitUpdateMemberRole, Doing, Roles, FixedRoles
<1>3. members' = [members EXCEPT ![op[w].user] = op[w].role]
  BY <1>2 DEF CommitUpdateMemberRole
<1>4. org # "none"
  BY <1>1, <1>2 DEF TablesSound
<1>5. \A n \in Invites : Open(n)' <=> Open(n)
  BY <1>2 DEF Open
<1>6. QED
  BY <1>1, <1>2, <1>3, <1>4, <1>5, OneMembership DEF TablesSound

LEMMA RemoveMemberSound ==
    ASSUME Shape, TablesSound, NEW w \in Workers, Ready(op[w]), CommitRemoveMember(w)
    PROVE  TablesSound'
<1> DEFINE t == op[w].user
<1>1. t \in Users /\ IsMember(t) /\ (members[t] = "OWNER" => ~LastOwner) /\ members \in [Users -> Roles]
  BY OpFields DEF Shape, TypeOK, CommitRemoveMember, Doing, Ready
<1>2. /\ members' = [members EXCEPT ![t] = "none"] /\ assigned' = assigned \ ({t} \X CustomRoles)
      /\ UNCHANGED <<org, invites, defs>>
  BY DEF CommitRemoveMember
<1>3. members'[t] = "none" /\ \A v \in Users : v # t => members'[v] = members[v]
  BY <1>1, <1>2
<1>4. org # "none"
  BY <1>1 DEF TablesSound
<1>5. org' = "live" => \E v \in Users : members'[v] = "OWNER"
  BY <1>1, <1>2, <1>3, AnotherOwner DEF TablesSound
<1>6. \A v \in Users, c \in CustomRoles : <<v, c>> \in assigned' => IsMember(v)' /\ c \in Defined'
  BY <1>2, <1>3 DEF TablesSound, IsMember, Defined
<1>7. \A n \in Invites : Open(n)' <=> Open(n)
  BY <1>2 DEF Open
<1>8. QED
  BY <1>2, <1>4, <1>5, <1>6, <1>7 DEF TablesSound

\* A commit about invites alone.
LEMMA InvitesOnly ==
    ASSUME TablesSound, UNCHANGED <<org, members, defs, assigned>>,
           \A m, n \in Invites : (Open(m)' /\ Open(n)' /\ invites'[m].user = invites'[n].user) => m = n,
           \A n \in Invites : ~(invites'[n].accepted /\ invites'[n].declined)
    PROVE  TablesSound'
  BY DEF TablesSound, IsMember, Defined

\* The new invite is the only open one of its address.
LEMMA InviteSound ==
    ASSUME Shape, TablesSound, NEW w \in Workers, CommitInvite(w)
    PROVE  TablesSound'
<1> DEFINE u == op[w].user
           old == Unconsumed(u)
<1>1. u \in Users /\ invites \in [Invites -> Invite] /\ u # NoUser
  BY OpFields, MembershipAssumption DEF Shape, TypeOK, CommitInvite, Doing
<1>a. PICK fresh : fresh = [NoInvite EXCEPT !.user = op[w].user, !.role = op[w].role]
  OBVIOUS
<1>2. PICK n \in Invites :
        /\ FreeInvite(n)
        /\ invites' = [k \in Invites |->
                        IF k = n THEN fresh
                        ELSE IF k \in old /\ \A j \in old : j <= k
                        THEN [invites[k] EXCEPT !.declined = TRUE] ELSE invites[k]]
  BY <1>a DEF CommitInvite
<1>3. \A k \in old : Open(k) /\ invites[k].user = u
  BY <1>1 DEF Unconsumed, Open
<1>4. \A j, k \in old : j = k /\ j <= k
  <2>1. \A j, k \in old : j = k
    BY <1>3 DEF TablesSound, Unconsumed
  <2>2. \A k \in old : k <= k
    BY MembershipAssumption, FS_CardinalityType DEF Unconsumed
  <2>3. QED
    BY <2>1, <2>2
<1>5. /\ invites'[n].user = u /\ ~invites'[n].accepted /\ ~invites'[n].declined
      /\ invites[n].user = NoUser
  <2>1. invites'[n] = fresh
    BY <1>2
  <2>2. fresh.user = u /\ ~fresh.accepted /\ ~fresh.declined
    BY <1>a DEF NoInvite
  <2>3. QED
    BY <1>2, <2>1, <2>2 DEF NoInvite, FreeInvite
<1>6. \A k \in Invites : k # n =>
        /\ invites'[k].user = invites[k].user /\ invites'[k].accepted = invites[k].accepted
        /\ k \in old => invites'[k].declined /\ ~invites'[k].accepted
        /\ k \notin old => invites'[k] = invites[k]
  BY <1>1, <1>2, <1>4 DEF Invite, Unconsumed
<1>7. \A k \in Invites : k # n /\ Open(k)' => Open(k) /\ invites[k].user # u
  BY <1>1, <1>6 DEF Open, Unconsumed
<1>8. \A m, k \in Invites : (Open(m)' /\ Open(k)' /\ invites'[m].user = invites'[k].user) => m = k
  BY <1>5, <1>6, <1>7 DEF TablesSound
<1>9. \A k \in Invites : ~(invites'[k].accepted /\ invites'[k].declined)
  BY <1>5, <1>6 DEF TablesSound
<1>10. QED
  BY <1>8, <1>9, InvitesOnly DEF CommitInvite

\* One invite answered.
LEMMA Answered ==
    ASSUME TablesSound, invites \in [Invites -> Invite], NEW n \in Invites,
           ~invites[n].accepted, ~invites[n].declined,
           \/ invites' = [invites EXCEPT ![n].accepted = TRUE]
           \/ invites' = [invites EXCEPT ![n].declined = TRUE]
    PROVE  /\ \A m, k \in Invites : (Open(m)' /\ Open(k)' /\ invites'[m].user = invites'[k].user) => m = k
           /\ \A k \in Invites : ~(invites'[k].accepted /\ invites'[k].declined)
<1>1. \A k \in Invites : Open(k)' => Open(k) /\ invites'[k] = invites[k]
  BY DEF Open, Invite
<1>2. \A k \in Invites : ~(invites'[k].accepted /\ invites'[k].declined)
  BY DEF TablesSound, Invite
<1>3. QED
  BY <1>1, <1>2 DEF TablesSound

LEMMA ConsumeSound ==
    ASSUME Shape, TablesSound, NEW w \in Workers, Ready(op[w]), CommitConsume(w)
    PROVE  TablesSound'
<1>1. /\ op[w].invite \in Invites /\ invites \in [Invites -> Invite]
      /\ ~invites[op[w].invite].accepted /\ ~invites[op[w].invite].declined
  BY OpFields DEF Shape, TypeOK, CommitConsume, Doing, Ready
<1>2. QED
  BY <1>1, Answered, InvitesOnly DEF CommitConsume

LEMMA AcceptSound ==
    ASSUME Shape, TablesSound, NEW w \in Workers, Ready(op[w]), CommitAccept(w)
    PROVE  TablesSound'
<1> DEFINE n == op[w].invite
           u == invites[n].user
<1>1. /\ n \in Invites /\ invites \in [Invites -> Invite] /\ ~invites[n].accepted /\ ~invites[n].declined
      /\ (op[w].known <=> IsMember(u)) /\ org # "none"
  BY OpFields DEF Shape, TypeOK, CommitAccept, Doing, Ready
<1>2. CASE op[w].known
  <2>1. invites' = [invites EXCEPT ![n].accepted = TRUE] /\ UNCHANGED <<org, members, defs, assigned>>
    BY <1>2 DEF CommitAccept
  <2>2. QED
    BY <1>1, <2>1, Answered, InvitesOnly
<1>3. CASE ~op[w].known
  <2>1. /\ invites' = [invites EXCEPT ![n].accepted = TRUE] /\ UNCHANGED <<org, defs, assigned>>
        /\ members' = [members EXCEPT ![u] = invites[n].role] /\ ~IsMember(u)
    BY <1>1, <1>3 DEF CommitAccept
  <2>2. /\ u \in Users /\ invites[n].role \in Roles /\ invites[n].role # "none"
        /\ members[u] # "OWNER"
    BY <1>1, <2>1 DEF Shape, InvitesSent, CommitAccept, Doing, Invite, Roles, FixedRoles, IsMember
  <2>3. /\ org' = "none" => \A v \in Users : ~IsMember(v)'
        /\ org' = "live" => \E v \in Users : members'[v] = "OWNER"
        /\ \A v \in Users, c \in CustomRoles : <<v, c>> \in assigned' => IsMember(v)' /\ c \in Defined'
    BY <1>1, <2>1, <2>2, OneMembership
  <2>4. /\ \A m, k \in Invites : (Open(m)' /\ Open(k)' /\ invites'[m].user = invites'[k].user) => m = k
        /\ \A k \in Invites : ~(invites'[k].accepted /\ invites'[k].declined)
    BY <1>1, <2>1, Answered
  <2>5. QED
    BY <2>3, <2>4 DEF TablesSound
<1>4. QED
  BY <1>1, <1>2, <1>3

\* A commit about custom roles alone.
LEMMA RolesOnly ==
    ASSUME TablesSound, UNCHANGED <<org, members, invites>>,
           \A u \in Users, c \in CustomRoles : <<u, c>> \in assigned' => IsMember(u) /\ defs'[c] # {}
    PROVE  TablesSound'
  BY DEF TablesSound, IsMember, Defined, Open

LEMMA RolesSound ==
    ASSUME Shape, TablesSound, NEW w \in Workers, Ready(op[w]),
           \/ CommitDefineRole(w) \/ CommitUpdateRole(w) \/ CommitDeleteRole(w)
           \/ CommitAssignRole(w) \/ CommitUnassignRole(w)
    PROVE  TablesSound'
<1>1. /\ defs \in [CustomRoles -> SUBSET Grants] /\ op[w] \in Ops /\ assigned \subseteq Users \X CustomRoles
      /\ \A u \in Users, c \in CustomRoles : <<u, c>> \in assigned => IsMember(u) /\ defs[c] # {}
  BY DEF Shape, TypeOK, TablesSound, Defined
<1>2. CASE CommitDefineRole(w)
  BY <1>1, <1>2, OpFields, RolesOnly DEF CommitDefineRole, Doing, Ready
<1>3. CASE CommitUpdateRole(w)
  BY <1>1, <1>3, OpFields, RolesOnly DEF CommitUpdateRole, Doing, Ready
<1>4. CASE CommitDeleteRole(w)
  BY <1>1, <1>4, OpFields, RolesOnly DEF CommitDeleteRole, Doing, Ready, Holders
<1>5. CASE CommitAssignRole(w)
  <2>1. IsMember(op[w].user) /\ defs[op[w].role] # {}
    BY <1>5 DEF CommitAssignRole, Doing, Ready, Defined
  <2>2. assigned' = assigned \cup {<<op[w].user, op[w].role>>} /\ UNCHANGED <<org, members, invites, defs>>
    BY <1>5 DEF CommitAssignRole
  <2>3. QED
    BY <1>1, <2>1, <2>2, RolesOnly
<1>6. CASE CommitUnassignRole(w)
  BY <1>1, <1>6, RolesOnly DEF CommitUnassignRole
<1>7. QED
  BY <1>2, <1>3, <1>4, <1>5, <1>6

\* Every commit of a request whose checks still hold leaves sound tables.
LEMMA CommitSound ==
    ASSUME Shape, TablesSound, NEW w \in Workers, Ready(op[w]), Commit(w)
    PROVE  TablesSound'
<1>1. CASE CommitDeleteOrg(w)
  BY <1>1, SameMembers DEF CommitDeleteOrg
<1>2. CASE RepairDone(w)
  BY <1>2, SameMembers DEF RepairDone, tables
<1>3. QED
  BY <1>1, <1>2, CreateOrgSound, AddMemberSound, UpdateMemberRoleSound, RemoveMemberSound,
     InviteSound, ConsumeSound, AcceptSound, RolesSound DEF Commit

\* The step of one request leaves the others idle.
LEMMA AloneStep ==
    ASSUME Shape, Alone, NEW w \in Workers, NEW o \in Ops, op' = [op EXCEPT ![w] = o],
           \A v \in Workers : v # w => Idle(v)
    PROVE  Alone' /\ \A v \in Workers : op'[v] = IF v = w THEN o ELSE op[v]
  BY DEF Shape, Alone, Idle

\* An idle request checked nothing, one that writes has used its checks.
LEMMA NothingToCheck ==
    ASSUME NEW w, op'[w].do \in {"idle", "sync", "repair"}
    PROVE  Ready(op[w])'
  BY DEF Ready

LEMMA SerialStep == Shape /\ SerialInv /\ [Next]_vars => SerialInv'
<1> SUFFICES ASSUME Shape, SerialInv, [Next]_vars, serial' PROVE SerialInv'
  BY DEF SerialInv
<1>0. serial' = serial
  BY BeginReady, CommitsTidy, SyncWrites
  DEF Next, vars, Begun, Start, Committed, Then, Rest, SyncFails, InviteLapses
<1>1. Alone /\ TablesSound /\ \A w \in Workers : Ready(op[w])
  BY <1>0 DEF SerialInv
<1>2. CASE UNCHANGED vars
  BY <1>1, <1>2 DEF vars, tables, SerialInv, Alone, Idle, Ready, TablesSound, IsMember, CountOwners,
      Defined, Open, LastOwner, Holders
<1>3. ASSUME NEW w \in Workers, Begin(w) PROVE SerialInv'
  <2>1. PICK o \in Ops : Start(w, o) /\ Ready(o)
    BY <1>3, BeginReady DEF Begun
  <2>2. op' = [op EXCEPT ![w] = o] /\ UNCHANGED tables /\ \A v \in Workers : Idle(v)
    BY <1>0, <2>1 DEF Start, Hold
  <2>3. Alone' /\ \A v \in Workers : op'[v] = IF v = w THEN o ELSE op[v]
    BY <1>1, <2>2, AloneStep
  <2>4. Ready(op[w])'
    BY <2>1, <2>2, <2>3 DEF tables, Ready, IsMember, CountOwners, Defined, LastOwner, Holders
  <2>5. \A v \in Workers : Ready(op[v])'
    BY <2>2, <2>3, <2>4, NothingToCheck DEF Idle
  <2>6. TablesSound'
    BY <1>1, <2>2, SameMembers DEF tables
  <2>7. QED
    BY <2>3, <2>5, <2>6 DEF SerialInv
<1>4. ASSUME NEW w \in Workers, NEW o \in Ops, op' = [op EXCEPT ![w] = o], ~Idle(w),
             o.do \in {"idle", "sync", "repair"}, TablesSound'
      PROVE  SerialInv'
  <2>1. \A v \in Workers : v # w => Idle(v)
    BY <1>1, <1>4 DEF Alone
  <2>2. Alone' /\ \A v \in Workers : op'[v] = IF v = w THEN o ELSE op[v]
    BY <1>1, <1>4, <2>1, AloneStep
  <2>3. \A v \in Workers : Ready(op[v])'
    BY <1>4, <2>1, <2>2, NothingToCheck DEF Idle
  <2>4. QED
    BY <1>4, <2>2, <2>3 DEF SerialInv
<1>5. ASSUME NEW w \in Workers, Commit(w) PROVE SerialInv'
  <2>1. PICK todo : Tidy(todo) /\ Then(w, todo)
    BY <1>5, CommitsTidy DEF Committed
  <2>2. PICK o \in Ops : /\ op' = [op EXCEPT ![w] = o]
                         /\ \/ o = [do |-> "idle"] /\ todo = <<>>
                            \/ o.do = "sync" /\ o.todo = todo
    BY <2>1, ThenTidy
  <2>3. TablesSound' /\ ~Idle(w)
    BY <1>1, <1>5, CommitSound, CommitsTidy DEF Committed
  <2>4. QED
    BY <1>4, <2>2, <2>3
<1>6. ASSUME NEW w \in Workers, Sync(w) PROVE SerialInv'
  <2>1. Writing(w) /\ UNCHANGED tables
    BY <1>6, SyncWrites DEF Rest
  <2>2. PICK o \in Ops : /\ op' = [op EXCEPT ![w] = o]
                         /\ \/ o = [do |-> "idle"]
                            \/ o.do \in {"sync", "repair"}
    BY <1>6, RestTidy
  <2>3. TablesSound' /\ ~Idle(w)
    BY <1>1, <2>1, SameMembers DEF tables, Writing, Idle
  <2>4. QED
    BY <1>4, <2>2, <2>3
<1>7. ASSUME NEW w \in Workers, SyncFails(w) PROVE SerialInv'
  <2>1. PICK o \in Ops : /\ op' = [op EXCEPT ![w] = o]
                         /\ \/ o = [do |-> "idle"]
                            \/ o.do = "sync"
    BY <1>7, FailsTidy
  <2>2. TablesSound' /\ ~Idle(w)
    BY <1>1, <1>7, SameMembers DEF SyncFails, tables, Writing, Idle
  <2>3. QED
    BY <1>4, <2>1, <2>2
<1>8. ASSUME NEW n \in Invites, InviteLapses(n) PROVE SerialInv'
  <2>1. UNCHANGED <<org, members, defs, assigned, op>> /\ invites \in [Invites -> Invite]
    BY <1>8 DEF InviteLapses, Shape, TypeOK
  <2>2. \A k \in Invites : /\ invites'[k].user = invites[k].user
                           /\ invites'[k].accepted = invites[k].accepted
                           /\ invites'[k].declined = invites[k].declined
    BY <1>8, <2>1 DEF InviteLapses, Invite
  <2>3. TablesSound'
    BY <1>1, <2>1, <2>2, InvitesOnly DEF TablesSound, Open
  <2>4. \A w \in Workers : Ready(op[w])'
    <3>1. SUFFICES ASSUME NEW w \in Workers PROVE Ready(op[w])'
      OBVIOUS
    <3>2. Ready(op[w]) /\ (op[w].do \in {"consume", "accept"} => op[w].invite \in Invites)
      BY <1>1, OpFields DEF Shape
    <3>3. QED
      BY <2>1, <2>2, <3>2
      DEF Ready, IsMember, CountOwners, Defined, LastOwner, Holders
  <2>5. Alone'
    BY <1>1, <2>1 DEF Alone, Idle
  <2>6. QED
    BY <2>3, <2>4, <2>5 DEF SerialInv
<1>9. QED
  BY <1>2, <1>3, <1>5, <1>6, <1>7, <1>8 DEF Next

LEMMA SerialHolds == Spec => []SerialInv
<1>1. Init => SerialInv
  <2> SUFFICES ASSUME Init PROVE SerialInv
    OBVIOUS
  <2>1. Alone /\ \A w \in Workers : Ready(op[w])
    BY DEF Init, Alone, Idle, Ready
  <2>2. TablesSound
    BY MembershipAssumption DEF Init, TablesSound, IsMember, Open, NoInvite
  <2>3. QED
    BY <2>1, <2>2 DEF SerialInv
<1>2. QED
  BY <1>1, SerialStep, ShapeHolds, PTL DEF Spec

\* guardLastOwner is enough when requests are served one at a time: whoever
\* demotes, removes or leaves whom, a live organization keeps an owner.
THEOREM AnOwnerRemains == Spec => []KeepsAnOwner
<1>1. SerialInv => KeepsAnOwner
  BY OwnersCounted DEF SerialInv, TablesSound, KeepsAnOwner
<1>2. QED
  BY <1>1, SerialHolds, PTL

\* Rows, requests and writes to come keep their types under any overlap; and,
\* one request at a time, custom roles are held by members and defined, an
\* address has one open invite, and no invite is both accepted and declined.
THEOREM MembersAreSound == Spec => []MembershipSound
<1>1. Shape /\ SerialInv => MembershipSound
  <2> SUFFICES ASSUME Shape, SerialInv PROVE MembershipSound
    OBVIOUS
  <2>1. TypeOK
    BY DEF Shape
  <2>2. HeldRolesExist /\ InviteEndsOnce
    BY DEF SerialInv, TablesSound, HeldRolesExist, InviteEndsOnce
  <2>3. OnePendingInvite
    <3> SUFFICES ASSUME serial, NEW u \in Users
                 PROVE  Cardinality({n \in Invites : invites[n].user = u /\ Pending(n)}) <= 1
      BY DEF OnePendingInvite
    <3> DEFINE P == {n \in Invites : invites[n].user = u /\ Pending(n)}
    <3>1. \A m, n \in P : m = n
      BY DEF SerialInv, TablesSound, Open, Pending
    <3>2. CASE P = {}
      BY <3>2, FS_EmptySet
    <3>3. CASE P # {}
      <4>1. PICK n : P = {n}
        BY <3>1, <3>3
      <4>2. Cardinality(P) = 1
        BY <4>1, FS_Singleton
      <4>3. QED
        BY <4>2
    <3>4. QED
      BY <3>2, <3>3
  <2>4. QED
    BY <2>1, <2>2, <2>3 DEF MembershipSound
<1>2. QED
  BY <1>1, ShapeHolds, SerialHolds, PTL

(***************************************************************************)
(* Repairs heal                                                            *)
(***************************************************************************)
\* The fixed rows of u say what the tables say.
FixedRight(u) == \A r \in FixedRoles : <<u, r>> \in groups <=> r = members[u]

\* The repair of u has these writes left.
Healing(u, todo) ==
    /\ u \in Users
    /\ IsMember(u) =>
        /\ \A x \in Range(todo) :
            /\ x.user = u
            /\ (x.k \in {"role", "add"} /\ x.role = members[u]) \/ (x.k = "custom" /\ x.grant = TRUE)
        /\ FixedRight(u) \/ \E x \in Range(todo) : x.k \in {"role", "add"}
        /\ \A c \in CustomRoles : <<u, c>> \in assigned =>
            <<u, c>> \in groups \/ SyncCustom(u, c, TRUE) \in Range(todo)
    /\ ~IsMember(u) =>
        /\ \A x \in Range(todo) :
            /\ x.user = u
            /\ (x.k = "role" /\ x.role = "none") \/ (x.k = "custom" /\ x.grant = FALSE)
        /\ \A c \in CustomRoles : <<u, c>> \in groups => SyncCustom(u, c, FALSE) \in Range(todo)
        /\ (\E r \in FixedRoles : <<u, r>> \in groups) => \E x \in Range(todo) : x.k = "role"

HealInv ==
    \A w \in Workers :
        (serial /\ Doing(w, "repair") /\ op[w].user # NoUser /\ op[w].since = faults)
            => Healing(op[w].user, op[w].todo)

\* Custom roles are not fixed roles.
LEMMA RolesApart == \A c \in CustomRoles : c \notin FixedRoles /\ c \in AllRoles
  BY IamAssumption DEF AllRoles

\* A custom write is the one its user, role and kind name.
LEMMA CustomNamed ==
    ASSUME NEW x \in SyncOps, x.k = "custom"
    PROVE  x = SyncCustom(x.user, x.role, x.grant)
  BY DEF SyncOps, SyncCustom

\* A repair starts with the writes that heal.
LEMMA HealingBegins ==
    ASSUME Shape, NEW u \in Users
    PROVE  Healing(u, RepairOfUser(u))
<1>1. \A c \in CustomRoles, g \in BOOLEAN :
        SyncCustom(u, c, g).user = u /\ SyncCustom(u, c, g).k = "custom" /\ SyncCustom(u, c, g).grant = g
  BY DEF SyncCustom
<1>2. \A r : SyncRole(u, r).user = u /\ SyncRole(u, r).k = "role" /\ SyncRole(u, r).role = r
  BY DEF SyncRole
<1>3. CASE IsMember(u)
  <2>1. Range(RepairOfUser(u)) = {SyncRole(u, members[u])}
                    \cup {SyncCustom(u, c, TRUE) : c \in ListUserCustomRoles(u)}
    BY <1>3, RepairPlain
  <2>2. \A x \in Range(RepairOfUser(u)) :
            /\ x.user = u
            /\ (x.k \in {"role", "add"} /\ x.role = members[u]) \/ (x.k = "custom" /\ x.grant = TRUE)
    BY <1>1, <1>2, <2>1 DEF ListUserCustomRoles
  <2>3. \E x \in Range(RepairOfUser(u)) : x.k \in {"role", "add"}
    BY <1>2, <2>1
  <2>4. \A c \in CustomRoles : <<u, c>> \in assigned => SyncCustom(u, c, TRUE) \in Range(RepairOfUser(u))
    BY <2>1 DEF ListUserCustomRoles
  <2>5. QED
    BY <1>3, <2>2, <2>3, <2>4 DEF Healing
<1>4. CASE ~IsMember(u)
  <2>1. Range(RepairOfUser(u)) = {SyncCustom(u, c, FALSE) : c \in {d \in CustomRoles : <<u, d>> \in groups}}
                    \cup (IF \E r \in FixedRoles : <<u, r>> \in groups THEN {SyncRole(u, "none")} ELSE {})
    BY <1>4, RepairPlain
  <2>2. \A x \in Range(RepairOfUser(u)) :
            /\ x.user = u
            /\ (x.k = "role" /\ x.role = "none") \/ (x.k = "custom" /\ x.grant = FALSE)
    BY <1>1, <1>2, <2>1
  <2>3. \A c \in CustomRoles : <<u, c>> \in groups => SyncCustom(u, c, FALSE) \in Range(RepairOfUser(u))
    BY <2>1
  <2>4. (\E r \in FixedRoles : <<u, r>> \in groups) => \E x \in Range(RepairOfUser(u)) : x.k = "role"
    BY <1>2, <2>1
  <2>5. QED
    BY <1>4, <2>2, <2>3, <2>4 DEF Healing
<1>5. QED
  BY <1>3, <1>4

\* Each write brings it nearer.
LEMMA HealingGoesOn ==
    ASSUME Shape, SweptFirst, NEW w \in Workers, NEW u, Healing(u, op[w].todo), Writing(w),
           Written(NextOp(w)), UNCHANGED <<members, assigned>>, NEW rest, rest = Remaining(w)
    PROVE  Healing(u, rest)'
<1> DEFINE x == NextOp(w)
           t == Tail(op[w].todo)
<1>1. /\ x \in SyncOps /\ Range(op[w].todo) = {x} \cup Range(t) /\ u \in Users
      /\ members \in [Users -> Roles]
  BY NextWrite DEF Healing, Shape, TypeOK
<1>2. IsMember(u)' <=> IsMember(u)
  BY DEF IsMember
<1>3. CASE IsMember(u)
  <2>1. /\ \A y \in {x} \cup Range(t) :
            /\ y.user = u
            /\ (y.k \in {"role", "add"} /\ y.role = members[u]) \/ (y.k = "custom" /\ y.grant = TRUE)
        /\ FixedRight(u) \/ \E y \in {x} \cup Range(t) : y.k \in {"role", "add"}
        /\ \A c \in CustomRoles : <<u, c>> \in assigned =>
            <<u, c>> \in groups \/ SyncCustom(u, c, TRUE) \in {x} \cup Range(t)
    BY <1>1, <1>3 DEF Healing
  <2>2. members[u] \in FixedRoles /\ members[u] # "none"
    BY <1>1, <1>3 DEF IsMember, Roles
  <2>3. CASE x.k = "role"
    <3> DEFINE y == [x EXCEPT !.k = "add"]
    <3>1. x.role = members[u] /\ x.user = u
      BY <2>1, <2>3
    <3>2. y.k = "add" /\ y.user = u /\ y.role = members[u] /\ Range(rest) = {y} \cup Range(t)
      BY <2>2, <2>3, <3>1, NextWrite
    <3>3. groups' = groups \ ({u} \X FixedRoles)
      BY <2>3, <3>1 DEF Written, SweepFixedRoles
    <3>4. \A c \in CustomRoles : <<u, c>> \in assigned =>
            <<u, c>> \in groups' \/ SyncCustom(u, c, TRUE) \in Range(t)
      <4>1. \A c \in CustomRoles : SyncCustom(u, c, TRUE) # x
        BY <2>3 DEF SyncCustom
      <4>2. QED
        BY <2>1, <3>3, <4>1, RolesApart
    <3>5. \A z \in {y} \cup Range(t) :
            /\ z.user = u
            /\ (z.k \in {"role", "add"} /\ z.role = members[u]) \/ (z.k = "custom" /\ z.grant = TRUE)
      BY <2>1, <3>2
    <3>6. QED
      BY <1>1, <1>2, <1>3, <3>2, <3>4, <3>5 DEF Healing
  <2>4. CASE x.k = "add"
    <3>1. x.role = members[u] /\ x.user = u /\ Range(rest) = Range(t)
      BY <2>1, <2>4 DEF Remaining
    <3>2. groups' = groups \cup {<<u, members[u]>>}
      BY <2>4, <3>1 DEF Written, AddGrouping
    <3>3. \A r \in FixedRoles : <<u, r>> \notin groups
      BY <2>4, <3>1 DEF SweptFirst, Adding
    <3>4. FixedRight(u)'
      BY <2>2, <3>2, <3>3 DEF FixedRight
    <3>5. \A c \in CustomRoles : SyncCustom(u, c, TRUE) # x
      BY <2>4 DEF SyncCustom
    <3>6. \A c \in CustomRoles : <<u, c>> \in assigned =>
            <<u, c>> \in groups' \/ SyncCustom(u, c, TRUE) \in Range(t)
      BY <2>1, <3>2, <3>5
    <3>7. QED
      BY <1>1, <1>2, <1>3, <2>1, <3>1, <3>4, <3>6 DEF Healing
  <2>5. CASE x.k = "custom"
    <3>1. x.user = u /\ x.grant = TRUE /\ Range(rest) = Range(t) /\ x.role \in CustomRoles
      BY <1>1, <2>1, <2>5, SyncFields DEF Remaining
    <3>2. groups' = groups \cup {<<u, x.role>>}
      BY <2>5, <3>1 DEF Written, SyncCustomGrouping
    <3>3. FixedRight(u) => FixedRight(u)'
      BY <3>1, <3>2, RolesApart DEF FixedRight
    <3>4. FixedRight(u)' \/ \E y \in Range(t) : y.k \in {"role", "add"}
      BY <2>1, <2>5, <3>3
    <3>5. \A c \in CustomRoles : SyncCustom(u, c, TRUE) = x => c = x.role
      BY DEF SyncCustom
    <3>6. \A c \in CustomRoles : <<u, c>> \in assigned =>
            <<u, c>> \in groups' \/ SyncCustom(u, c, TRUE) \in Range(t)
      BY <2>1, <3>2, <3>5
    <3>7. QED
      BY <1>1, <1>2, <1>3, <2>1, <3>1, <3>4, <3>6 DEF Healing
  <2>6. QED
    BY <2>1, <2>3, <2>4, <2>5
<1>4. CASE ~IsMember(u)
  <2>1. /\ \A y \in {x} \cup Range(t) :
            /\ y.user = u
            /\ (y.k = "role" /\ y.role = "none") \/ (y.k = "custom" /\ y.grant = FALSE)
        /\ \A c \in CustomRoles : <<u, c>> \in groups => SyncCustom(u, c, FALSE) \in {x} \cup Range(t)
        /\ (\E r \in FixedRoles : <<u, r>> \in groups) => \E y \in {x} \cup Range(t) : y.k = "role"
    BY <1>1, <1>4 DEF Healing
  <2>2. Range(rest) = Range(t)
    BY <2>1 DEF Remaining
  <2>3. CASE x.k = "role"
    <3>1. groups' = groups \ ({u} \X FixedRoles)
      BY <2>1, <2>3 DEF Written, SweepFixedRoles
    <3>2. \A c \in CustomRoles : SyncCustom(u, c, FALSE) # x
      BY <2>3 DEF SyncCustom
    <3>3. \A c \in CustomRoles : <<u, c>> \in groups' => SyncCustom(u, c, FALSE) \in Range(t)
      BY <2>1, <3>1, <3>2
    <3>4. ~ \E r \in FixedRoles : <<u, r>> \in groups'
      BY <3>1
    <3>5. QED
      BY <1>1, <1>2, <1>4, <2>1, <2>2, <3>3, <3>4 DEF Healing
  <2>4. CASE x.k = "custom"
    <3>1. x.user = u /\ x.grant = FALSE
      BY <2>1, <2>4
    <3>2. groups' = groups \ {<<u, x.role>>}
      BY <2>4, <3>1 DEF Written, SyncCustomGrouping
    <3>3. \A c \in CustomRoles : SyncCustom(u, c, FALSE) = x => c = x.role
      BY DEF SyncCustom
    <3>4. \A c \in CustomRoles : <<u, c>> \in groups' => SyncCustom(u, c, FALSE) \in Range(t)
      BY <2>1, <3>2, <3>3
    <3>5. (\E r \in FixedRoles : <<u, r>> \in groups') => \E y \in Range(t) : y.k = "role"
      BY <2>1, <2>4, <3>2
    <3>6. QED
      BY <1>1, <1>2, <1>4, <2>1, <2>2, <3>4, <3>5 DEF Healing
  <2>5. QED
    BY <2>1, <2>3, <2>4
<1>5. QED
  BY <1>3, <1>4

\* The user and the writes of a repair in flight.
LEMMA HealStep == Shape /\ SerialInv /\ FixedInv /\ HealInv /\ [Next]_vars => HealInv'
<1> SUFFICES ASSUME Shape, SerialInv, FixedInv, HealInv, [Next]_vars,
                    NEW w \in Workers, serial', Doing(w, "repair")', op'[w].user # NoUser,
                    op'[w].since = faults'
             PROVE  Healing(op[w].user, op[w].todo)'
  BY DEF HealInv
<1>0. serial' = serial
  BY BeginReady, CommitsTidy, SyncWrites
  DEF Next, vars, Begun, Start, Committed, Then, Rest, SyncFails, InviteLapses
<1>1. Alone /\ op \in [Workers -> Ops]
  BY <1>0 DEF SerialInv, Shape
<1>2. CASE UNCHANGED <<members, assigned, groups, op, faults>>
  <2>1. Healing(op[w].user, op[w].todo)
    BY <1>0, <1>2 DEF HealInv, Doing
  <2>2. QED
    BY <1>2, <2>1 DEF Healing, IsMember, FixedRight
<1>3. ASSUME NEW v \in Workers, Begin(v) PROVE Healing(op[w].user, op[w].todo)'
  <2>1. PICK o \in Ops : /\ Start(v, o) /\ o.do # "sync" /\ (o.do = "repair" => RepairBegun(o))
    BY <1>3, BeginReady DEF Begun
  <2>2. op' = [op EXCEPT ![v] = o] /\ UNCHANGED <<tables, groups>> /\ \A z \in Workers : Idle(z)
    BY <1>0, <2>1 DEF Start, Hold
  <2>3. op'[w] = o /\ o.do = "repair"
    BY <1>1, <2>2 DEF Doing, Idle
  <2>4. o.user \in Users /\ o.todo = RepairOfUser(o.user)
    BY <2>1, <2>3 DEF RepairBegun
  <2>5. PICK u, todo : u = o.user /\ todo = o.todo
    OBVIOUS
  <2>6. Healing(u, todo)
    BY <2>4, <2>5, HealingBegins
  <2>7. Healing(u, todo)'
    BY <2>2, <2>6 DEF Healing, IsMember, FixedRight, tables
  <2>8. op'[w].user = u /\ op'[w].todo = todo
    BY <2>3, <2>5
  <2>9. QED
    BY <2>7, <2>8 DEF Healing
<1>4. ASSUME NEW v \in Workers, ~Idle(v), NEW o \in Ops, op' = [op EXCEPT ![v] = o]
      PROVE  v = w /\ op'[w] = o
  BY <1>1, <1>4 DEF Alone, Doing, Idle
<1>5. ASSUME NEW v \in Workers, Commit(v) PROVE FALSE
  <2>1. PICK todo : Tidy(todo) /\ Then(v, todo)
    BY <1>5, CommitsTidy DEF Committed
  <2>2. PICK o \in Ops : op' = [op EXCEPT ![v] = o] /\ (o = [do |-> "idle"] \/ o.do = "sync")
    BY <2>1, ThenTidy
  <2>3. op'[w] = o
    BY <1>4, <1>5, <2>2, CommitsTidy DEF Committed
  <2>4. QED
    BY <2>2, <2>3 DEF Doing
<1>6. ASSUME NEW v \in Workers, SyncFails(v) PROVE FALSE
  <2>1. PICK o \in Ops : op' = [op EXCEPT ![v] = o] /\ (o = [do |-> "idle"] \/ o.do = "sync")
    BY <1>6, FailsTidy
  <2>2. ~Idle(v)
    BY <1>6 DEF SyncFails, Writing, Idle
  <2>3. op'[w] = o
    BY <1>4, <2>1, <2>2
  <2>4. QED
    BY <2>1, <2>3 DEF Doing
<1>7. ASSUME NEW v \in Workers, Sync(v) PROVE Healing(op[w].user, op[w].todo)'
  <2>1. Writing(v) /\ Written(NextOp(v)) /\ UNCHANGED <<tables, faults>>
    BY <1>7, SyncWrites DEF Rest
  <2>2. PICK o \in Ops : /\ op' = [op EXCEPT ![v] = o]
                         /\ \/ o = [do |-> "idle"]
                            \/ o.do = "sync"
                            \/ /\ o.do = "repair" /\ o.todo = Remaining(v)
                               /\ Doing(v, "repair") /\ o.user = op[v].user /\ o.since = op[v].since
    BY <1>7, RestTidy
  <2>3. v = w /\ op'[w] = o
    BY <1>4, <2>1, <2>2 DEF Writing, Idle
  <2>4. o.todo = Remaining(w) /\ Doing(w, "repair") /\ o.user = op[w].user /\ o.since = op[w].since
    BY <2>2, <2>3 DEF Doing
  <2>5. Healing(op[w].user, op[w].todo)
    BY <1>0, <2>1, <2>3, <2>4 DEF HealInv
  <2>6. PICK rest, u : rest = Remaining(w) /\ u = op[w].user
    OBVIOUS
  <2>7. Healing(u, rest)'
    BY <2>1, <2>3, <2>5, <2>6, HealingGoesOn DEF FixedInv, tables
  <2>8. op'[w].user = u /\ op'[w].todo = rest
    BY <2>3, <2>4, <2>6
  <2>9. QED
    BY <2>7, <2>8 DEF Healing
<1>8. QED
  BY <1>2, <1>3, <1>5, <1>6, <1>7 DEF Next, InviteLapses, vars, tables

\* Whatever writes were lost before it, a repair whose own writes all arrive
\* leaves the user what the tables say: one fixed role and every assigned
\* custom role, or nothing without a membership.
THEOREM RepairsHeal == Spec => []RepairHeals
<1>1. Init => HealInv
  BY DEF Init, HealInv, Doing
<1>2. Shape /\ HealInv => RepairHeals
  <2> SUFFICES ASSUME Shape, HealInv, NEW w \in Workers, serial, Doing(w, "repair"),
                      op[w].user # NoUser, op[w].todo = <<>>, op[w].since = faults
               PROVE  LET u == op[w].user
                          held == {r \in AllRoles : <<u, r>> \in groups} IN
                      IF IsMember(u)
                      THEN held \cap FixedRoles = {members[u]} /\ ListUserCustomRoles(u) \subseteq held
                      ELSE held = {}
    BY DEF RepairHeals
  <2> DEFINE u == op[w].user
             held == {r \in AllRoles : <<u, r>> \in groups}
  <2>1. Healing(u, <<>>) /\ Range(<<>>) = {}
    BY PlainSmall DEF HealInv
  <2>2. CASE IsMember(u)
    <3>1. FixedRight(u) /\ \A c \in CustomRoles : <<u, c>> \in assigned => <<u, c>> \in groups
      BY <2>1, <2>2 DEF Healing
    <3>2. members[u] \in FixedRoles
      BY <2>1, <2>2 DEF Healing, Shape, TypeOK, Roles, IsMember
    <3>3. held \cap FixedRoles = {members[u]}
      BY <3>1, <3>2 DEF FixedRight, AllRoles
    <3>4. ListUserCustomRoles(u) \subseteq held
      BY <3>1 DEF ListUserCustomRoles, AllRoles
    <3>5. QED
      BY <2>2, <3>3, <3>4
  <2>3. CASE ~IsMember(u)
    <3>1. /\ \A c \in CustomRoles : <<u, c>> \notin groups
          /\ \A r \in FixedRoles : <<u, r>> \notin groups
      BY <2>1, <2>3 DEF Healing
    <3>2. QED
      BY <2>3, <3>1 DEF AllRoles
  <2>4. QED
    BY <2>2, <2>3
<1>3. QED
  BY <1>1, <1>2, HealStep, ShapeHolds, SerialHolds, FixedHolds, PTL DEF Spec

(***************************************************************************)
(* Casbin agrees with the tables                                           *)
(***************************************************************************)
\* The writes still to come.
ToCome == {x \in SyncOps : \E w \in Workers : Busy(w) /\ x \in Range(op[w].todo)}

\* Write x, one of P, writes what the tables say.
Right(x, P) ==
    /\ x.k \in {"role", "add"} => x.role = members[x.user]
    /\ x.k = "custom" => (x.grant <=> <<x.user, x.role>> \in assigned)
    /\ x.k = "ensure" => x.perms = defs[x.role]
    /\ x.k = "drop" => defs[x.role] = {} \/ \E y \in P : y.k = "ensure" /\ y.role = x.role
    /\ x.k = "orphans" => x.defined = Defined
    /\ x.k # "unseed"

FixedAgree(P) ==
    \A u \in Users : FixedRight(u) \/ \E x \in P : x.k \in {"role", "add"} /\ x.user = u

CustomAgree(P) ==
    \A u \in Users, c \in CustomRoles :
        \/ <<u, c>> \in groups <=> <<u, c>> \in assigned
        \/ \E x \in P : x.k = "custom" /\ x.user = u /\ x.role = c

PolicyAgree(P) ==
    \A c \in CustomRoles :
        \/ policies[c] = defs[c]
        \/ policies[c] \subseteq defs[c] /\ \E x \in P : x.k = "ensure" /\ x.role = c
        \/ \E x \in P : x.k = "drop" /\ x.role = c

SeedAgree(P) ==
    \A r \in FixedRoles :
        /\ policies[r] \subseteq Seeded(r)
        /\ org = "live" => policies[r] = Seeded(r) \/ \E x \in P : x.k = "seed"

\* Every row of Casbin is right, or a write among P makes it right.
Agree(P) ==
    /\ \A x \in P : Right(x, P)
    /\ FixedAgree(P) /\ CustomAgree(P) /\ PolicyAgree(P) /\ SeedAgree(P)

AgreeInv == (serial /\ faults = 0 /\ org # "deleted") => \E P : P = ToCome /\ Agree(P)

\* The writes to come are those of the only request in flight.
LEMMA ToComeAlone ==
    ASSUME Shape, NEW w \in Workers, \A v \in Workers : v # w => Idle(v)
    PROVE  ToCome = IF Busy(w) THEN Range(op[w].todo) ELSE {}
<1>1. \A v \in Workers : v # w => ~Busy(v)
  BY DEF Idle, Busy
<1>2. Busy(w) => Range(op[w].todo) \subseteq SyncOps
  BY RangeOfSeq DEF Shape, Tidy
<1>3. QED
  BY <1>1, <1>2 DEF ToCome

LEMMA ToComeNext ==
    ASSUME Shape, NEW w \in Workers, \A v \in Workers : v # w => Idle(v), NEW o \in Ops,
           op' = [op EXCEPT ![w] = o], o.do \in {"sync", "repair"} => o.todo \in Seq(SyncOps)
    PROVE  ToCome' = IF o.do \in {"sync", "repair"} THEN Range(o.todo) ELSE {}
<1>1. op'[w] = o /\ \A v \in Workers : v # w => op'[v] = op[v]
  BY DEF Shape
<1>2. \A v \in Workers : v # w => ~Busy(v)'
  BY <1>1 DEF Idle, Busy
<1>3. o.do \in {"sync", "repair"} => Range(o.todo) \subseteq SyncOps
  BY RangeOfSeq
<1>4. QED
  BY <1>1, <1>2, <1>3 DEF ToCome, Busy

\* With nothing to come, writes that are right change nothing.
LEMMA MoreToCome ==
    ASSUME Agree({}), NEW P, \A x \in P : Right(x, P)
    PROVE  Agree(P)
  BY DEF Agree, FixedAgree, CustomAgree, PolicyAgree, SeedAgree

\* Nothing seeded for a custom role; no wildcard in one.
LEMMA CustomUnseeded ==
    /\ \A c \in CustomRoles : Seeded(c) = {}
    /\ Wildcard \notin Grants
<1>1. \A c \in CustomRoles : Seeded(c) = {}
  BY RolesApart DEF Seeded, FixedRoles
<1>2. Wildcard \notin RoleRegistry
  BY DEF Wildcard, RoleRegistry, AdminPermissions, Of
<1>3. QED
  BY <1>1, <1>2, IamAssumption

\* A repair of a system in step writes what is there.
LEMMA RepairIsRight ==
    ASSUME Shape, TablesSound, Agree({}), NEW o, RepairBegun(o)
    PROVE  \A x \in Range(o.todo) : Right(x, Range(o.todo))
<1>1. CASE o.user \in Users /\ o.todo = RepairOfUser(o.user)
  <2> DEFINE u == o.user
  <2>1. \A c \in CustomRoles : <<u, c>> \in groups <=> <<u, c>> \in assigned
    BY <1>1 DEF Agree, CustomAgree
  <2>2. \A c \in CustomRoles : <<u, c>> \in assigned => IsMember(u)
    BY <1>1 DEF TablesSound
  <2>3. CASE IsMember(u)
    <3>1. Range(o.todo) = {SyncRole(u, members[u])} \cup {SyncCustom(u, c, TRUE) : c \in ListUserCustomRoles(u)}
      BY <1>1, <2>3, RepairPlain
    <3>2. \A P : Right(SyncRole(u, members[u]), P)
      BY DEF Right, SyncRole
    <3>3. \A c \in ListUserCustomRoles(u) : \A P : Right(SyncCustom(u, c, TRUE), P)
      BY DEF Right, SyncCustom, ListUserCustomRoles
    <3>4. QED
      BY <3>1, <3>2, <3>3
  <2>4. CASE ~IsMember(u)
    <3>1. \A c \in CustomRoles : <<u, c>> \notin groups
      BY <2>1, <2>2, <2>4
    <3>2. Range(o.todo) \subseteq {SyncRole(u, "none")}
      BY <1>1, <2>4, <3>1, RepairPlain
    <3>3. \A P : Right(SyncRole(u, "none"), P)
      BY <2>4 DEF Right, SyncRole, IsMember
    <3>4. QED
      BY <3>2, <3>3
  <2>5. QED
    BY <2>3, <2>4
<1>2. CASE o.todo = ReseedWrites
  <2>1. Range(o.todo) = {[k |-> "seed"], [k |-> "orphans", defined |-> Defined]}
                                    \cup {Ensure(c, defs[c]) : c \in Defined}
    BY <1>2, ReseedPlain
  <2>2. \A P : Right([k |-> "seed"], P) /\ Right([k |-> "orphans", defined |-> Defined], P)
    BY DEF Right
  <2>3. \A c \in Defined : \A P : Right(Ensure(c, defs[c]), P)
    BY DEF Right, Ensure
  <2>4. QED
    BY <2>1, <2>2, <2>3
<1>3. QED
  BY <1>1, <1>2 DEF RepairBegun

\* One membership written, its write to come.
LEMMA MembershipWritten ==
    ASSUME Shape, Agree({}), UNCHANGED <<defs, assigned, groups, policies>>,
           NEW u \in Users, NEW r \in Roles, members' = [members EXCEPT ![u] = r],
           NEW P, NEW x \in P, x.k = "role", x.user = u, x.role = r,
           \A y \in P : y = x \/ y.k = "seed",
           org' = "live" => (org = "live" \/ \E y \in P : y.k = "seed")
    PROVE  Agree(P)'
<1>1. members'[u] = r /\ \A v \in Users : v # u => members'[v] = members[v]
  BY DEF Shape, TypeOK
<1>2. \A y \in P : Right(y, P)'
  BY <1>1 DEF Right
<1>3. FixedAgree(P)'
  BY <1>1 DEF Agree, FixedAgree, FixedRight
<1>4. CustomAgree(P)' /\ PolicyAgree(P)'
  BY DEF Agree, CustomAgree, PolicyAgree
<1>5. SeedAgree(P)'
  BY DEF Agree, SeedAgree
<1>6. QED
  BY <1>2, <1>3, <1>4, <1>5 DEF Agree

\* Nothing that Casbin knows of changes.
LEMMA NothingWritten ==
    ASSUME Agree({}), UNCHANGED <<org, members, defs, assigned, groups, policies>>
    PROVE  Agree({})'
  BY DEF Agree, FixedAgree, FixedRight, CustomAgree, PolicyAgree, SeedAgree

\* Request w has committed, and its writes keep Casbin in step.
InStep(w) == \E todo : Tidy(todo) /\ Then(w, todo) /\ Agree(Range(todo))'

\* A commit of one membership.
LEMMA OneRoleInStep ==
    ASSUME Shape, Agree({}), NEW w \in Workers, NEW u \in Users, NEW r \in Roles,
           Then(w, <<SyncRole(u, r)>>), UNCHANGED <<org, defs, assigned>>,
           members' = [members EXCEPT ![u] = r]
    PROVE  InStep(w)
<1> DEFINE x == SyncRole(u, r)
<1>1. x \in SyncOps /\ x.k = "role" /\ x.user = u /\ x.role = r
  BY SyncBuilt DEF SyncRole
<1>2. Tidy(<<x>>) /\ Range(<<x>>) = {x}
  BY <1>1, FewWrites, PlainSmall
<1>3. UNCHANGED <<groups, policies>>
  BY DEF Then
<1>4. Agree({x})'
  BY <1>1, <1>3, MembershipWritten
<1>5. Then(w, <<x>>) /\ Agree(Range(<<x>>))'
  BY <1>2, <1>4
<1>6. QED
  BY <1>2, <1>5 DEF InStep

\* A commit without a write.
LEMMA NoWriteInStep ==
    ASSUME Agree({}), NEW w \in Workers, Then(w, <<>>), UNCHANGED <<org, members, defs, assigned>>
    PROVE  InStep(w)
<1>1. Agree({})'
  BY NothingWritten DEF Then
<1>2. Tidy(<<>>) /\ Range(<<>>) = {}
  BY FewWrites, PlainSmall
<1>3. QED
  BY <1>1, <1>2 DEF InStep

LEMMA CreateOrgInStep ==
    ASSUME Shape, Agree({}), NEW w \in Workers, CommitCreateOrg(w)
    PROVE  InStep(w)
<1>1. PICK u \in Users : u = op[w].user
  BY OpFields DEF Shape, CommitCreateOrg, Doing
<1> DEFINE s == [k |-> "seed"]
           x == SyncRole(u, "OWNER")
<1>2. "OWNER" \in Roles /\ s \in SyncOps /\ s.k = "seed"
  BY SyncBuilt DEF Roles, FixedRoles
<1>3. x \in SyncOps /\ x.k = "role" /\ x.user = u /\ x.role = "OWNER"
  BY <1>2, SyncBuilt DEF SyncRole
<1>4. Tidy(<<s, x>>) /\ Range(<<s, x>>) = {s, x}
  BY <1>2, <1>3, FewWrites
<1>5. /\ Then(w, <<s, x>>) /\ members' = [members EXCEPT ![u] = "OWNER"]
      /\ UNCHANGED <<defs, assigned, groups, policies>>
  BY <1>1 DEF CommitCreateOrg, Then
<1>6. Agree({s, x})'
  <2>1. x \in {s, x} /\ (\A y \in {s, x} : y = x \/ y.k = "seed") /\ \E y \in {s, x} : y.k = "seed"
    BY <1>2
  <2>2. QED
    BY <1>2, <1>3, <1>5, <2>1, MembershipWritten
<1>7. QED
  BY <1>4, <1>5, <1>6 DEF InStep

LEMMA MemberCommitsInStep ==
    ASSUME Shape, Agree({}), NEW w \in Workers, Ready(op[w]),
           CommitAddMember(w) \/ CommitUpdateMemberRole(w) \/ CommitAccept(w)
    PROVE  InStep(w)
<1>1. CASE CommitAddMember(w)
  <2>1. PICK u \in Users, r \in Roles : u = op[w].user /\ r = op[w].role
    BY <1>1, OpFields DEF Shape, CommitAddMember, Doing, Roles
  <2>2. CASE members' = [members EXCEPT ![u] = r] /\ Then(w, <<SyncRole(u, r)>>)
    BY <1>1, <2>2, OneRoleInStep DEF CommitAddMember
  <2>3. QED
    BY <1>1, <2>1, <2>2, NoWriteInStep DEF CommitAddMember
<1>2. CASE CommitUpdateMemberRole(w)
  <2>1. PICK u \in Users, r \in Roles : u = op[w].user /\ r = op[w].role
    BY <1>2, OpFields DEF Shape, CommitUpdateMemberRole, Doing, Roles
  <2>2. members' = [members EXCEPT ![u] = r] /\ Then(w, <<SyncRole(u, r)>>) /\ UNCHANGED <<org, defs, assigned>>
    BY <1>2, <2>1 DEF CommitUpdateMemberRole, Ready, Doing
  <2>3. QED
    BY <2>2, OneRoleInStep
<1>3. CASE CommitAccept(w)
  <2>1. op[w].invite \in Invites
    BY <1>3, OpFields DEF Shape, CommitAccept, Doing
  <2>2. PICK u \in Users, r \in Roles : u = invites[op[w].invite].user /\ r = invites[op[w].invite].role
    BY <1>3, <2>1 DEF Shape, TypeOK, InvitesSent, Invite, CommitAccept, Doing, Roles
  <2>3. CASE members' = [members EXCEPT ![u] = r] /\ Then(w, <<SyncRole(u, r)>>)
    BY <1>3, <2>3, OneRoleInStep DEF CommitAccept
  <2>4. CASE UNCHANGED members /\ Then(w, <<>>)
    BY <1>3, <2>4, NoWriteInStep DEF CommitAccept
  <2>5. QED
    BY <1>3, <2>2, <2>3, <2>4 DEF CommitAccept
<1>4. QED
  BY <1>1, <1>2, <1>3

LEMMA RemoveMemberInStep ==
    ASSUME Shape, Agree({}), NEW w \in Workers, CommitRemoveMember(w)
    PROVE  InStep(w)
<1>1. PICK u \in Users : u = op[w].user
  BY OpFields DEF Shape, CommitRemoveMember, Doing
<1>2. PICK todo : todo = RemovalWrites(u)
  OBVIOUS
<1>3. /\ Plain(todo) /\ Range(todo) = {SyncRole(u, "none")}
            \cup {SyncCustom(u, c, FALSE) : c \in ListUserCustomRoles(u)}
  BY <1>2, RemovalPlain
<1>4. PICK P : P = Range(todo)
  OBVIOUS
<1>5. /\ members'[u] = "none" /\ (\A v \in Users : v # u => members'[v] = members[v])
      /\ assigned' = assigned \ ({u} \X CustomRoles)
      /\ UNCHANGED <<org, defs, groups, policies>> /\ Then(w, todo)
  BY <1>1, <1>2, RemoveMemberCommits DEF Shape, TypeOK, CommitRemoveMember, Then
<1>6. /\ SyncRole(u, "none").k = "role" /\ SyncRole(u, "none").user = u /\ SyncRole(u, "none").role = "none"
      /\ \A c : /\ SyncCustom(u, c, FALSE).k = "custom" /\ SyncCustom(u, c, FALSE).user = u
                /\ SyncCustom(u, c, FALSE).role = c /\ SyncCustom(u, c, FALSE).grant = FALSE
  BY DEF SyncRole, SyncCustom
<1>7. \A x \in P : Right(x, P)'
  <2>1. SUFFICES ASSUME NEW x \in P PROVE Right(x, P)'
    OBVIOUS
  <2>2. CASE x.k = "role" /\ x.user = u /\ x.role = "none"
    BY <1>5, <2>2 DEF Right
  <2>3. CASE x.k = "custom" /\ x.user = u /\ x.grant = FALSE /\ x.role \in CustomRoles
    BY <1>5, <2>3 DEF Right
  <2>4. CASE x = SyncRole(u, "none")
    BY <1>6, <2>2, <2>4
  <2>5. ASSUME NEW c \in CustomRoles, x = SyncCustom(u, c, FALSE) PROVE Right(x, P)'
    BY <1>6, <2>3, <2>5
  <2>6. QED
    BY <1>3, <1>4, <2>4, <2>5 DEF ListUserCustomRoles
<1>8. FixedAgree(P)'
  <2>1. \E x \in P : x.k \in {"role", "add"} /\ x.user = u
    BY <1>3, <1>4, <1>6
  <2>2. QED
    BY <1>5, <2>1 DEF Agree, FixedAgree, FixedRight
<1>9. CustomAgree(P)'
  <2>1. \A c \in CustomRoles : <<u, c>> \in assigned => \E x \in P : x.k = "custom" /\ x.user = u /\ x.role = c
    BY <1>3, <1>4, <1>6 DEF ListUserCustomRoles
  <2>2. \A v \in Users, c \in CustomRoles : <<v, c>> \in groups <=> <<v, c>> \in assigned
    BY DEF Agree, CustomAgree
  <2>3. \A v \in Users, c \in CustomRoles : <<v, c>> \in assigned' <=> (<<v, c>> \in assigned /\ v # u)
    BY <1>5
  <2>4. ASSUME NEW v \in Users, NEW c \in CustomRoles
        PROVE  \/ <<v, c>> \in groups' <=> <<v, c>> \in assigned'
               \/ \E x \in P : x.k = "custom" /\ x.user = v /\ x.role = c
    <3>1. CASE v # u \/ <<v, c>> \notin assigned
      BY <1>5, <2>2, <2>3, <3>1
    <3>2. CASE v = u /\ <<v, c>> \in assigned
      BY <2>1, <3>2
    <3>3. QED
      BY <3>1, <3>2
  <2>5. QED
    BY <2>4 DEF CustomAgree
<1>10. PolicyAgree(P)' /\ SeedAgree(P)'
  BY <1>5 DEF Agree, PolicyAgree, SeedAgree
<1>11. Agree(P)'
  BY <1>7, <1>8, <1>9, <1>10 DEF Agree
<1>12. QED
  BY <1>3, <1>4, <1>5, <1>11, TidyLists DEF InStep

\* A commit about the definition of role c.
LEMMA DefinitionInStep ==
    ASSUME Shape, Agree({}), NEW w \in Workers, NEW c \in CustomRoles, NEW perms \in SUBSET Grants,
           UNCHANGED <<org, members, assigned>>, defs' = [defs EXCEPT ![c] = perms],
           \/ Then(w, <<Ensure(c, perms)>>) /\ defs[c] = {}
           \/ Then(w, <<Drop(c), Ensure(c, perms)>>)
           \/ Then(w, <<Drop(c)>>) /\ perms = {}
    PROVE  InStep(w)
<1> DEFINE e == Ensure(c, perms)
           d == Drop(c)
<1>1. /\ e \in SyncOps /\ e.k = "ensure" /\ e.role = c /\ e.perms = perms
      /\ d \in SyncOps /\ d.k = "drop" /\ d.role = c
  BY SyncBuilt DEF Ensure, Drop
<1>2. /\ Tidy(<<e>>) /\ Range(<<e>>) = {e} /\ Tidy(<<d>>) /\ Range(<<d>>) = {d}
      /\ Tidy(<<d, e>>) /\ Range(<<d, e>>) = {d, e}
  BY <1>1, FewWrites, PlainSmall
<1>3. /\ UNCHANGED <<groups, policies>> /\ defs'[c] = perms /\ \A b \in CustomRoles : b # c => defs'[b] = defs[b]
      /\ \A b \in CustomRoles : policies[b] = defs[b]
  BY DEF Then, Shape, TypeOK, Agree, PolicyAgree
<1>4. ASSUME NEW P, (P = {e} /\ defs[c] = {}) \/ P = {d, e} \/ (P = {d} /\ perms = {})
      PROVE  Agree(P)'
  <2>1. \A x \in P : Right(x, P)'
    BY <1>1, <1>3, <1>4 DEF Right
  <2>2. FixedAgree(P)' /\ CustomAgree(P)' /\ SeedAgree(P)'
    BY <1>3 DEF Agree, FixedAgree, FixedRight, CustomAgree, SeedAgree
  <2>3. PolicyAgree(P)'
    BY <1>1, <1>3, <1>4 DEF PolicyAgree
  <2>4. QED
    BY <2>1, <2>2, <2>3 DEF Agree
<1>5. CASE Then(w, <<e>>) /\ defs[c] = {}
  <2>1. Agree({e})'
    BY <1>4, <1>5
  <2>2. QED
    BY <1>2, <1>5, <2>1 DEF InStep
<1>6. CASE Then(w, <<d, e>>)
  <2>1. Agree({d, e})'
    BY <1>4
  <2>2. QED
    BY <1>2, <1>6, <2>1 DEF InStep
<1>7. CASE Then(w, <<d>>) /\ perms = {}
  <2>1. Agree({d})'
    BY <1>4, <1>7
  <2>2. QED
    BY <1>2, <1>7, <2>1 DEF InStep
<1>8. QED
  BY <1>5, <1>6, <1>7

\* A commit about one assignment.
LEMMA AssignmentInStep ==
    ASSUME Shape, Agree({}), NEW w \in Workers, NEW u \in Users, NEW c \in CustomRoles, NEW g \in BOOLEAN,
           UNCHANGED <<org, members, defs>>, Then(w, <<SyncCustom(u, c, g)>>),
           assigned' = IF g THEN assigned \cup {<<u, c>>} ELSE assigned \ {<<u, c>>}
    PROVE  InStep(w)
<1> DEFINE x == SyncCustom(u, c, g)
<1>1. x \in SyncOps /\ x.k = "custom" /\ x.user = u /\ x.role = c /\ x.grant = g
  BY SyncBuilt DEF SyncCustom
<1>2. Tidy(<<x>>) /\ Range(<<x>>) = {x} /\ UNCHANGED <<groups, policies>>
  BY <1>1, FewWrites, PlainSmall DEF Then
<1>3. /\ <<u, c>> \in assigned' <=> g
      /\ \A v \in Users, b \in CustomRoles : (v # u \/ b # c) => (<<v, b>> \in assigned' <=> <<v, b>> \in assigned)
  OBVIOUS
<1>4. Right(x, {x})'
  BY <1>1, <1>3 DEF Right
<1>5. CustomAgree({x})'
  BY <1>1, <1>2, <1>3 DEF Agree, CustomAgree
<1>6. FixedAgree({x})' /\ PolicyAgree({x})' /\ SeedAgree({x})'
  BY <1>2 DEF Agree, FixedAgree, FixedRight, PolicyAgree, SeedAgree
<1>7. Agree({x})'
  BY <1>4, <1>5, <1>6 DEF Agree
<1>8. QED
  BY <1>2, <1>7 DEF InStep

\* Every commit of a request whose checks still hold keeps Casbin in step.
LEMMA CommitsInStep ==
    ASSUME Shape, Agree({}), NEW w \in Workers, Ready(op[w]), Commit(w), org' # "deleted"
    PROVE  InStep(w)
<1>1. CASE CommitInvite(w)
  BY <1>1, NoWriteInStep DEF CommitInvite
<1>2. CASE CommitConsume(w)
  BY <1>2, NoWriteInStep DEF CommitConsume
<1>3. CASE RepairDone(w)
  BY <1>3, RepairEnds, NoWriteInStep DEF RepairDone, tables
<1>4. CASE CommitDefineRole(w)
  <2>1. PICK c \in CustomRoles, perms \in SUBSET Grants : c = op[w].role /\ perms = op[w].perms
    BY <1>4, OpFields DEF Shape, CommitDefineRole, Doing
  <2>2. CASE /\ c \notin Defined /\ defs' = [defs EXCEPT ![c] = perms] /\ Then(w, <<Ensure(c, perms)>>)
    BY <1>4, <2>2, DefinitionInStep DEF CommitDefineRole, Defined
  <2>3. CASE UNCHANGED defs /\ Then(w, <<>>)
    BY <1>4, <2>3, NoWriteInStep DEF CommitDefineRole
  <2>4. QED
    BY <1>4, <2>1, <2>2, <2>3 DEF CommitDefineRole
<1>5. CASE CommitUpdateRole(w)
  <2>1. PICK c \in CustomRoles, perms \in SUBSET Grants : c = op[w].role /\ perms = op[w].perms
    BY <1>5, OpFields DEF Shape, CommitUpdateRole, Doing
  <2>2. /\ defs' = [defs EXCEPT ![c] = perms] /\ Then(w, <<Drop(c), Ensure(c, perms)>>)
        /\ UNCHANGED <<org, members, assigned>>
    BY <1>5, <2>1 DEF CommitUpdateRole
  <2>3. QED
    BY <2>2, DefinitionInStep
<1>6. CASE CommitDeleteRole(w)
  <2>1. PICK c \in CustomRoles : c = op[w].role
    BY <1>6, OpFields DEF Shape, CommitDeleteRole, Doing
  <2>2. /\ defs' = [defs EXCEPT ![c] = {}] /\ Then(w, <<Drop(c)>>)
        /\ UNCHANGED <<org, members, assigned>> /\ {} \in SUBSET Grants
    BY <1>6, <2>1 DEF CommitDeleteRole
  <2>3. QED
    BY <2>2, DefinitionInStep
<1>7. CASE CommitAssignRole(w)
  <2>1. PICK u \in Users, c \in CustomRoles : u = op[w].user /\ c = op[w].role
    BY <1>7, OpFields DEF Shape, CommitAssignRole, Doing
  <2>2. assigned' = assigned \cup {<<u, c>>} /\ UNCHANGED <<org, members, defs>>
    BY <1>7, <2>1 DEF CommitAssignRole
  <2>3. CASE Then(w, <<SyncCustom(u, c, TRUE)>>)
    <3>1. TRUE \in BOOLEAN /\ assigned' = IF TRUE THEN assigned \cup {<<u, c>>} ELSE assigned \ {<<u, c>>}
      BY <2>2
    <3>2. QED
      BY <2>2, <2>3, <3>1, AssignmentInStep
  <2>4. CASE <<u, c>> \in assigned /\ Then(w, <<>>)
    <3>1. assigned' = assigned
      BY <2>2, <2>4
    <3>2. QED
      BY <2>2, <2>4, <3>1, NoWriteInStep
  <2>5. QED
    BY <1>7, <2>1, <2>3, <2>4 DEF CommitAssignRole
<1>8. CASE CommitUnassignRole(w)
  <2>1. PICK u \in Users, c \in CustomRoles : u = op[w].user /\ c = op[w].role
    BY <1>8, OpFields DEF Shape, CommitUnassignRole, Doing
  <2>2. /\ assigned' = assigned \ {<<u, c>>} /\ UNCHANGED <<org, members, defs>>
        /\ Then(w, <<SyncCustom(u, c, FALSE)>>)
    BY <1>8, <2>1 DEF CommitUnassignRole
  <2>3. FALSE \in BOOLEAN /\ assigned' = IF FALSE THEN assigned \cup {<<u, c>>} ELSE assigned \ {<<u, c>>}
    BY <2>2
  <2>4. QED
    BY <2>2, <2>3, AssignmentInStep
<1>9. CASE CommitDeleteOrg(w)
  BY <1>9 DEF CommitDeleteOrg
<1>10. QED
  BY <1>1, <1>2, <1>3, <1>4, <1>5, <1>6, <1>7, <1>8, <1>9, CreateOrgInStep, MemberCommitsInStep,
     RemoveMemberInStep DEF Commit

\* What a write that is still to come after x leaves as it was.
LEMMA RightLater ==
    ASSUME NEW P, NEW Q, NEW y \in P, Right(y, P), y.k \notin {"add", "drop"}, UNCHANGED tables
    PROVE  Right(y, Q)'
  BY DEF Right, tables, Defined

\* Custom groupings after a write: the others are as they were, the ones
\* written are right.
LEMMA CustomKept ==
    ASSUME NEW P, NEW Q, CustomAgree(P), assigned' = assigned,
           \A u \in Users, c \in CustomRoles :
               \/ <<u, c>> \in groups' <=> <<u, c>> \in groups
               \/ <<u, c>> \in groups' <=> <<u, c>> \in assigned,
           \A y \in P : y.k = "custom" =>
               (y \in Q \/ (<<y.user, y.role>> \in groups' <=> <<y.user, y.role>> \in assigned))
    PROVE  CustomAgree(Q)'
<1>1. SUFFICES ASSUME NEW u \in Users, NEW c \in CustomRoles,
                      ~(<<u, c>> \in groups' <=> <<u, c>> \in assigned)
               PROVE  \E y \in Q : y.k = "custom" /\ y.user = u /\ y.role = c
  BY DEF CustomAgree
<1>2. ~(<<u, c>> \in groups <=> <<u, c>> \in assigned)
  BY <1>1
<1>3. PICK y \in P : y.k = "custom" /\ y.user = u /\ y.role = c
  BY <1>2 DEF CustomAgree
<1>4. y \in Q
  BY <1>1, <1>3
<1>5. QED
  BY <1>3, <1>4

\* Each write brings Casbin nearer to the tables.
LEMMA WriteInStep ==
    ASSUME Shape, SweptFirst, NEW w \in Workers, Writing(w), Written(NextOp(w)), UNCHANGED tables,
           NEW P, NEW Q, P = Range(op[w].todo), Q = Range(Remaining(w)), Agree(P)
    PROVE  Agree(Q)'
<1>1. PICK x, T : x = NextOp(w) /\ T = Range(Tail(op[w].todo))
  OBVIOUS
<1>2. /\ x \in SyncOps /\ P = {x} \cup T /\ T \subseteq SyncOps
      /\ \A y \in T : y.k \notin {"add", "drop"}
  BY <1>1, NextWrite, RangeOfSeq DEF Plain
<1>3. \A y \in T : Right(y, Q)'
  BY <1>2, RightLater DEF Agree
<1>4. Right(x, P) /\ Written(x)
  BY <1>1, <1>2 DEF Agree
<1>5. /\ UNCHANGED <<org, members, defs, assigned>>
      /\ members \in [Users -> Roles] /\ groups \subseteq Users \X AllRoles
      /\ policies \in [AllRoles -> SUBSET Permissions]
      /\ FixedRoles \subseteq AllRoles /\ CustomRoles \subseteq AllRoles
  BY DEF tables, Shape, TypeOK, AllRoles
<1>6. FixedAgree(P) /\ CustomAgree(P) /\ PolicyAgree(P) /\ SeedAgree(P)
  BY DEF Agree
<1>7. ~(x.k = "role" /\ x.role # "none") => Q = T
  BY <1>1 DEF Remaining
<1>8. CASE x.k = "role"
  <2>1. /\ x.user \in Users /\ x.role = members[x.user]
        /\ groups' = groups \ ({x.user} \X FixedRoles) /\ UNCHANGED policies
    BY <1>2, <1>4, <1>8, SyncFields DEF Right, Written, SweepFixedRoles
  <2>2. CASE x.role # "none"
    <3>1. PICK a : /\ a.k = "add" /\ a.user = x.user /\ a.role = x.role /\ Q = {a} \cup T
      BY <1>1, <1>8, <2>2, NextWrite
    <3>2. \A z \in Q : Right(z, Q)'
      BY <1>3, <1>5, <2>1, <3>1 DEF Right
    <3>3. FixedAgree(Q)'
      BY <1>2, <1>5, <1>6, <2>1, <3>1 DEF FixedAgree, FixedRight
    <3>4. CustomAgree(Q)'
      <4>1. \A u \in Users, c \in CustomRoles : <<u, c>> \in groups' <=> <<u, c>> \in groups
        BY <2>1, RolesApart
      <4>2. \A y \in P : y.k = "custom" => y \in Q
        BY <1>2, <1>8, <3>1
      <4>3. QED
        BY <1>5, <1>6, <4>1, <4>2, CustomKept
    <3>5. PolicyAgree(Q)' /\ SeedAgree(Q)'
      BY <1>2, <1>5, <1>6, <1>8, <2>1, <3>1 DEF PolicyAgree, SeedAgree
    <3>6. QED
      BY <3>2, <3>3, <3>4, <3>5 DEF Agree
  <2>3. CASE x.role = "none"
    <3>1. Q = T
      BY <1>7, <2>3
    <3>2. FixedRight(x.user)'
      BY <1>5, <2>1, <2>3 DEF FixedRight, FixedRoles
    <3>3. FixedAgree(Q)'
      BY <1>2, <1>5, <1>6, <2>1, <3>1, <3>2 DEF FixedAgree, FixedRight
    <3>4. CustomAgree(Q)'
      <4>1. \A u \in Users, c \in CustomRoles : <<u, c>> \in groups' <=> <<u, c>> \in groups
        BY <2>1, RolesApart
      <4>2. \A y \in P : y.k = "custom" => y \in Q
        BY <1>2, <1>8, <3>1
      <4>3. QED
        BY <1>5, <1>6, <4>1, <4>2, CustomKept
    <3>5. PolicyAgree(Q)' /\ SeedAgree(Q)'
      BY <1>2, <1>5, <1>6, <1>8, <2>1, <3>1 DEF PolicyAgree, SeedAgree
    <3>6. QED
      BY <1>3, <3>1, <3>3, <3>4, <3>5 DEF Agree
  <2>4. QED
    BY <2>2, <2>3
<1>9. CASE x.k = "add"
  <2>1. /\ x.user \in Users /\ x.role \in FixedRoles /\ x.role = members[x.user] /\ Q = T
        /\ groups' = groups \cup {<<x.user, x.role>>} /\ UNCHANGED policies
    BY <1>2, <1>4, <1>7, <1>9, SyncFields DEF Right, Written, AddGrouping
  <2>2. \A r \in FixedRoles : <<x.user, r>> \notin groups
    BY <1>1, <1>9 DEF SweptFirst, Adding
  <2>3. FixedRight(x.user)'
    BY <1>5, <2>1, <2>2 DEF FixedRight
  <2>4. FixedAgree(Q)'
    BY <1>2, <1>5, <1>6, <2>1, <2>3 DEF FixedAgree, FixedRight
  <2>5. CustomAgree(Q)'
    <3>1. \A u \in Users, c \in CustomRoles : <<u, c>> \in groups' <=> <<u, c>> \in groups
      BY <2>1, RolesApart
    <3>2. \A y \in P : y.k = "custom" => y \in Q
      BY <1>2, <1>9, <2>1
    <3>3. QED
      BY <1>5, <1>6, <3>1, <3>2, CustomKept
  <2>6. PolicyAgree(Q)' /\ SeedAgree(Q)'
    BY <1>2, <1>5, <1>6, <1>9, <2>1 DEF PolicyAgree, SeedAgree
  <2>7. QED
    BY <1>3, <2>1, <2>4, <2>5, <2>6 DEF Agree
<1>10. CASE x.k = "custom"
  <2>1. /\ x.user \in Users /\ x.role \in CustomRoles /\ Q = T /\ UNCHANGED policies
        /\ x.grant <=> <<x.user, x.role>> \in assigned
        /\ groups' = IF x.grant THEN groups \cup {<<x.user, x.role>>} ELSE groups \ {<<x.user, x.role>>}
    BY <1>2, <1>4, <1>7, <1>10, SyncFields DEF Right, Written, SyncCustomGrouping
  <2>2. <<x.user, x.role>> \in groups' <=> <<x.user, x.role>> \in assigned
    BY <2>1
  <2>3. \A u \in Users, r \in AllRoles : (u # x.user \/ r # x.role) =>
            (<<u, r>> \in groups' <=> <<u, r>> \in groups)
    BY <2>1
  <2>4. FixedAgree(Q)'
    <3>1. \A u \in Users, r \in FixedRoles : <<u, r>> \in groups' <=> <<u, r>> \in groups
      BY <2>1, RolesApart
    <3>2. QED
      BY <1>2, <1>5, <1>6, <1>10, <2>1, <3>1 DEF FixedAgree, FixedRight
  <2>5. CustomAgree(Q)'
    <3>1. ASSUME NEW u \in Users, NEW c \in CustomRoles
          PROVE  \/ <<u, c>> \in groups' <=> <<u, c>> \in groups
                 \/ <<u, c>> \in groups' <=> <<u, c>> \in assigned
      <4>1. CASE u = x.user /\ c = x.role
        BY <2>2, <4>1
      <4>2. CASE u # x.user \/ c # x.role
        BY <1>5, <2>3, <4>2
      <4>3. QED
        BY <4>1, <4>2
    <3>2. \A y \in P : y \in Q \/ y = x
      BY <1>2, <2>1
    <3>3. QED
      BY <1>5, <1>6, <2>2, <3>1, <3>2, CustomKept
  <2>6. PolicyAgree(Q)' /\ SeedAgree(Q)'
    BY <1>2, <1>5, <1>6, <1>10, <2>1 DEF PolicyAgree, SeedAgree
  <2>7. QED
    BY <1>3, <2>1, <2>4, <2>5, <2>6 DEF Agree
<1>11. ASSUME Q = T, UNCHANGED groups, x.k \notin {"role", "add", "custom"}
       PROVE  FixedAgree(Q)' /\ CustomAgree(Q)'
  BY <1>2, <1>5, <1>6, <1>11 DEF FixedAgree, FixedRight, CustomAgree
<1>12. CASE x.k = "ensure"
  <2>1. /\ x.role \in CustomRoles /\ x.perms = defs[x.role] /\ Q = T /\ UNCHANGED groups
        /\ policies' = [policies EXCEPT ![x.role] = @ \cup x.perms]
    BY <1>2, <1>4, <1>7, <1>12, SyncFields DEF Right, Written, EnsureCustomRolePolicies
  <2>2. \A y \in P : y.k # "drop"
    BY <1>2, <1>12
  <2>3. policies[x.role] \subseteq defs[x.role]
    BY <1>6, <2>1, <2>2 DEF PolicyAgree
  <2>4. policies'[x.role] = defs[x.role] /\ \A r \in AllRoles : r # x.role => policies'[r] = policies[r]
    BY <1>5, <2>1, <2>3
  <2>5. PolicyAgree(Q)'
    BY <1>2, <1>5, <1>6, <2>1, <2>4 DEF PolicyAgree
  <2>6. SeedAgree(Q)'
    BY <1>2, <1>5, <1>6, <1>12, <2>1, <2>4, RolesApart DEF SeedAgree
  <2>7. QED
    BY <1>3, <1>11, <1>12, <2>1, <2>5, <2>6 DEF Agree
<1>13. CASE x.k = "drop"
  <2>1. /\ x.role \in CustomRoles /\ Q = T /\ UNCHANGED groups
        /\ policies' = [policies EXCEPT ![x.role] = {}]
    BY <1>2, <1>4, <1>7, <1>13, SyncFields DEF Written, RemoveCustomRolePolicies
  <2>2. defs[x.role] = {} \/ \E y \in T : y.k = "ensure" /\ y.role = x.role
    BY <1>2, <1>4, <1>13 DEF Right
  <2>3. policies'[x.role] = {} /\ \A r \in AllRoles : r # x.role => policies'[r] = policies[r]
    BY <1>5, <2>1
  <2>4. PolicyAgree(Q)'
    <3>1. SUFFICES ASSUME NEW c \in CustomRoles
                   PROVE  \/ policies'[c] = defs'[c]
                          \/ policies'[c] \subseteq defs'[c] /\ \E y \in Q : y.k = "ensure" /\ y.role = c
                          \/ \E y \in Q : y.k = "drop" /\ y.role = c
      BY DEF PolicyAgree
    <3>2. CASE c = x.role
      BY <1>2, <1>5, <2>1, <2>2, <2>3, <3>2
    <3>3. CASE c # x.role
      <4>1. policies'[c] = policies[c] /\ defs'[c] = defs[c]
        BY <1>5, <2>3, <3>3
      <4>2. \A y \in P : y \in Q \/ y = x
        BY <1>2, <2>1
      <4>3. QED
        BY <1>6, <2>1, <3>3, <4>1, <4>2 DEF PolicyAgree
    <3>4. QED
      BY <3>2, <3>3
  <2>5. SeedAgree(Q)'
    BY <1>2, <1>5, <1>6, <1>13, <2>1, <2>3, RolesApart DEF SeedAgree
  <2>6. QED
    BY <1>3, <1>11, <1>13, <2>1, <2>4, <2>5 DEF Agree
<1>14. CASE x.k = "orphans"
  <2>1. /\ x.defined = Defined /\ Q = T /\ UNCHANGED groups
        /\ policies' = [r \in AllRoles |-> IF r \in FixedRoles \cup x.defined THEN policies[r] ELSE {}]
    BY <1>4, <1>7, <1>14 DEF Right, Written, RemoveOrphans
  <2>2. /\ \A r \in FixedRoles : policies'[r] = policies[r]
        /\ \A c \in CustomRoles : policies'[c] = policies[c] \/ (policies'[c] = {} /\ defs[c] = {})
    BY <1>5, <2>1 DEF Defined
  <2>3. PolicyAgree(Q)'
    BY <1>2, <1>5, <1>6, <1>14, <2>1, <2>2 DEF PolicyAgree
  <2>4. SeedAgree(Q)'
    BY <1>2, <1>5, <1>6, <1>14, <2>1, <2>2 DEF SeedAgree
  <2>5. QED
    BY <1>3, <1>11, <1>14, <2>1, <2>3, <2>4 DEF Agree
<1>15. CASE x.k = "seed"
  <2>1. Q = T /\ UNCHANGED groups /\ policies' = [r \in AllRoles |-> policies[r] \cup Seeded(r)]
    BY <1>4, <1>7, <1>15 DEF Written, SeedOrgPolicies
  <2>2. /\ \A c \in CustomRoles : policies'[c] = policies[c]
        /\ \A r \in FixedRoles : policies'[r] = Seeded(r)
    BY <1>5, <1>6, <2>1, CustomUnseeded DEF SeedAgree
  <2>3. PolicyAgree(Q)'
    BY <1>2, <1>5, <1>6, <1>15, <2>1, <2>2 DEF PolicyAgree
  <2>4. SeedAgree(Q)'
    BY <2>2 DEF SeedAgree
  <2>5. QED
    BY <1>3, <1>11, <1>15, <2>1, <2>3, <2>4 DEF Agree
<1>16. QED
  BY <1>4, <1>8, <1>9, <1>10, <1>12, <1>13, <1>14, <1>15 DEF Written, Right

\* What each step leaves alone.
LEMMA StepsKeep ==
    ASSUME Shape, [Next]_vars
    PROVE  /\ serial' = serial
           /\ faults' = 0 => faults = 0
           /\ \A w \in Workers : SyncFails(w) => faults' # 0
<1>1. faults \in Nat
  BY MembershipAssumption DEF Shape, TypeOK
<1>2. \A w \in Workers : SyncFails(w) => faults' = faults + 1 /\ serial' = serial
  BY DEF SyncFails
<1>3. \A w \in Workers : SyncFails(w) => faults' # 0 /\ serial' = serial
  BY <1>1, <1>2
<1>4. (\E w \in Workers : SyncFails(w)) \/ UNCHANGED <<faults, serial>>
  BY BeginReady, CommitsTidy, SyncWrites
  DEF Next, vars, Begun, Start, Committed, Then, Rest, InviteLapses
<1>5. QED
  BY <1>3, <1>4

\* A deleted organization stays deleted.
LEMMA DeletedStays ==
    ASSUME Shape, [Next]_vars, \A w \in Workers : Ready(op[w]), org = "deleted"
    PROVE  org' = "deleted"
<1>1. ASSUME NEW w \in Workers, Commit(w) PROVE org' = "deleted"
  <2>1. CASE CommitCreateOrg(w)
    BY <2>1 DEF CommitCreateOrg, Doing, Ready
  <2>2. CASE CommitDeleteOrg(w)
    BY <2>2 DEF CommitDeleteOrg
  <2>3. CASE UNCHANGED org
    BY <2>3
  <2>4. QED
    BY <1>1, <2>1, <2>2, <2>3 DEF Commit, CommitAddMember, CommitUpdateMemberRole, CommitRemoveMember,
        CommitInvite, CommitConsume, CommitAccept, CommitDefineRole, CommitUpdateRole,
        CommitDeleteRole, CommitAssignRole, CommitUnassignRole, RepairDone, tables
<1>2. (\E w \in Workers : Commit(w)) \/ UNCHANGED org
  BY BeginReady, SyncWrites DEF Next, vars, tables, Begun, Start, Rest, SyncFails, InviteLapses
<1>3. QED
  BY <1>1, <1>2

LEMMA AgreeStep == Shape /\ SerialInv /\ FixedInv /\ AgreeInv /\ [Next]_vars => AgreeInv'
<1> SUFFICES ASSUME Shape, SerialInv, FixedInv, AgreeInv, [Next]_vars,
                    serial', faults' = 0, org' # "deleted"
             PROVE  \E P : P = ToCome' /\ Agree(P)'
  BY DEF AgreeInv
<1>1. serial /\ faults = 0 /\ serial' = serial
  BY StepsKeep
<1>2. Alone /\ TablesSound /\ \A w \in Workers : Ready(op[w])
  BY <1>1 DEF SerialInv
<1>3. org # "deleted"
  BY <1>2, DeletedStays
<1>4. PICK P : P = ToCome /\ Agree(P)
  BY <1>1, <1>3 DEF AgreeInv
<1>5. op \in [Workers -> Ops]
  BY DEF Shape
<1>6. ASSUME UNCHANGED <<org, members, defs, assigned, groups, policies, op>>
      PROVE  ToCome' = P /\ Agree(P)'
  <2>1. ToCome' = P
    BY <1>4, <1>6 DEF ToCome, Busy
  <2>2. Agree(P)'
    BY <1>4, <1>6 DEF Agree, Right, Defined, FixedAgree, FixedRight, CustomAgree, PolicyAgree, SeedAgree
  <2>3. QED
    BY <2>1, <2>2
<1>7. ASSUME NEW w \in Workers, Begin(w) PROVE \E Q : Q = ToCome' /\ Agree(Q)'
  <2>1. PICK o \in Ops : Start(w, o) /\ o.do # "sync" /\ (o.do = "repair" => RepairBegun(o))
    BY <1>7, BeginReady DEF Begun
  <2>2. op' = [op EXCEPT ![w] = o] /\ UNCHANGED <<tables, groups, policies>> /\ \A v \in Workers : Idle(v)
    BY <1>1, <2>1 DEF Start, Hold
  <2>3. P = {}
    BY <1>4, <2>2 DEF ToCome, Busy, Idle
  <2>4. CASE o.do = "repair"
    <3>1. o.todo \in Seq(SyncOps)
      BY <2>4, OpFields
    <3>2. PICK Q : Q = Range(o.todo)
      OBVIOUS
    <3>3. ToCome' = Q
      BY <2>2, <2>4, <3>1, <3>2, ToComeNext
    <3>4. \A x \in Q : Right(x, Q)
      BY <1>2, <1>4, <2>1, <2>3, <2>4, <3>2, RepairIsRight
    <3>5. Agree(Q)
      BY <1>4, <2>3, <3>4, MoreToCome
    <3>6. Agree(Q)'
      BY <2>2, <3>5 DEF tables, Agree, Right, Defined, FixedAgree, FixedRight, CustomAgree, PolicyAgree, SeedAgree
    <3>7. QED
      BY <3>3, <3>6
  <2>5. CASE o.do # "repair"
    <3>1. ToCome' = {}
      BY <2>1, <2>2, <2>5, ToComeNext
    <3>2. Agree({})'
      BY <1>4, <2>2, <2>3, NothingWritten DEF tables
    <3>3. QED
      BY <3>1, <3>2
  <2>6. QED
    BY <2>4, <2>5
<1>8. ASSUME NEW w \in Workers, Commit(w) PROVE \E Q : Q = ToCome' /\ Agree(Q)'
  <2>1. \A v \in Workers : v # w => Idle(v)
    BY <1>2, <1>8, CommitsTidy DEF Committed, Alone
  <2>2. P = {}
    <3>1. CASE ~Busy(w)
      BY <1>4, <2>1, <3>1, ToComeAlone
    <3>2. CASE Busy(w)
      <4>1. op[w].todo = <<>>
        BY <1>8, <3>2 DEF Busy, Commit, Doing, CommitCreateOrg, CommitDeleteOrg, CommitAddMember,
           CommitUpdateMemberRole, CommitRemoveMember, CommitInvite, CommitConsume, CommitAccept,
           CommitDefineRole, CommitUpdateRole, CommitDeleteRole, CommitAssignRole,
           CommitUnassignRole, RepairDone
      <4>2. Range(op[w].todo) = {}
        BY <4>1 DEF Range
      <4>3. QED
        BY <1>4, <2>1, <3>2, <4>2, ToComeAlone
    <3>3. QED
      BY <3>1, <3>2
  <2>3. PICK todo : Tidy(todo) /\ Then(w, todo) /\ Agree(Range(todo))'
    BY <1>2, <1>4, <1>8, <2>2, CommitsInStep DEF InStep
  <2>4. PICK o \in Ops : /\ op' = [op EXCEPT ![w] = o]
                         /\ \/ o = [do |-> "idle"] /\ todo = <<>>
                            \/ o.do = "sync" /\ o.todo = todo
    BY <2>3, ThenTidy
  <2>5. PICK Q : Q = Range(todo)
    OBVIOUS
  <2>6. ToCome' = Q
    <3>1. CASE o = [do |-> "idle"] /\ todo = <<>>
      <4>1. Range(todo) = {}
        BY <3>1 DEF Range
      <4>2. QED
        BY <2>1, <2>4, <2>5, <3>1, <4>1, ToComeNext
    <3>2. CASE o.do = "sync" /\ o.todo = todo
      BY <2>1, <2>3, <2>4, <2>5, <3>2, ToComeNext DEF Tidy
    <3>3. QED
      BY <2>4, <3>1, <3>2
  <2>7. QED
    BY <2>3, <2>5, <2>6
<1>9. ASSUME NEW w \in Workers, Sync(w) PROVE \E Q : Q = ToCome' /\ Agree(Q)'
  <2>1. Writing(w) /\ Written(NextOp(w)) /\ UNCHANGED tables
    BY <1>9, SyncWrites DEF Rest
  <2>2. \A v \in Workers : v # w => Idle(v)
    BY <1>2, <2>1 DEF Alone, Writing, Idle
  <2>3. Busy(w) /\ Tidy(Remaining(w))
    BY <2>1, NextWrite
  <2>4. P = Range(op[w].todo)
    BY <1>4, <2>2, <2>3, ToComeAlone
  <2>5. PICK rest : rest = Remaining(w)
    OBVIOUS
  <2>6. PICK Q : Q = Range(rest)
    OBVIOUS
  <2>7. Agree(Q)'
    BY <1>4, <2>1, <2>4, <2>5, <2>6, WriteInStep DEF FixedInv
  <2>8. PICK o \in Ops : /\ op' = [op EXCEPT ![w] = o]
                         /\ \/ o = [do |-> "idle"] /\ rest = <<>>
                            \/ o.do \in {"sync", "repair"} /\ o.todo = rest
    BY <1>9, <2>5, RestTidy
  <2>9. ToCome' = Q
    <3>1. CASE o = [do |-> "idle"] /\ rest = <<>>
      <4>1. Range(rest) = {}
        BY <3>1 DEF Range
      <4>2. QED
        BY <2>2, <2>6, <2>8, <3>1, <4>1, ToComeNext
    <3>2. CASE o.do \in {"sync", "repair"} /\ o.todo = rest
      BY <2>2, <2>3, <2>5, <2>6, <2>8, <3>2, ToComeNext DEF Tidy
    <3>3. QED
      BY <2>8, <3>1, <3>2
  <2>10. QED
    BY <2>7, <2>9
<1>10. QED
  BY <1>6, <1>7, <1>8, <1>9, StepsKeep DEF Next, vars, tables, InviteLapses

\* Served one at a time and with no write lost, between requests Casbin allows
\* exactly what memberships, assignments and definitions say.
THEOREM CasbinInStep == Spec => []CasbinAgrees
<1>1. Init => AgreeInv
  <2> SUFFICES ASSUME Init PROVE ToCome = {} /\ Agree({})
    BY DEF AgreeInv
  <2>1. ToCome = {}
    BY DEF Init, ToCome, Busy
  <2>2. FixedAgree({}) /\ CustomAgree({})
    BY DEF Init, FixedAgree, FixedRight, FixedRoles, CustomAgree
  <2>3. PolicyAgree({}) /\ SeedAgree({})
    BY DEF Init, PolicyAgree, SeedAgree, AllRoles
  <2>4. QED
    BY <2>1, <2>2, <2>3 DEF Agree
<1>2. Shape /\ AgreeInv => CasbinAgrees
  <2> SUFFICES ASSUME Shape, AgreeInv, serial, faults = 0, Quiet, org = "live",
                      NEW u \in Users, NEW p \in Permissions \ {Wildcard}
               PROVE  Enforce(u, p) <=> Entitled(u, p)
    BY DEF CasbinAgrees
  <2>1. ToCome = {}
    BY DEF Quiet, Idle, ToCome, Busy
  <2>2. Agree({})
    BY <2>1 DEF AgreeInv
  <2>3. \A r \in FixedRoles : (<<u, r>> \in groups <=> r = members[u]) /\ policies[r] = Seeded(r)
    BY <2>2 DEF Agree, FixedAgree, FixedRight, SeedAgree
  <2>4. \A c \in CustomRoles : (<<u, c>> \in groups <=> <<u, c>> \in assigned) /\ policies[c] = defs[c]
    BY <2>2 DEF Agree, CustomAgree, PolicyAgree
  <2>5. \A c \in CustomRoles : Wildcard \notin defs[c]
    BY CustomUnseeded DEF Shape, TypeOK
  <2>6. IsMember(u) <=> members[u] \in FixedRoles
    BY DEF Shape, TypeOK, Roles, IsMember, FixedRoles
  <2>7. (\E r \in FixedRoles : <<u, r>> \in groups /\ (p \in policies[r] \/ Wildcard \in policies[r]))
          <=> IsMember(u) /\ (p \in Seeded(members[u]) \/ Wildcard \in Seeded(members[u]))
    BY <2>3, <2>6
  <2>8. (\E c \in CustomRoles : <<u, c>> \in groups /\ (p \in policies[c] \/ Wildcard \in policies[c]))
          <=> \E c \in CustomRoles : <<u, c>> \in assigned /\ p \in defs[c]
    BY <2>4, <2>5
  <2>9. QED
    BY <2>7, <2>8 DEF Enforce, Entitled, AllRoles
<1>3. QED
  BY <1>1, <1>2, AgreeStep, ShapeHolds, SerialHolds, FixedHolds, PTL DEF Spec
=============================================================================
