---------------------------- MODULE AccessPosture ----------------------------
(***************************************************************************)
(* The normalized access posture of the configured Azure subscriptions:    *)
(* who holds a role in each, merged into totals that count a principal     *)
(* once, and what is written or left out when role assignments, the user   *)
(* list or the app lists could not be read, or when a group holds a role.  *)
(*                                                                         *)
(* The values that are the same in every artifact (sign_in, the local_*    *)
(* values, the gaps on root and connected_apps) are left out.              *)
(***************************************************************************)
EXTENDS Naturals, FiniteSets, Sequences

CONSTANTS
  Users,             \* IDs of users, in the tenant's list or not
  ServicePrincipals, \* IDs of service principals
  Tenancies,         \* what the subscriptions may answer, each a sequence
  Directories,       \* the Entra reads the posture is taken over
  Levels             \* the collection levels

(* An Azure role is Owner or User Access Administrator (admin), one of the *)
(* built-in read-only roles (reader), or any other (writer).               *)
Roles == {"admin", "writer", "reader"}
Types == {"User", "ServicePrincipal", "Group", "Other"}
NoPrincipal == "no_principal"
Principals == Users \cup ServicePrincipals \cup {NoPrincipal}
Assignments == [principal : Principals, type : Types, role : Roles]

(* Why values are missing, "none" for the nil *missing.                    *)
NoWhy == "none"
Whys == {"unreadable", "rbac", "users", "sign_ins", "service_principals",
         "applications", "group_role", "other_role", "group_admin_role",
         "other_admin_role", "service_principal_use", "service_principal_limits"}

Answers == [unreadable : BOOLEAN, rbacMiss : BOOLEAN,
            roleAssignments : SUBSET Assignments]

DirectoryFacts ==
  [usersMiss : {NoWhy, "users"}, signInMiss : {NoWhy, "sign_ins"},
   servicePrincipalsMiss : {NoWhy, "service_principals"},
   applicationsMiss : {NoWhy, "applications"},
   users : SUBSET Users,         \* the users in the list
   disabled : SUBSET Users,
   guests : SUBSET Users,
   signedIn : SUBSET Users,      \* in the last 90 days
   apps : SUBSET ServicePrincipals,  \* the Application service principals
   disabledApps : SUBSET ServicePrincipals,
   neverExpiring : SUBSET ServicePrincipals, \* with such a credential, its own
   overdue : SUBSET ServicePrincipals]       \* or its application's

ASSUME TenanciesAssumption ==
  \A t \in Tenancies : /\ t \in Seq(Answers)
                       /\ \A i \in 1..Len(t) :
                            IsFiniteSet(t[i].roleAssignments)
ASSUME DirectoriesAssumption ==
  /\ Directories \subseteq DirectoryFacts
  /\ \A d \in Directories :
       (d.disabledApps \cup d.neverExpiring \cup d.overdue) \subseteq d.apps
ASSUME AccessLevelsAssumption == Levels \subseteq {"trust", "audit", "internal"}

-----------------------------------------------------------------------------
VARIABLES
  accounts,  \* the subscriptions' answers, in configured order
  dir,       \* the users, sign-ins and apps read from Entra
  level,     \* the run's collection level
  subscription,  \* the place of the one accessPosture turns to next
  total,     \* the population merged so far
  values,    \* the values written, at place 0 for the totals
  gaps,      \* the gaps recorded
  posture    \* "pending", then "nil" or "written"

accessVars == <<accounts, dir, level, subscription, total, values, gaps, posture>>

audit == level # "trust"

firstMissing(a, b) == IF a # NoWhy THEN a ELSE b

newAccessPopulation ==
  [why |-> NoWhy, users |-> {}, admins |-> {}, servicePrincipals |-> {},
   writers |-> {}, groupHeld |-> FALSE, groupHeldAdmin |-> FALSE,
   otherHeld |-> FALSE, otherHeldAdmin |-> FALSE]

(* add sorts the assignments by their principal's type.  Only a group is   *)
(* noted without a principal.                                              *)
named(assignments, type) ==
  {a \in assignments : a.type = type /\ a.principal # NoPrincipal}
grouped(assignments) == {a \in assignments : a.type = "Group"}
administers(assignments) == {a \in assignments : a.role = "admin"}
writes(assignments) == {a \in assignments : a.role # "reader"}
holders(assignments) == {a.principal : a \in assignments}

add(assignments) ==
  LET users == named(assignments, "User")
      apps  == named(assignments, "ServicePrincipal")
      other == named(assignments, "Other")
  IN [why |-> NoWhy,
      users |-> holders(users),
      admins |-> holders(administers(users)),
      servicePrincipals |-> holders(apps),
      writers |-> holders(writes(apps)),
      groupHeld |-> grouped(assignments) # {},
      groupHeldAdmin |-> administers(grouped(assignments)) # {},
      otherHeld |-> other # {},
      otherHeldAdmin |-> administers(other) # {}]

subscriptionPopulation(account) ==
  CASE account.unreadable -> [newAccessPopulation EXCEPT !.why = "unreadable"]
    [] ~account.unreadable /\ account.rbacMiss ->
         [newAccessPopulation EXCEPT !.why = "rbac"]
    [] OTHER -> add(account.roleAssignments)

(* Mutant: the last subscription's group flags replace the earlier ones.   *)
mergeLastGroup(p, q) ==
  [why |-> firstMissing(p.why, q.why),
   users |-> p.users \cup q.users,
   admins |-> p.admins \cup q.admins,
   servicePrincipals |-> p.servicePrincipals \cup q.servicePrincipals,
   writers |-> p.writers \cup q.writers,
   groupHeld |-> q.groupHeld,
   groupHeldAdmin |-> q.groupHeldAdmin,
   otherHeld |-> p.otherHeld \/ q.otherHeld,
   otherHeldAdmin |-> p.otherHeldAdmin \/ q.otherHeldAdmin]

(* A principal with roles in several subscriptions is merged into one.     *)
merge(p, q) ==
  [why |-> firstMissing(p.why, q.why),
   users |-> p.users \cup q.users,
   admins |-> p.admins \cup q.admins,
   servicePrincipals |-> p.servicePrincipals \cup q.servicePrincipals,
   writers |-> p.writers \cup q.writers,
   groupHeld |-> p.groupHeld \/ q.groupHeld,
   groupHeldAdmin |-> p.groupHeldAdmin \/ q.groupHeldAdmin,
   otherHeld |-> p.otherHeld \/ q.otherHeld,
   otherHeldAdmin |-> p.otherHeldAdmin \/ q.otherHeldAdmin]

holdersMiss(p) ==
  CASE p.groupHeld -> "group_role"
    [] ~p.groupHeld /\ p.otherHeld -> "other_role"
    [] OTHER -> NoWhy

adminHoldersMiss(p) ==
  CASE p.groupHeldAdmin -> "group_admin_role"
    [] ~p.groupHeldAdmin /\ p.otherHeldAdmin -> "other_admin_role"
    [] OTHER -> NoWhy

(* The enabled users of the list among ids, none without the list.         *)
roleHolders(ids) ==
  IF dir.usersMiss # NoWhy THEN {} ELSE (ids \cap dir.users) \ dir.disabled

-----------------------------------------------------------------------------
(* A *int is a set of at most one number.  A value is written as num of    *)
(* of: a count or a flag as num of 1, and a percentage over an empty       *)
(* population, which is null, as 0 of 0.                                   *)
Value(field, num, of) == {[at |-> field, num |-> num, of |-> of]}

count(field, ns) == IF audit THEN {[at |-> field, num |-> n, of |-> 1] : n \in ns}
                    ELSE {}

share(field, ns, size) ==
  IF size = 0 THEN Value(field, 0, 0)
  ELSE {[at |-> field, num |-> n, of |-> size] : n \in ns}

MemberCounts == {"member_count", "external_member_count", "sso_member_count",
                 "inactive_member_count"}
CredentialCounts ==
  {"credential_count", "never_expiring_credential_count",
   "unused_credential_count", "unrestricted_credential_count",
   "write_access_credential_count", "rotation_overdue_credential_count"}
Counts == MemberCounts \cup CredentialCounts \cup {"admin_count"}
Presences == {"members_present", "external_members_present", "admins_present",
              "credentials_present"}
Shares == {"sso_coverage_pct", "inactive_pct", "admin_share_pct",
           "never_expiring_pct", "unused_pct", "unrestricted_pct",
           "write_access_pct", "rotation_overdue_pct"}
MemberFields == MemberCounts \cup {"members_present", "external_members_present",
                                   "sso_coverage_pct", "inactive_pct"}
AdminFields == {"admins_present", "admin_count", "admin_share_pct"}
CredentialFields == CredentialCounts \cup
  {"credentials_present", "never_expiring_pct", "unused_pct",
   "unrestricted_pct", "write_access_pct", "rotation_overdue_pct"}
Fields == MemberFields \cup AdminFields \cup CredentialFields

(* Below the audit level the counts have no gaps either.                   *)
leaveOut(why, fields) ==
  IF why = NoWhy THEN {}
  ELSE {[at |-> f, why |-> why] : f \in IF audit THEN fields ELSE fields \ Counts}

(* What a block writes and leaves out.  A gap on a whole section stands as *)
(* one on each of its fields.                                              *)
Block(vs, gs) == [values |-> vs, gaps |-> gs]
Both(a, b) == Block(a.values \cup b.values, a.gaps \cup b.gaps)

(* One holder found is enough.  None found says nothing when not all was   *)
(* read.                                                                   *)
present(field, n, why) ==
  CASE n > 0                 -> Block(Value(field, 1, 1), {})
    [] n = 0 /\ why # NoWhy  -> Block({}, leaveOut(why, {field}))
    [] OTHER                 -> Block(Value(field, 0, 1), {})

(* A count and its share of n, or the gap on both.                         *)
CountAndShare(countField, pctField, c, n) ==
  Block(count(countField, c.ns) \cup share(pctField, c.ns, n),
        leaveOut(c.why, {countField, pctField}))

(* The users the sign-in activity list shows inactive, nil without it.     *)
inactiveMembers(members) ==
  CASE members = {} -> [ns |-> {0}, why |-> NoWhy]
    [] members # {} /\ dir.signInMiss # NoWhy -> [ns |-> {}, why |-> dir.signInMiss]
    [] OTHER -> [ns |-> {Cardinality(members \ dir.signedIn)}, why |-> NoWhy]

accessMembers(p) ==
  LET members  == roleHolders(p.users)
      guests   == Cardinality(members \cap dir.guests)
      n        == Cardinality(members)
      why == firstMissing(firstMissing(p.why, dir.usersMiss), holdersMiss(p))
      presence == Both(present("members_present", n, why),
                       present("external_members_present", guests, why))
      counted == Both(Block(count("member_count", {n}), {}),
                      Block(count("external_member_count", {guests}), {}))
      details == Both(CountAndShare("sso_member_count", "sso_coverage_pct",
                                    [ns |-> {n}, why |-> NoWhy], n),
                      CountAndShare("inactive_member_count", "inactive_pct",
                                    inactiveMembers(members), n))
  IN Both(presence,
          IF why # NoWhy
          THEN Block({}, leaveOut(why, MemberFields \ Presences))
          ELSE Both(counted, details))

(* Mutant: the share is taken over the members found.                      *)
adminShareOfKnown(p, n) ==
  Block(share("admin_share_pct", {n}, Cardinality(roleHolders(p.users))), {})

(* The share is taken over every member, who may be unknown when the       *)
(* admins are not.                                                         *)
adminShare(p, n) ==
  IF holdersMiss(p) # NoWhy
  THEN Block({}, leaveOut(holdersMiss(p), {"admin_share_pct"}))
  ELSE Block(share("admin_share_pct", {n}, Cardinality(roleHolders(p.users))), {})

accessAdmins(p) ==
  LET n   == Cardinality(roleHolders(p.admins))
      why == firstMissing(firstMissing(p.why, dir.usersMiss), adminHoldersMiss(p))
  IN Both(present("admins_present", n, why),
          IF why # NoWhy
          THEN Block({}, leaveOut(why, {"admin_count", "admin_share_pct"}))
          ELSE Both(Block(count("admin_count", {n}), {}), adminShare(p, n)))

-----------------------------------------------------------------------------
(* The service principals among ids that are in matching, with why they    *)
(* could not be counted.  A service principal outside the list has no      *)
(* credentials, so only one inside it needs the applications.              *)
countServicePrincipalCredentials(ids, matching) ==
  CASE ids = {} -> [ns |-> {0}, why |-> NoWhy]
    [] ids # {} /\ dir.servicePrincipalsMiss # NoWhy ->
         [ns |-> {}, why |-> dir.servicePrincipalsMiss]
    [] ids # {} /\ dir.servicePrincipalsMiss = NoWhy /\ ids \cap dir.apps # {}
         /\ dir.applicationsMiss # NoWhy ->
         [ns |-> {}, why |-> dir.applicationsMiss]
    [] OTHER -> [ns |-> {Cardinality(ids \cap matching)}, why |-> NoWhy]

(* Mutant: the reason of a count that could not be made is lost.           *)
enabledWithoutReason(ids) ==
  [ns |-> IF ids # {} /\ dir.servicePrincipalsMiss # NoWhy THEN {}
          ELSE {Cardinality(ids \ dir.disabledApps)},
   why |-> NoWhy]

(* A disabled service principal cannot get a token.                        *)
enabledServicePrincipals(ids) ==
  CASE ids = {} -> [ns |-> {0}, why |-> NoWhy]
    [] ids # {} /\ dir.servicePrincipalsMiss # NoWhy ->
         [ns |-> {}, why |-> dir.servicePrincipalsMiss]
    [] OTHER -> [ns |-> {Cardinality(ids \ dir.disabledApps)}, why |-> NoWhy]

accessCredentials(p) ==
  LET ids == p.servicePrincipals
      n   == Cardinality(ids)
      why == firstMissing(p.why, holdersMiss(p))
      known(m)   == [ns |-> {m}, why |-> NoWhy]
      unread(gap) == [ns |-> {}, why |-> gap]
      presence == present("credentials_present", n, why)
      details ==
        Both(Both(CountAndShare("never_expiring_credential_count", "never_expiring_pct",
                          countServicePrincipalCredentials(ids, dir.neverExpiring), n),
                  CountAndShare("write_access_credential_count", "write_access_pct",
                          enabledServicePrincipals(p.writers), n)),
             Both(CountAndShare("rotation_overdue_credential_count",
                          "rotation_overdue_pct",
                          countServicePrincipalCredentials(ids, dir.overdue), n),
                  Both(CountAndShare("unrestricted_credential_count", "unrestricted_pct",
                               IF p.writers = {} THEN known(0)
                               ELSE unread("service_principal_limits"), n),
                       CountAndShare("unused_credential_count", "unused_pct",
                               IF n = 0 THEN known(0)
                               ELSE unread("service_principal_use"), n))))
  IN Both(presence,
          IF why # NoWhy
          THEN Block({}, leaveOut(why, CredentialFields \ Presences))
          ELSE Both(Block(count("credential_count", {n}), {}), details))

accessSections(p) ==
  Both(accessMembers(p), Both(accessAdmins(p), accessCredentials(p)))

-----------------------------------------------------------------------------
(* Write a section's values and gaps at a place of the artifact.           *)
Emit(place, block) ==
  /\ values' = values \cup {[place |-> place, at |-> v.at, num |-> v.num,
                             of |-> v.of] : v \in block.values}
  /\ gaps' = gaps \cup {[place |-> place, at |-> g.at, why |-> g.why] :
                          g \in block.gaps}

AccessInit ==
  /\ accounts \in Tenancies
  /\ dir \in Directories
  /\ level \in Levels
  /\ subscription = 1
  /\ total = newAccessPopulation
  /\ values = {}
  /\ gaps = {}
  /\ posture = "pending"

Merge == /\ posture = "pending"
         /\ subscription <= Len(accounts)
         /\ total' = merge(total, subscriptionPopulation(accounts[subscription]))
         /\ subscription' = subscription + 1
         /\ UNCHANGED <<accounts, dir, level, posture>>

(* Below the audit level a subscription has no scope of its own.           *)
MergeOnly == Merge /\ ~audit /\ UNCHANGED <<values, gaps>>

LeaveOutScope ==
  /\ Merge
  /\ audit
  /\ accounts[subscription].unreadable
  /\ Emit(subscription, Block({}, leaveOut("unreadable", Fields)))

WriteScope ==
  /\ Merge
  /\ audit
  /\ ~accounts[subscription].unreadable
  /\ Emit(subscription, accessSections(subscriptionPopulation(accounts[subscription])))

WriteTotals ==
  /\ posture = "pending"
  /\ Len(accounts) > 0
  /\ subscription > Len(accounts)
  /\ Emit(0, accessSections(total))
  /\ posture' = "written"
  /\ UNCHANGED <<accounts, dir, level, subscription, total>>

NoSubscriptions ==
  /\ posture = "pending"
  /\ Len(accounts) = 0
  /\ posture' = "nil"
  /\ UNCHANGED <<accounts, dir, level, subscription, total, values, gaps>>

AccessNext == MergeOnly \/ LeaveOutScope \/ WriteScope \/ WriteTotals \/ NoSubscriptions

AccessSpec == AccessInit /\ [][AccessNext]_accessVars /\ WF_accessVars(AccessNext)

-----------------------------------------------------------------------------
(* Place 0 is that of the totals; the others are the subscriptions'.       *)
ArtifactPlaces == 0..Len(accounts)

(* What a place is about, taken from the answers themselves and not from   *)
(* the populations: the subscriptions of its scope.                        *)
Scope(place) == IF place = 0 THEN 1..Len(accounts) ELSE {place}
Unread(scope) == \E i \in scope : accounts[i].unreadable \/ accounts[i].rbacMiss
Seen(scope) ==
  UNION {accounts[i].roleAssignments :
           i \in {j \in scope : ~accounts[j].unreadable /\ ~accounts[j].rbacMiss}}
Unsorted(scope) == {a \in Seen(scope) :
                      a.type = "Group"
                        \/ (a.type = "Other" /\ a.principal # NoPrincipal)}
SeenHolders(scope, type, roles) ==
  {a.principal : a \in {b \in Seen(scope) :
                          b.type = type /\ b.role \in roles}} \ {NoPrincipal}

(* Who may hold a role of these in the scope: those seen, and anyone more  *)
(* when an assignment was unread or its holders are not known.             *)
MayHold(scope, type, roles, everyone) ==
  LET seen   == SeenHolders(scope, type, roles)
      hidden == Unread(scope) \/ \E a \in Unsorted(scope) : a.role \in roles
  IN {seen \cup more : more \in IF hidden THEN SUBSET everyone ELSE {{}}}

(* Everything the values of a scope are taken over, as it may really be.   *)
MayMember(scope) ==
  {ids \cap (dir.users \ dir.disabled) :
     ids \in MayHold(scope, "User", Roles, Users)}
MayAdmin(scope) ==
  {ids \cap (dir.users \ dir.disabled) :
     ids \in MayHold(scope, "User", {"admin"}, Users)}
MayCredential(scope) ==
  MayHold(scope, "ServicePrincipal", Roles, ServicePrincipals)
MayWrite(scope) ==
  MayHold(scope, "ServicePrincipal", Roles \ {"reader"}, ServicePrincipals)

Has(v, part, whole) ==
  /\ v.at \in Counts => v.num = Cardinality(part)
  /\ v.at \in Presences => v.num = IF part = {} THEN 0 ELSE 1
  /\ v.at \in Shares => /\ v.of = Cardinality(whole)
                        /\ v.num = IF whole = {} THEN 0 ELSE Cardinality(part)

TrueOfMembers(v, members) ==
  /\ v.at \in {"members_present", "member_count", "sso_member_count", "sso_coverage_pct"} =>
       Has(v, members, members)
  /\ v.at \in {"external_members_present", "external_member_count"} =>
       Has(v, members \cap dir.guests, members)
  /\ v.at \in {"inactive_member_count", "inactive_pct"} =>
       Has(v, members \ dir.signedIn, members)

(* Whether service principals are restricted or in use is never read, so   *)
(* any of those that could be may be.                                      *)
TrueOfCredentials(v, ids, writers) ==
  /\ v.at \in {"credentials_present", "credential_count"} => Has(v, ids, ids)
  /\ v.at \in {"never_expiring_credential_count", "never_expiring_pct"} =>
       Has(v, ids \cap dir.neverExpiring, ids)
  /\ v.at \in {"rotation_overdue_credential_count", "rotation_overdue_pct"} =>
       Has(v, ids \cap dir.overdue, ids)
  /\ v.at \in {"write_access_credential_count", "write_access_pct"} =>
       Has(v, writers \ dir.disabledApps, ids)
  /\ v.at \in {"unrestricted_credential_count", "unrestricted_pct"} =>
       \A unrestricted \in SUBSET writers : Has(v, unrestricted, ids)
  /\ v.at \in {"unused_credential_count", "unused_pct"} =>
       \A unused \in SUBSET ids : Has(v, unused, ids)

IsTrue(v, scope) ==
  /\ v.at \in MemberFields =>
       \A members \in MayMember(scope) : TrueOfMembers(v, members)
  /\ v.at \in AdminFields =>
       \A admins \in MayAdmin(scope), members \in MayMember(scope) :
          admins \subseteq members => Has(v, admins, members)
  /\ v.at \in CredentialFields =>
       \A ids \in MayCredential(scope), writers \in MayWrite(scope) :
          writers \subseteq ids => TrueOfCredentials(v, ids, writers)

(* A written value is true of its subscription, or of all of them,         *)
(* whoever holds the roles the collector could not see: in subscriptions   *)
(* it could not read, through groups and other principals, and whatever    *)
(* the lists it could not read hold (collector.accessSections).            *)
WrittenValuesAreTrue == \A v \in values : IsTrue(v, Scope(v.place))

ValuesOf(place, field) == {v \in values : v.place = place /\ v.at = field}
GapsOf(place, field) == {g \in gaps : g.place = place /\ g.at = field}

(* At every place already written, a field has one value or one gap, never *)
(* both and never neither.  Below the audit level a count has neither, and *)
(* a subscription has no place (accessGaps.leaveOut and count).            *)
ValueOrGap ==
  \A place \in ArtifactPlaces, field \in Fields :
    LET written == Cardinality(ValuesOf(place, field))
                     + Cardinality(GapsOf(place, field))
        done == IF place = 0 THEN posture = "written" ELSE audit /\ place < subscription
    IN written = IF done /\ (audit \/ field \notin Counts) THEN 1 ELSE 0

(* The number written for a count or a flag, at most one.                  *)
Numbers(place, field) == {v.num : v \in ValuesOf(place, field)}

(* What the scopes count in a field, one by one, each up to the number n.  *)
CountedOne(field, n) ==
  {c \in Scope(0) \X (1 .. n) : \E m \in Numbers(c[1], field) : c[2] <= m}

(* The totals are those of the scopes.  A flag is true when some scope's   *)
(* is and false when every scope's is.  Any other value is left out when   *)
(* some scope leaves it out, and only then.  A count written is at least   *)
(* each scope's and at most their sum, as a principal with roles in        *)
(* several subscriptions counts once (accessPopulation.merge).             *)
TotalsFollowScopes ==
  posture = "written" /\ audit =>
    /\ \A field \in Presences :
         /\ Numbers(0, field) = {1} <=>
              \E i \in Scope(0) : Numbers(i, field) = {1}
         /\ Numbers(0, field) = {0} <=>
              \A i \in Scope(0) : Numbers(i, field) = {0}
    /\ \A field \in Fields \ Presences :
         GapsOf(0, field) # {} <=> \E i \in Scope(0) : GapsOf(i, field) # {}
    /\ \A field \in Counts : \A n \in Numbers(0, field) :
         /\ \A i \in Scope(0) : \A m \in Numbers(i, field) : m <= n
         /\ n <= Cardinality(CountedOne(field, n))
=============================================================================
