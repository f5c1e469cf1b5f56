----------------------------- MODULE Privileged -----------------------------
(***************************************************************************)
(* The privileged access block: the role assignments folded one by one     *)
(* into the users who hold a privileged role, and the values written from  *)
(* them when a role may also be held through a group nobody reads.         *)
(***************************************************************************)
EXTENDS Integers, FiniteSets, Sequences

CONSTANTS
  RoleUsers,         \* the users the tenant lists
  RoleGroups,        \* groups a role may be assigned to
  Others,            \* principals that are neither: apps, and users not listed
  HolderDirectories, \* what the tenant may hold of each user, of HolderFacts
  MaxAssignments,    \* bound: the role assignments of the tenant
  MaxSchedules       \* bound: its eligibility schedules for a privileged role

Roles == {"global_admin", "other_privileged", "unprivileged"}
Principals == RoleUsers \cup RoleGroups \cup Others
Assignments == [role : Roles, principal : Principals]

(* A user as the three lists have it: the user list, the registration      *)
(* report, which may not list it, and the list with sign-in activity,      *)
(* where the window has a sign-in or not.                                  *)
HolderFacts ==
  [disabled : BOOLEAN, guest : BOOLEAN, listed : BOOLEAN, mfa : BOOLEAN,
   phishingResistant : BOOLEAN, signedIn : BOOLEAN]

ASSUME HolderDirectoriesAssumption == HolderDirectories \subseteq [RoleUsers -> HolderFacts]
ASSUME PrincipalsAssumption ==
  /\ RoleUsers \cap RoleGroups = {} /\ RoleUsers \cap Others = {}
  /\ RoleGroups \cap Others = {}
ASSUME RoleUsersAssumption == IsFiniteSet(RoleUsers)
ASSUME PrivilegedBoundsAssumption == MaxAssignments \in Nat /\ MaxSchedules \in Nat

VARIABLES
  holderFacts,  \* the tenant's users
  assigned,     \* the role assignments seen so far
  privileged,   \* privilegedUserIDs
  superAdmins,  \* superAdminIDs
  standing,     \* privilegedAssignmentCount
  groupHeld,
  groupHeldGlobalAdmin,
  step,
  failedReads,  \* the reads that failed
  pa            \* the block: what each field is, or why it is not there

privilegedVars == <<holderFacts, assigned, privileged, superAdmins, standing, groupHeld,
          groupHeldGlobalAdmin, step, failedReads, pa>>

Reads == {"lists", "registrations", "sign_in_activity", "schedules"}
MemberFields ==
  {"privileged_users_count", "privileged_guest_count",
   "privileged_mfa_coverage_pct", "privileged_phishing_resistant_pct",
   "inactive_privileged_users_count"}
AdminFields == {"super_admin_count", "globalAdminsMFA"}
PIMFields == {"pim_eligible_pct", "standing_assignment_count"}
Fields == MemberFields \cup AdminFields \cup PIMFields

(* A field is written with a value, null over nobody, or left out for a    *)
(* read that failed or for the members of a group.                         *)
Written(x) == [state |-> "written", value |-> x]
NoneThere == [state |-> "null", value |-> 0]
HolderLeftOut(why) == [state |-> why, value |-> 0]
Pending == HolderLeftOut("pending")

(* Rounded half up, which is how math.Round rounds what is not negative.   *)
PercentInt(n, of) ==
  IF of <= 0 THEN NoneThere
  ELSE LET p == (200 * n + of) \div (2 * of) IN Written(IF p > 100 THEN 100 ELSE p)

(* Mutant: the report's failure is not looked at.                          *)
secondMissing(a, b) == b

(* The first reason given, where "" is none.                               *)
firstMissing(a, b) == IF a # "" THEN a ELSE b

missing(read, failures) == IF read \in failures THEN "read_failed" ELSE ""

membersUnread == IF groupHeld THEN "members" ELSE ""
globalAdminsUnread == IF groupHeldGlobalAdmin THEN membersUnread ELSE ""

PrivilegedInit ==
  /\ holderFacts \in HolderDirectories
  /\ assigned = <<>>
  /\ privileged = {} /\ superAdmins = {} /\ standing = 0
  /\ groupHeld = FALSE /\ groupHeldGlobalAdmin = FALSE
  /\ step = "assignments"
  /\ failedReads = {}
  /\ pa = [f \in Fields |-> Pending]

(* The user list or the assignments could not be read: no block at all.    *)
ListsFailed ==
  /\ step = "assignments" /\ assigned = <<>>
  /\ failedReads' = {"lists"}
  /\ pa' = [f \in Fields |-> HolderLeftOut("read_failed")]
  /\ step' = "done"
  /\ UNCHANGED <<holderFacts, assigned, privileged, superAdmins, standing,
                 groupHeld, groupHeldGlobalAdmin>>

(* A listed user's assignment counts, and makes the user privileged        *)
(* unless the account is disabled.                                         *)
AssignUser(a) ==
  /\ a.principal \in RoleUsers
  /\ standing' = standing + 1
  /\ IF holderFacts[a.principal].disabled
     THEN UNCHANGED <<privileged, superAdmins>>
     ELSE /\ privileged' = privileged \cup {a.principal}
          /\ superAdmins' = superAdmins \cup
               {u \in {a.principal} : a.role = "global_admin"}
  /\ UNCHANGED <<groupHeld, groupHeldGlobalAdmin>>

(* Mutant: only the last group's role tells whether admins are hidden.     *)
AssignLastGroup(a) ==
  /\ a.principal \in RoleGroups
  /\ groupHeld' = TRUE
  /\ groupHeldGlobalAdmin' = (a.role = "global_admin")
  /\ UNCHANGED <<standing, privileged, superAdmins>>

AssignGroup(a) ==
  /\ a.principal \in RoleGroups
  /\ groupHeld' = TRUE
  /\ groupHeldGlobalAdmin' = (groupHeldGlobalAdmin \/ a.role = "global_admin")
  /\ UNCHANGED <<standing, privileged, superAdmins>>

(* One iteration over the assignments.  The same role may be assigned      *)
(* twice to one principal, at two scopes.                                  *)
Assignment ==
  /\ step = "assignments" /\ Len(assigned) < MaxAssignments
  /\ \E a \in Assignments :
       /\ assigned' = Append(assigned, a)
       /\ IF a.role = "unprivileged" \/ a.principal \in Others
          THEN UNCHANGED <<standing, privileged, superAdmins, groupHeld,
                           groupHeldGlobalAdmin>>
          ELSE AssignUser(a) \/ AssignGroup(a)
  /\ UNCHANGED <<holderFacts, step, failedReads, pa>>

(* Those of us with a row in the report that has the property.             *)
mfaRegistered(us) == {u \in us : holderFacts[u].listed /\ holderFacts[u].mfa}
phishingResistant(us) == {u \in us : holderFacts[u].listed /\ holderFacts[u].phishingResistant}
privilegedGuests(us) == {u \in us : holderFacts[u].guest}
inactiveHolders(us) == {u \in us : ~holderFacts[u].signedIn}

(* What the code computes over the users that hold a role directly.        *)
MemberValue(f) ==
  LET n == Cardinality(privileged) IN
  IF f = "privileged_users_count" THEN Written(n)
  ELSE IF f = "privileged_guest_count"
  THEN Written(Cardinality(privilegedGuests(privileged)))
  ELSE IF f = "privileged_mfa_coverage_pct"
  THEN PercentInt(Cardinality(mfaRegistered(privileged)), n)
  ELSE IF f = "privileged_phishing_resistant_pct"
  THEN PercentInt(Cardinality(phishingResistant(privileged)), n)
  ELSE IF privileged = {} THEN NoneThere
  ELSE Written(Cardinality(inactiveHolders(privileged)))

(* True when there are none.                                               *)
globalAdminsMFARegistered ==
  IF mfaRegistered(superAdmins) = superAdmins THEN Written(1) ELSE Written(0)

AdminValue(f) ==
  IF f = "super_admin_count" THEN Written(Cardinality(superAdmins))
  ELSE globalAdminsMFARegistered

readOf ==
  [f \in MemberFields \cup AdminFields |->
     IF f \in {"privileged_mfa_coverage_pct", "globalAdminsMFA",
               "privileged_phishing_resistant_pct"} THEN "registrations"
     ELSE IF f = "inactive_privileged_users_count" THEN "sign_in_activity"
     ELSE "lists"]

settled(why, value) == IF why = "" THEN value ELSE HolderLeftOut(why)

(* The values over privileged users and Global Administrators.             *)
Values ==
  /\ step = "assignments"
  /\ failedReads' \in SUBSET {"registrations", "sign_in_activity"}
  /\ pa' = [f \in Fields |->
       IF f \in MemberFields
       THEN settled(firstMissing(missing(readOf[f], failedReads'), membersUnread), MemberValue(f))
       ELSE IF f \in AdminFields
       THEN settled(firstMissing(missing(readOf[f], failedReads'), globalAdminsUnread), AdminValue(f))
       ELSE pa[f]]
  /\ step' = "schedules"
  /\ UNCHANGED <<holderFacts, assigned, privileged, superAdmins, standing,
                 groupHeld, groupHeldGlobalAdmin>>

(* The eligibility schedules, those for a privileged role counted whoever  *)
(* they are for.                                                           *)
Schedules ==
  /\ step = "schedules"
  /\ \/ /\ failedReads' = failedReads \cup {"schedules"}
        /\ pa' = [f \in Fields |->
                    IF f \in PIMFields THEN HolderLeftOut("read_failed") ELSE pa[f]]
     \/ /\ failedReads' = failedReads
        /\ \E eligible \in 0 .. MaxSchedules :
             pa' = [pa EXCEPT !["pim_eligible_pct"] = PercentInt(eligible, eligible + standing),
                              !["standing_assignment_count"] = Written(standing)]
  /\ step' = "done"
  /\ UNCHANGED <<holderFacts, assigned, privileged, superAdmins, standing,
                 groupHeld, groupHeldGlobalAdmin>>

PrivilegedNext == ListsFailed \/ Assignment \/ Values \/ Schedules
PrivilegedSpec == PrivilegedInit /\ [][PrivilegedNext]_privilegedVars
-----------------------------------------------------------------------------
Seen == {assigned[i] : i \in 1 .. Len(assigned)}
PrivilegedRoles == Roles \ {"unprivileged"}
ToUsers ==
  {i \in 1 .. Len(assigned) :
     assigned[i].role \in PrivilegedRoles /\ assigned[i].principal \in RoleUsers}

(* Who really holds one of roles, if the groups have these members.        *)
Holders(roles, members) ==
  {u \in RoleUsers :
     /\ ~holderFacts[u].disabled
     /\ \E a \in {b \in Seen : b.role \in roles} :
          \/ a.principal = u
          \/ a.principal \in RoleGroups /\ u \in members[a.principal]}
Memberships == [RoleGroups -> SUBSET RoleUsers]

PrivilegedTypeOK ==
  /\ holderFacts \in HolderDirectories
  /\ assigned \in Seq(Assignments)
  /\ privileged \in SUBSET RoleUsers /\ superAdmins \in SUBSET RoleUsers
  /\ standing \in 0 .. Len(assigned)
  /\ groupHeld \in BOOLEAN /\ groupHeldGlobalAdmin \in BOOLEAN
  /\ step \in {"assignments", "schedules", "done"}
  /\ failedReads \in SUBSET Reads
  /\ DOMAIN pa = Fields

(* While no group holds the role, its holders do not depend on who is in   *)
(* which group, and are those the loop found; while one does, they may be  *)
(* anybody else as well (collectPrivilegedAccess).                         *)
HoldersAreKnown ==
  \A members \in Memberships :
    /\ privileged \subseteq Holders(PrivilegedRoles, members)
    /\ ~groupHeld => privileged = Holders(PrivilegedRoles, members)
    /\ superAdmins \subseteq Holders({"global_admin"}, members)
    /\ ~groupHeldGlobalAdmin => superAdmins = Holders({"global_admin"}, members)

(* What a written value over holders must be, taken from the tenant.       *)
Share(part, whole) ==
  IF whole = {} THEN NoneThere
  ELSE PercentInt(Cardinality(part), Cardinality(whole))
TrueValue(f, us, admins) ==
  IF f = "super_admin_count" THEN Written(Cardinality(admins))
  ELSE IF f = "globalAdminsMFA"
  THEN Written(IF \A u \in admins : holderFacts[u].listed /\ holderFacts[u].mfa THEN 1 ELSE 0)
  ELSE IF f = "privileged_users_count" THEN Written(Cardinality(us))
  ELSE IF f = "privileged_guest_count"
  THEN Written(Cardinality({u \in us : holderFacts[u].guest}))
  ELSE IF f = "privileged_mfa_coverage_pct"
  THEN Share({u \in us : holderFacts[u].listed /\ holderFacts[u].mfa}, us)
  ELSE IF f = "privileged_phishing_resistant_pct"
  THEN Share({u \in us : holderFacts[u].listed /\ holderFacts[u].phishingResistant}, us)
  ELSE IF us = {} THEN NoneThere
  ELSE Written(Cardinality({u \in us : ~holderFacts[u].signedIn}))

(* Every value written over the holders of a role is the true one,         *)
(* whoever the members of the groups are: a value that a hidden member     *)
(* could change is not written (collectPrivilegedAccess).                  *)
ValuesHoldForEveryMembership ==
  \A f \in MemberFields \cup AdminFields :
    pa[f].state \in {"written", "null"} =>
      \A members \in Memberships :
        pa[f] = TrueValue(f, Holders(PrivilegedRoles, members),
                             Holders({"global_admin"}, members))

(* A value is left out for the cause it names: for members when a group    *)
(* holds one of the roles the value is about, so that a group that holds   *)
(* another leaves the Global Administrator values there, and for a read    *)
(* when that read failed, even if there are such members                   *)
(* (collectPrivilegedAccess, firstMissing).                                *)
LeftOutForItsCause ==
  pa # [f \in Fields |-> Pending] =>
    \A f \in MemberFields \cup AdminFields :
      LET roles == IF f \in AdminFields THEN {"global_admin"} ELSE PrivilegedRoles
      IN  /\ pa[f].state = "read_failed" <=>
               "lists" \in failedReads \/ readOf[f] \in failedReads
          /\ pa[f].state = "members" <=>
               /\ pa[f].state # "read_failed"
               /\ \E a \in Seen : a.role \in roles /\ a.principal \in RoleGroups

(* The PIM values count the assignments of a privileged role to listed     *)
(* users, of disabled ones too and each as often as it was made, also when *)
(* a group hides who else is privileged (docs/overview.md).                *)
StandingCountsAssignments ==
  step = "done" =>
    LET n == Cardinality(ToUsers)
    IN  IF failedReads \cap {"lists", "schedules"} # {}
        THEN \A f \in PIMFields : pa[f].state = "read_failed"
        ELSE /\ pa["standing_assignment_count"] = Written(n)
             /\ \E eligible \in 0 .. MaxSchedules :
                  pa["pim_eligible_pct"] = PercentInt(eligible, eligible + n)
=============================================================================
