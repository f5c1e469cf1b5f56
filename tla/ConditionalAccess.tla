-------------------------- MODULE ConditionalAccess --------------------------
(***************************************************************************)
(* What the Conditional Access policies of a tenant say about MFA: the     *)
(* flags computePolicy sets and the members mfaPolicyCoveredCount counts,  *)
(* one policy at a time, when the policies and the user list were read.    *)
(* The policies are judged on their text alone: who is in a group or holds *)
(* a role is not read.                                                     *)
(*                                                                         *)
(* The reference at the end says what a policy demands of a sign-in, which *)
(* the code never computes.                                                *)
(***************************************************************************)
EXTENDS Naturals, FiniteSets, Sequences, SequencesExt

CONSTANTS
  Members,    \* the enabled member users
  Strangers,  \* other IDs a policy may name, such as guests and disabled users
  Groups,     \* groups
  DirRoles,   \* directory roles
  OtherApps,  \* resources other than the admin portals
  Tenants,    \* the policies a tenant may have, each a sequence
  Defaults    \* what was read of the security defaults: "on", "off", "unread"

Everyone == "All"
AdminPortals == "MicrosoftAdminPortals"
Apps == OtherApps \cup {AdminPortals}
Circles == Groups \cup DirRoles
ClientTypes == {"browser", "mobileAppsAndDesktopClients",
                "exchangeActiveSync", "other"}
NamedPlaces == {"office"}   \* named locations, and platforms likewise
Places == NamedPlaces \cup {"elsewhere"}

(* A strength is one with, and one without, MFA among what it satisfies.   *)
(* Custom controls and terms of use are neither.                           *)
Controls == {"mfa", "strength", "weak_strength", "compliantDevice",
             "domainJoinedDevice", "block", "custom"}
MFAControls == {"mfa", "strength"}
DeviceControls == {"compliantDevice", "domainJoinedDevice"}

Lists == [include : SUBSET (NamedPlaces \cup {Everyone}),
          exclude : SUBSET NamedPlaces]
ConditionNames == {"risk", "device", "flow"}

Policies ==
  [enabled : BOOLEAN,
   includeUsers : SUBSET (Members \cup Strangers \cup {Everyone}),
   excludeUsers : SUBSET (Members \cup Strangers),
   includeGroups : SUBSET Groups, includeRoles : SUBSET DirRoles,
   excludeCircles : SUBSET Circles,
   includeApps : SUBSET (Apps \cup {Everyone}), excludeApps : SUBSET Apps,
   appFilter : BOOLEAN,           \* an application filter is set
   userAction : BOOLEAN,          \* it is for a user action
   clients : SUBSET (ClientTypes \cup {Everyone}),
   conditions : SUBSET ConditionNames,
   locations : Lists, platforms : Lists,
   operator : {"AND", "OR"}, controls : SUBSET Controls]

ASSUME MembersAssumption == IsFiniteSet(Members) /\ Everyone \notin Members
ASSUME AppsAssumption == AdminPortals \notin OtherApps
ASSUME TenantsAssumption == Tenants \subseteq Seq(Policies)
ASSUME DefaultsAssumption == Defaults \subseteq {"on", "off", "unread"}

VARIABLES
  policies,      \* the policies read
  defaults,      \* the security defaults
  phase,         \* "flags", "coverage" or "done"
  next,          \* the enabled policy the loop turns to
  flags,         \* the flags set
  covered,       \* the members counted
  groupsOrRoles, \* a policy's users are not known
  coverage       \* none, a set of one count, or the gap "groups" or "defaults"

caVars == <<policies, defaults, phase, next, flags, covered, groupsOrRoles,
            coverage>>

NoCoverage == [count |-> {}, gap |-> "none"]
Counted(n) == [count |-> {n}, gap |-> "none"]
LeftOut(why) == [count |-> {}, gap |-> why]

(* The policies that are not switched off or report-only, by index.         *)
enabledPolicies == {i \in DOMAIN policies : policies[i].enabled}

-----------------------------------------------------------------------------
(* With AND one wanted control is enough, with OR all must be wanted.      *)
grantRequires(p, wanted) ==
  /\ p.controls # {}
  /\ IF p.operator = "OR" THEN p.controls \subseteq wanted
     ELSE p.controls \cap wanted # {}

requiresMFA(p) == grantRequires(p, MFAControls)
requiresCompliantDevice(p) == grantRequires(p, DeviceControls)

targetsAllUsers(p) == Everyone \in p.includeUsers
targetsAllCloudApps(p) ==
  /\ Everyone \in p.includeApps
  /\ Everyone \notin p.excludeApps
targetsAdminPortals(p) ==
  /\ AdminPortals \notin p.excludeApps
  /\ p.includeApps \cap {AdminPortals, Everyone} # {}
targetsAdminOrPrivilegedAccess(p) ==
  targetsAdminPortals(p) \/ targetsAllUsers(p) \/ p.includeRoles # {}

(* Both lists empty is a condition that is not set.                        *)
narrows(list) ==
  list.exclude # {} \/ (list.include # {} /\ Everyone \notin list.include)

appliesToEverySignIn(p) ==
  /\ p.conditions = {}
  /\ ~narrows(p.locations)
  /\ ~narrows(p.platforms)
  /\ ~p.userAction

(* Mutant: one of the two legacy client types is enough.                   *)
blocksSomeLegacyAuth(p) ==
  /\ grantRequires(p, {"block"})
  /\ targetsAllUsers(p) /\ targetsAllCloudApps(p) /\ appliesToEverySignIn(p)
  /\ p.excludeApps = {} /\ ~p.appFilter
  /\ p.clients \cap {Everyone, "exchangeActiveSync", "other"} # {}

blocksLegacyAuth(p) ==
  /\ grantRequires(p, {"block"})
  /\ targetsAllUsers(p) /\ targetsAllCloudApps(p) /\ appliesToEverySignIn(p)
  /\ p.excludeApps = {} /\ ~p.appFilter
  /\ Everyone \in p.clients \/ {"exchangeActiveSync", "other"} \subseteq p.clients

(* The flags a policy sets.                                                *)
FlagsOf(p) ==
  LET everySignIn == requiresMFA(p) /\ appliesToEverySignIn(p)
      flag(name, holds) == IF holds THEN {name} ELSE {}
  IN flag("mfa_required", everySignIn /\ targetsAllUsers(p))
       \cup flag("admin_portals_mfa_required", everySignIn /\ targetsAdminPortals(p))
       \cup flag("all_cloud_apps_mfa_required", everySignIn /\ targetsAllCloudApps(p))
       \cup flag("compliant_device_required",
                 requiresCompliantDevice(p) /\ targetsAdminOrPrivilegedAccess(p))
       \cup flag("legacy_auth_blocked", blocksLegacyAuth(p))

(* Mutant: a policy for All counts only those it names as well.            *)
PolicyCoveredByName(p) == p.includeUsers \cap Members

(* The members a policy is known to cover.  Excluded users are taken out   *)
(* of All only.                                                            *)
PolicyCovered(p) ==
  IF targetsAllUsers(p) THEN Members \ p.excludeUsers
  ELSE p.includeUsers \cap Members

Init ==
  /\ policies \in Tenants
  /\ defaults \in Defaults
  /\ phase = "flags"
  /\ next = 1
  /\ flags = {}
  /\ covered = {}
  /\ groupsOrRoles = FALSE
  /\ coverage = NoCoverage

(* The loops are over the enabled policies: the others are stepped over.    *)
Turn(loop) == phase = loop /\ next \in enabledPolicies /\ next' = next + 1

StepOver ==
  /\ phase \in {"flags", "coverage"}
  /\ next \in DOMAIN policies \ enabledPolicies
  /\ next' = next + 1
  /\ UNCHANGED <<policies, defaults, phase, flags, covered, groupsOrRoles, coverage>>

computePolicy ==
  /\ Turn("flags")
  /\ flags' = flags \cup FlagsOf(policies[next])
  /\ UNCHANGED <<policies, defaults, phase, covered, groupsOrRoles, coverage>>

(* With no enabled policy the security defaults are the MFA policy.        *)
CoverByDefaults ==
  /\ phase = "flags"
  /\ enabledPolicies = {}
  /\ coverage' = CASE defaults = "on"  -> Counted(Cardinality(Members))
                   [] defaults = "off" -> Counted(0)
                   [] OTHER            -> LeftOut("defaults")
  /\ phase' = "done"
  /\ UNCHANGED <<policies, defaults, next, flags, covered, groupsOrRoles>>

StartCoverage ==
  /\ phase = "flags"
  /\ enabledPolicies # {}
  /\ next > Len(policies)
  /\ phase' = "coverage"
  /\ next' = 1
  /\ UNCHANGED <<policies, defaults, flags, covered, groupsOrRoles, coverage>>

MFAPolicy(p) == requiresMFA(p) /\ appliesToEverySignIn(p)

(* A policy that does not require MFA on every sign-in covers no one.      *)
PassOver ==
  /\ Turn("coverage")
  /\ ~MFAPolicy(policies[next])
  /\ UNCHANGED <<policies, defaults, phase, flags, covered, groupsOrRoles, coverage>>

(* One that excludes a group or a role covers no one for certain.          *)
LeaveOutExcluded ==
  /\ Turn("coverage")
  /\ LET p == policies[next] IN MFAPolicy(p) /\ p.excludeCircles # {}
  /\ groupsOrRoles' = TRUE
  /\ UNCHANGED <<policies, defaults, phase, flags, covered, coverage>>

Cover ==
  /\ Turn("coverage")
  /\ LET p == policies[next]
     IN /\ MFAPolicy(p) /\ p.excludeCircles = {}
        /\ covered' = covered \cup PolicyCovered(p)
        /\ groupsOrRoles' =
             (groupsOrRoles \/ (~targetsAllUsers(p)
                                  /\ p.includeGroups \cup p.includeRoles # {}))
  /\ UNCHANGED <<policies, defaults, phase, flags, coverage>>

(* Mutant: the count stands however the groups and roles are filled.       *)
CountWhateverGroups == Counted(Cardinality(covered))

CoverageOf ==
  IF groupsOrRoles /\ Cardinality(covered) < Cardinality(Members)
  THEN LeftOut("groups") ELSE Counted(Cardinality(covered))

Conclude ==
  /\ phase = "coverage"
  /\ next > Len(policies)
  /\ coverage' = CoverageOf
  /\ phase' = "done"
  /\ UNCHANGED <<policies, defaults, next, flags, covered, groupsOrRoles>>

Next == StepOver \/ computePolicy \/ CoverByDefaults \/ StartCoverage \/ PassOver
          \/ LeaveOutExcluded \/ Cover \/ Conclude

Spec == Init /\ [][Next]_caVars /\ WF_caVars(Next)

-----------------------------------------------------------------------------
(* What a policy demands of a sign-in, from Entra's definitions and not    *)
(* from the code.  membership says who is in each group and role.          *)
Memberships == [Circles -> SUBSET Members]

SignIns == [user : Members, app : Apps, client : ClientTypes,
            location : Places, platform : Places,
            meets : SUBSET ConditionNames]

InCircles(user, circles, membership) == \E c \in circles : user \in membership[c]

ForUser(p, user, membership) ==
  /\ \/ Everyone \in p.includeUsers
     \/ user \in p.includeUsers
     \/ InCircles(user, p.includeGroups \cup p.includeRoles, membership)
  /\ user \notin p.excludeUsers
  /\ ~InCircles(user, p.excludeCircles, membership)

Holds(list, at) ==
  /\ list.include = {} \/ list.include \cap {at, Everyone} # {}
  /\ at \notin list.exclude

(* An application filter is taken to leave out every app it can: all but   *)
(* the admin portals.                                                      *)
LeftOutApps(p) == p.excludeApps \cup IF p.appFilter THEN OtherApps ELSE {}

ForApp(p, app) == /\ ~p.userAction
                  /\ p.includeApps \cap {app, Everyone} # {}
                  /\ app \notin LeftOutApps(p)

ForClient(p, client) == p.clients = {} \/ p.clients \cap {client, Everyone} # {}

Applies(p, s, membership) ==
  /\ p.enabled
  /\ ForUser(p, s.user, membership)
  /\ ForApp(p, s.app)
  /\ ForClient(p, s.client)
  /\ Holds(p.locations, s.location) /\ Holds(p.platforms, s.platform)
  /\ p.conditions \subseteq s.meets

(* The sets of controls that pass the policy.                              *)
Ways(p) == IF p.operator = "OR" THEN {{c} : c \in p.controls} ELSE {p.controls}
Demands(p, wanted) == p.controls # {} /\ \A way \in Ways(p) : way \cap wanted # {}

(* A policy demands MFA of every sign-in of a user that it could be about: *)
(* to the apps it targets, by the clients it names.                        *)
DemandsMFAOf(p, user, membership) ==
  /\ Demands(p, MFAControls)
  /\ \E app \in Apps : ForApp(p, app)
  /\ \A s \in {t \in SignIns : t.user = user /\ ForApp(p, t.app)
                                 /\ ForClient(p, t.client)} :
       Applies(p, s, membership)

(* A coverage that is counted is the number of members some policy         *)
(* requires MFA of on every sign-in, whoever is in the groups and roles    *)
(* the policies name (mfaPolicyCoveredCount).                              *)
CoverageIsRight ==
  phase = "done" /\ enabledPolicies # {} =>
    \A n \in coverage.count, membership \in Memberships :
      n = Cardinality({u \in Members : \E i \in 1..Len(policies) :
                         DemandsMFAOf(policies[i], u, membership)})

NotExcluded(p) == {s \in SignIns : s.user \notin p.excludeUsers}

InNoCircle == [c \in Circles |-> {}]

MFATo(p, apps) ==
  /\ Demands(p, MFAControls)
  /\ \A s \in NotExcluded(p) :
       s.app \in apps /\ ForClient(p, s.client) /\ ForUser(p, s.user, InNoCircle)
         => Applies(p, s, InNoCircle)

(* What each flag says of the policy it was set for.  The device flag has  *)
(* no sign-in it must hold for.                                            *)
FlagHolds(flag, p) ==
  /\ flag = "mfa_required" =>
       /\ MFATo(p, {a \in Apps : ForApp(p, a)})
       /\ \A u \in Members \ p.excludeUsers : ForUser(p, u, InNoCircle)
  /\ flag = "admin_portals_mfa_required" => MFATo(p, {AdminPortals})
  /\ flag = "all_cloud_apps_mfa_required" => MFATo(p, Apps \ LeftOutApps(p))
  /\ flag = "legacy_auth_blocked" =>
       \A s \in NotExcluded(p) :
         s.client \in {"exchangeActiveSync", "other"} =>
           Applies(p, s, InNoCircle) /\ Demands(p, {"block"})

(* A flag that is set is the work of one policy, for everyone it does not  *)
(* exclude: it requires MFA of every sign-in to the apps the flag is about *)
(* by the clients the policy names, or blocks every legacy sign-in         *)
(* (computePolicy).                                                        *)
FlagsHoldOfSignIns ==
  \A flag \in flags : \E i \in 1..Len(policies) : FlagHolds(flag, policies[i])

(* The two values a reader compares agree: when mfa_required is set and    *)
(* the coverage is counted, only members that some policy excludes are     *)
(* left uncovered, and without such a set no policy covers All.            *)
FlagAndCoverageAgree ==
  phase = "done" /\ coverage.count # {} /\ "mfa_required" \in flags =>
    \E i \in 1..Len(policies) :
      /\ "mfa_required" \in FlagsOf(policies[i])
      /\ policies[i].excludeCircles = {} =>
           \A n \in coverage.count :
             n >= Cardinality(Members \ policies[i].excludeUsers)

(* What the schema says of mfa_required, "requires MFA for all users on    *)
(* every sign-in": also of the clients a policy does not name, for the     *)
(* users it does not exclude and the apps it targets.                      *)
EverySignInRequiresMFA ==
  "mfa_required" \in flags =>
    \E i \in 1..Len(policies) : LET p == policies[i] IN
      /\ Demands(p, MFAControls)
      /\ \A s \in NotExcluded(p) : ForApp(p, s.app) =>
           Applies(p, s, InNoCircle)
=============================================================================
