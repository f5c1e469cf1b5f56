---------------------------- MODULE AccessProofs -----------------------------
(***************************************************************************)
(* Access: what Conditional Access demands of a sign-in, and who holds the *)
(* roles of the Azure subscriptions.  Both for every tenant, whoever is in *)
(* the groups the collector does not read.                                 *)
(***************************************************************************)
EXTENDS ConditionalAccess, AccessPosture, FiniteSetTheorems, TLAPS

-----------------------------------------------------------------------------
(***************************************************************************)
(* What holds of the flags and the coverage for every tenant: every list   *)
(* of policies, every set of members, groups and roles, and every          *)
(* membership.  The argument has two halves.  One reads the text of a      *)
(* policy against what it demands of a sign-in.  The other follows the     *)
(* loops: what they have gathered is what the policies behind them give.   *)
(***************************************************************************)

(* The policies the coverage counts, and those that hide whom they cover.  *)
RequiresMFA(p) == p.enabled /\ MFAPolicy(p) /\ p.excludeCircles = {}
Hides(p) ==
  /\ p.enabled /\ MFAPolicy(p)
  /\ \/ p.excludeCircles # {}
     \/ ~targetsAllUsers(p) /\ p.includeGroups \cup p.includeRoles # {}

(* What the coverage loop has gathered, from the policies behind it.       *)
Behind == {i \in DOMAIN policies : i < next}
Gathered ==
  /\ \A u : u \in covered <=>
       \E i \in Behind : RequiresMFA(policies[i]) /\ u \in PolicyCovered(policies[i])
  /\ groupsOrRoles <=> \E i \in Behind : Hides(policies[i])

(* Each flag was set by an enabled policy.                                 *)
FlagsAreOfPolicies ==
  \A f \in flags : \E i \in enabledPolicies : f \in FlagsOf(policies[i])

CAInv ==
  /\ policies \in Seq(Policies) /\ next \in Nat \ {0}
  /\ phase \in {"flags", "coverage", "done"}
  /\ FlagsAreOfPolicies
  /\ phase = "flags" => covered = {} /\ ~groupsOrRoles
  /\ phase = "coverage" => Gathered
  /\ phase \in {"flags", "coverage"} => coverage = NoCoverage
  /\ phase = "done" /\ enabledPolicies # {} =>
       Gathered /\ next > Len(policies) /\ coverage = CoverageOf

-----------------------------------------------------------------------------
LEMMA InitGathers == Init => CAInv
<1>1. SUFFICES ASSUME Init PROVE CAInv
  OBVIOUS
<1>2. policies \in Seq(Policies)
  BY <1>1, TenantsAssumption DEF Init
<1>3. QED  BY <1>1, <1>2 DEF Init, CAInv, FlagsAreOfPolicies

(* A step of the coverage loop, by what it adds.                           *)
LEMMA OneMoreBehind ==
  ASSUME CAInv, phase = "coverage", next \in DOMAIN policies,
         UNCHANGED policies, next' = next + 1,
         covered' = covered \cup
           (IF RequiresMFA(policies[next]) THEN PolicyCovered(policies[next]) ELSE {}),
         groupsOrRoles' <=> groupsOrRoles \/ Hides(policies[next])
  PROVE  Gathered'
<1>1. Behind' = Behind \cup {next}
  BY DEF Behind, CAInv
<1>2. Gathered
  BY DEF CAInv
<1>3. ASSUME NEW u
      PROVE  u \in covered' <=> \E i \in Behind' :
               RequiresMFA(policies'[i]) /\ u \in PolicyCovered(policies'[i])
  BY <1>1, <1>2 DEF Gathered
<1>4. groupsOrRoles' <=> \E i \in Behind' : Hides(policies'[i])
  BY <1>1, <1>2 DEF Gathered
<1>5. QED  BY <1>3, <1>4 DEF Gathered, RequiresMFA, Hides, PolicyCovered

LEMMA LoopStepOver ==
  ASSUME CAInv, StepOver
  PROVE  CAInv'
<1>1. next \in DOMAIN policies /\ ~policies[next].enabled
  BY DEF StepOver, enabledPolicies
<1>2. UNCHANGED <<policies, phase, flags, covered, groupsOrRoles, coverage>>
      /\ next' = next + 1
  BY DEF StepOver
<1>3. ~RequiresMFA(policies[next]) /\ ~Hides(policies[next])
  BY <1>1 DEF RequiresMFA, Hides
<1>4. phase = "coverage" => Gathered'
  BY <1>1, <1>2, <1>3, OneMoreBehind
<1>5. FlagsAreOfPolicies'
  BY <1>2 DEF CAInv, FlagsAreOfPolicies, enabledPolicies
<1>6. phase \in {"flags", "coverage"}
  BY DEF StepOver
<1>7. QED  BY <1>2, <1>4, <1>5, <1>6 DEF CAInv, NoCoverage

LEMMA LoopComputePolicy ==
  ASSUME CAInv, computePolicy
  PROVE  CAInv'
<1>1. /\ next \in enabledPolicies /\ phase = "flags" /\ next' = next + 1
      /\ flags' = flags \cup FlagsOf(policies[next])
      /\ UNCHANGED <<policies, phase, covered, groupsOrRoles, coverage>>
  BY DEF computePolicy, Turn
<1>2. FlagsAreOfPolicies'
  BY <1>1 DEF CAInv, FlagsAreOfPolicies, enabledPolicies, FlagsOf
<1>3. QED  BY <1>1, <1>2 DEF CAInv, NoCoverage

LEMMA LoopStart ==
  ASSUME CAInv, StartCoverage
  PROVE  CAInv'
<1>1. /\ phase' = "coverage" /\ next' = 1 /\ phase = "flags"
      /\ UNCHANGED <<policies, flags, covered, groupsOrRoles, coverage>>
  BY DEF StartCoverage
<1>2. Behind' = {}
  BY <1>1 DEF Behind, CAInv
<1>3. Gathered'
  BY <1>1, <1>2 DEF Gathered, CAInv
<1>4. FlagsAreOfPolicies'
  BY <1>1 DEF CAInv, FlagsAreOfPolicies, enabledPolicies
<1>5. QED  BY <1>1, <1>3, <1>4 DEF CAInv, NoCoverage

LEMMA LoopByDefaults ==
  ASSUME CAInv, CoverByDefaults
  PROVE  CAInv'
<1>1. /\ phase' = "done" /\ enabledPolicies = {}
      /\ UNCHANGED <<policies, next, flags, covered, groupsOrRoles>>
  BY DEF CoverByDefaults
<1>2. enabledPolicies' = {} /\ FlagsAreOfPolicies'
  BY <1>1 DEF CAInv, FlagsAreOfPolicies, enabledPolicies
<1>3. QED  BY <1>1, <1>2 DEF CAInv

(* The three ways a turn of the coverage loop can go.                      *)
LEMMA LoopTurn ==
  ASSUME CAInv, PassOver \/ LeaveOutExcluded \/ Cover
  PROVE  CAInv'
<1>1. /\ next \in enabledPolicies /\ phase = "coverage" /\ next' = next + 1
      /\ UNCHANGED <<policies, phase, flags, coverage>>
  BY DEF PassOver, LeaveOutExcluded, Cover, Turn
<1>2. next \in DOMAIN policies /\ policies[next].enabled
  BY <1>1 DEF enabledPolicies
<1>3. /\ covered' = covered \cup
           (IF RequiresMFA(policies[next]) THEN PolicyCovered(policies[next]) ELSE {})
      /\ groupsOrRoles' <=> groupsOrRoles \/ Hides(policies[next])
  <2>1. CASE PassOver
    <3>1. ~MFAPolicy(policies[next]) /\ UNCHANGED <<covered, groupsOrRoles>>
      BY <2>1 DEF PassOver
    <3>2. QED  BY <3>1 DEF RequiresMFA, Hides
  <2>2. CASE LeaveOutExcluded
    <3>1. /\ MFAPolicy(policies[next]) /\ policies[next].excludeCircles # {}
          /\ groupsOrRoles' = TRUE /\ UNCHANGED covered
      BY <2>2 DEF LeaveOutExcluded
    <3>2. QED  BY <1>2, <3>1 DEF RequiresMFA, Hides
  <2>3. CASE Cover
    <3>1. /\ MFAPolicy(policies[next]) /\ policies[next].excludeCircles = {}
          /\ covered' = covered \cup PolicyCovered(policies[next])
          /\ groupsOrRoles' =
               (groupsOrRoles \/ (~targetsAllUsers(policies[next])
                  /\ policies[next].includeGroups \cup policies[next].includeRoles # {}))
      BY <2>3 DEF Cover
    <3>2. QED  BY <1>2, <3>1 DEF RequiresMFA, Hides
  <2>4. QED  BY <2>1, <2>2, <2>3
<1>4. Gathered'
  BY <1>1, <1>2, <1>3, OneMoreBehind
<1>5. FlagsAreOfPolicies'
  BY <1>1 DEF CAInv, FlagsAreOfPolicies, enabledPolicies
<1>6. QED  BY <1>1, <1>4, <1>5 DEF CAInv, NoCoverage

LEMMA LoopConclude ==
  ASSUME CAInv, Conclude
  PROVE  CAInv'
<1>1. /\ phase = "coverage" /\ phase' = "done" /\ next > Len(policies)
      /\ coverage' = CoverageOf
      /\ UNCHANGED <<policies, next, flags, covered, groupsOrRoles>>
  BY DEF Conclude
<1>2. Gathered' /\ FlagsAreOfPolicies' /\ CoverageOf' = CoverageOf
  BY <1>1 DEF CAInv, Gathered, Behind, FlagsAreOfPolicies, enabledPolicies, CoverageOf
<1>3. QED  BY <1>1, <1>2 DEF CAInv

LEMMA LoopUnchanged ==
  ASSUME CAInv, UNCHANGED caVars
  PROVE  CAInv'
BY DEF CAInv, caVars, Gathered, Behind, FlagsAreOfPolicies, enabledPolicies,
       CoverageOf, NoCoverage

LEMMA LoopsGather == Spec => []CAInv
<1>1. ASSUME CAInv, [Next]_caVars PROVE CAInv'
  BY <1>1, LoopStepOver, LoopComputePolicy, LoopStart, LoopByDefaults, LoopTurn,
     LoopConclude, LoopUnchanged DEF Next
<1>2. QED  BY <1>1, InitGathers, PTL DEF Spec

-----------------------------------------------------------------------------
(* The text of a policy against its meaning.                               *)
LEMMA GrantsAreDemands ==
  ASSUME NEW p, NEW wanted
  PROVE  grantRequires(p, wanted) <=> Demands(p, wanted)
<1>1. CASE p.operator = "OR"
  <2>1. (\A way \in Ways(p) : way \cap wanted # {}) <=> p.controls \subseteq wanted
    <3>1. Ways(p) = {{c} : c \in p.controls}
      BY <1>1 DEF Ways
    <3>2. ASSUME \A way \in Ways(p) : way \cap wanted # {}, NEW c \in p.controls
          PROVE  c \in wanted
      <4>1. {c} \in Ways(p)
        BY <3>1
      <4>2. QED  BY <3>2, <4>1
    <3>3. ASSUME p.controls \subseteq wanted, NEW way \in Ways(p)
          PROVE  way \cap wanted # {}
      <4>1. PICK c \in p.controls : way = {c}
        BY <3>1
      <4>2. QED  BY <3>3, <4>1
    <3>4. QED  BY <3>2, <3>3
  <2>2. QED  BY <1>1, <2>1 DEF grantRequires, Demands
<1>2. CASE p.operator # "OR"
  BY <1>2 DEF grantRequires, Demands, Ways
<1>3. QED  BY <1>1, <1>2

(* A policy for every sign-in applies to each one it names.                *)
LEMMA NothingNarrows ==
  ASSUME NEW p \in Policies, p.enabled, appliesToEverySignIn(p), NEW s, NEW membership,
         ForUser(p, s.user, membership), ForApp(p, s.app), ForClient(p, s.client)
  PROVE  Applies(p, s, membership)
BY DEF Applies, appliesToEverySignIn, narrows, Holds

LEMMA NoOneInNoCircle ==
  ASSUME NEW p \in Policies, NEW u, Everyone \in p.includeUsers, u \notin p.excludeUsers
  PROVE  ForUser(p, u, InNoCircle)
<1>1. p.excludeCircles \subseteq Circles
  BY DEF Policies
<1>2. ~InCircles(u, p.excludeCircles, InNoCircle)
  BY <1>1 DEF InCircles, InNoCircle
<1>3. QED  BY <1>2 DEF ForUser

LEMMA EveryFlagHolds ==
  ASSUME NEW p \in Policies, p.enabled, NEW flag \in FlagsOf(p)
  PROVE  FlagHolds(flag, p)
<1>1. ASSUME MFAPolicy(p), NEW apps, \A a \in apps : ForApp(p, a)
      PROVE  MFATo(p, apps)
  BY <1>1, GrantsAreDemands, NothingNarrows
     DEF MFAPolicy, requiresMFA, MFATo, NotExcluded
<1>2. CASE flag = "mfa_required"
  <2>1. MFAPolicy(p) /\ targetsAllUsers(p)
    BY <1>2 DEF FlagsOf, MFAPolicy
  <2>2. MFATo(p, {a \in Apps : ForApp(p, a)})
    BY <1>1, <2>1
  <2>3. \A u \in Members \ p.excludeUsers : ForUser(p, u, InNoCircle)
    BY <2>1, NoOneInNoCircle DEF targetsAllUsers
  <2>4. QED  BY <1>2, <2>2, <2>3 DEF FlagHolds
<1>3. CASE flag = "admin_portals_mfa_required"
  <2>1. MFAPolicy(p) /\ targetsAdminPortals(p)
    BY <1>3 DEF FlagsOf, MFAPolicy
  <2>2. ForApp(p, AdminPortals)
    BY <2>1, AppsAssumption
       DEF MFAPolicy, appliesToEverySignIn, targetsAdminPortals, ForApp, LeftOutApps
  <2>3. MFATo(p, {AdminPortals})
    BY <1>1, <2>1, <2>2
  <2>4. QED  BY <1>3, <2>3 DEF FlagHolds
<1>4. CASE flag = "all_cloud_apps_mfa_required"
  <2>1. MFAPolicy(p) /\ targetsAllCloudApps(p)
    BY <1>4 DEF FlagsOf, MFAPolicy
  <2>2. \A a \in Apps \ LeftOutApps(p) : ForApp(p, a)
    BY <2>1 DEF MFAPolicy, appliesToEverySignIn, targetsAllCloudApps, ForApp
  <2>3. MFATo(p, Apps \ LeftOutApps(p))
    BY <1>1, <2>1, <2>2
  <2>4. QED  BY <1>4, <2>3 DEF FlagHolds
<1>5. CASE flag = "legacy_auth_blocked"
  <2>1. blocksLegacyAuth(p)
    BY <1>5 DEF FlagsOf
  <2>2. Demands(p, {"block"})
    BY <2>1, GrantsAreDemands DEF blocksLegacyAuth
  <2>3. ASSUME NEW s \in NotExcluded(p), s.client \in {"exchangeActiveSync", "other"}
        PROVE  Applies(p, s, InNoCircle)
    <3>1. ForUser(p, s.user, InNoCircle)
      BY <2>1, <2>3, NoOneInNoCircle DEF blocksLegacyAuth, targetsAllUsers, NotExcluded
    <3>2. ForApp(p, s.app)
      BY <2>1 DEF blocksLegacyAuth, targetsAllCloudApps, appliesToEverySignIn,
                  ForApp, LeftOutApps
    <3>3. ForClient(p, s.client)
      BY <2>1, <2>3 DEF blocksLegacyAuth, ForClient
    <3>4. QED  BY <2>1, <3>1, <3>2, <3>3, NothingNarrows DEF blocksLegacyAuth
  <2>4. QED  BY <1>5, <2>2, <2>3 DEF FlagHolds
<1>6. QED  BY <1>2, <1>3, <1>4, <1>5 DEF FlagHolds

(* A flag computePolicy sets is true of one policy, whatever the tenant    *)
(* and however many policies it has.                                       *)
THEOREM FlagsAreTrue == Spec => []FlagsHoldOfSignIns
<1>1. CAInv => FlagsHoldOfSignIns
  BY EveryFlagHolds
     DEF CAInv, FlagsAreOfPolicies, enabledPolicies, FlagsHoldOfSignIns
<1>2. QED  BY <1>1, LoopsGather, PTL

-----------------------------------------------------------------------------
LEMMA CoveredAreMembers ==
  ASSUME Gathered
  PROVE  covered \subseteq Members
BY DEF Gathered, PolicyCovered

(* A count that is written is that of the members gathered.                *)
LEMMA CountedIsCovered ==
  ASSUME CAInv, phase = "done", enabledPolicies # {}, NEW n \in coverage.count
  PROVE  /\ n = Cardinality(covered)
         /\ groupsOrRoles => Cardinality(covered) >= Cardinality(Members)
<1>1. coverage = CoverageOf
  BY DEF CAInv
<1>2. IsFiniteSet(covered)
  BY MembersAssumption, CoveredAreMembers, FS_Subset DEF CAInv
<1>3. Cardinality(covered) \in Nat /\ Cardinality(Members) \in Nat
  BY <1>2, MembersAssumption, FS_CardinalityType
<1>4. QED  BY <1>1, <1>3 DEF CoverageOf, LeftOut, Counted

(* mfa_required and the coverage are computed in two places; a count that  *)
(* is written never contradicts the flag.                                  *)
THEOREM FlagAndCoverage == Spec => []FlagAndCoverageAgree
<1>1. ASSUME CAInv, phase = "done", coverage.count # {}, "mfa_required" \in flags,
             NEW i \in enabledPolicies, "mfa_required" \in FlagsOf(policies[i]),
             policies[i].excludeCircles = {}, NEW n \in coverage.count
      PROVE  n >= Cardinality(Members \ policies[i].excludeUsers)
  <2>1. n = Cardinality(covered)
    BY <1>1, CountedIsCovered
  <2>2. MFAPolicy(policies[i]) /\ targetsAllUsers(policies[i])
    BY <1>1 DEF FlagsOf, MFAPolicy
  <2>3. i \in Behind /\ RequiresMFA(policies[i]) /\ Gathered
    BY <1>1, <2>2 DEF CAInv, enabledPolicies, Behind, RequiresMFA
  <2>4. Members \ policies[i].excludeUsers \subseteq covered
    BY <2>2, <2>3 DEF Gathered, PolicyCovered
  <2>5. IsFiniteSet(covered)
    BY <2>3, MembersAssumption, CoveredAreMembers, FS_Subset
  <2>6. /\ IsFiniteSet(Members \ policies[i].excludeUsers)
        /\ Cardinality(Members \ policies[i].excludeUsers) <= Cardinality(covered)
    BY <2>4, <2>5, FS_Subset
  <2>7. /\ Cardinality(covered) \in Nat
        /\ Cardinality(Members \ policies[i].excludeUsers) \in Nat
    BY <2>5, <2>6, FS_CardinalityType
  <2>8. QED  BY <2>1, <2>6, <2>7
<1>2. CAInv => FlagAndCoverageAgree
  <2>1. SUFFICES ASSUME CAInv, phase = "done", coverage.count # {},
                        "mfa_required" \in flags
                 PROVE  FlagAndCoverageAgree
    BY DEF FlagAndCoverageAgree
  <2>2. PICK i \in enabledPolicies : "mfa_required" \in FlagsOf(policies[i])
    BY <2>1 DEF CAInv, FlagsAreOfPolicies
  <2>3. i \in 1..Len(policies)
    BY <2>1, <2>2 DEF CAInv, enabledPolicies
  <2>4. QED  BY <1>1, <2>1, <2>2, <2>3 DEF FlagAndCoverageAgree
<1>3. QED  BY <1>2, LoopsGather, PTL

-----------------------------------------------------------------------------
(* The policies the coverage is exact for.  The code does not take the     *)
(* excluded users out of those a policy names, and does not ask whether a  *)
(* policy leaves any app in.                                               *)
Usual(p) ==
  /\ Everyone \in p.includeUsers \/ p.includeUsers \cap p.excludeUsers = {}
  /\ p.userAction \/ \E app \in Apps : ForApp(p, app)
EveryPolicyIsUsual == \A i \in DOMAIN policies : Usual(policies[i])

LEMMA HoldsEverywhere ==
  ASSUME NEW list \in Lists, \A at \in Places : Holds(list, at)
  PROVE  ~narrows(list)
<1>1. list.include \subseteq NamedPlaces \cup {Everyone} /\ list.exclude \subseteq NamedPlaces
  BY DEF Lists
<1>2. list.exclude = {}
  BY <1>1 DEF Places, Holds
<1>3. list.include = {} \/ Everyone \in list.include
  BY <1>1 DEF Places, Holds, NamedPlaces, Everyone
<1>4. QED  BY <1>2, <1>3 DEF narrows

(* What demands MFA of a user is an MFA policy for that user.              *)
LEMMA OnlyMFAPoliciesDemand ==
  ASSUME NEW p \in Policies, NEW u \in Members, NEW membership,
         DemandsMFAOf(p, u, membership)
  PROVE  p.enabled /\ MFAPolicy(p) /\ ForUser(p, u, membership)
<1>1. PICK app \in Apps : ForApp(p, app)
  BY DEF DemandsMFAOf
<1>2. PICK client \in ClientTypes : ForClient(p, client)
  BY DEF Policies, ForClient, ClientTypes
<1>3. ASSUME NEW at \in Places, NEW platform \in Places
      PROVE  /\ p.enabled /\ ForUser(p, u, membership) /\ p.conditions = {}
             /\ Holds(p.locations, at) /\ Holds(p.platforms, platform)
  <2> DEFINE s == [user |-> u, app |-> app, client |-> client, location |-> at,
                   platform |-> platform, meets |-> {}]
  <2>1. s \in {t \in SignIns : t.user = u /\ ForApp(p, t.app) /\ ForClient(p, t.client)}
    BY <1>1, <1>2 DEF SignIns
  <2>2. Applies(p, s, membership)
    BY <2>1 DEF DemandsMFAOf
  <2>3. QED  BY <2>2 DEF Applies
<1>4. p.enabled /\ ForUser(p, u, membership) /\ p.conditions = {}
  BY <1>3 DEF Places
<1>5. /\ \A at \in Places : Holds(p.locations, at)
      /\ \A at \in Places : Holds(p.platforms, at)
  BY <1>3
<1>6. p.locations \in Lists /\ p.platforms \in Lists
  BY DEF Policies
<1>7. ~narrows(p.locations) /\ ~narrows(p.platforms)
  BY <1>5, <1>6, HoldsEverywhere
<1>8. requiresMFA(p)
  BY GrantsAreDemands DEF DemandsMFAOf, requiresMFA
<1>9. QED  BY <1>1, <1>4, <1>7, <1>8 DEF MFAPolicy, appliesToEverySignIn, ForApp

LEMMA MFAPoliciesDemand ==
  ASSUME NEW p \in Policies, p.enabled, MFAPolicy(p), Usual(p),
         NEW u, NEW membership, ForUser(p, u, membership)
  PROVE  DemandsMFAOf(p, u, membership)
<1>1. Demands(p, MFAControls)
  BY GrantsAreDemands DEF MFAPolicy, requiresMFA
<1>2. \E app \in Apps : ForApp(p, app)
  BY DEF Usual, MFAPolicy, appliesToEverySignIn
<1>3. ASSUME NEW s \in SignIns, s.user = u, ForApp(p, s.app), ForClient(p, s.client)
      PROVE  Applies(p, s, membership)
  BY <1>3, NothingNarrows DEF MFAPolicy
<1>4. QED  BY <1>1, <1>2, <1>3 DEF DemandsMFAOf

(* The members gathered are those some policy demands MFA of, if no policy *)
(* hides whom it covers or nobody is left to be hidden.                    *)
LEMMA CoveredAreDemanded ==
  ASSUME CAInv, phase = "done", enabledPolicies # {}, EveryPolicyIsUsual,
         coverage.count # {}, NEW membership
  PROVE  covered = {u \in Members : \E i \in 1..Len(policies) :
                      DemandsMFAOf(policies[i], u, membership)}
<1>1. /\ Gathered /\ covered \subseteq Members
      /\ Behind = 1..Len(policies) /\ DOMAIN policies = 1..Len(policies)
      /\ \A i \in 1..Len(policies) : policies[i] \in Policies
  BY CoveredAreMembers DEF CAInv, Behind
<1>2. ASSUME NEW u \in covered
      PROVE  \E i \in 1..Len(policies) : DemandsMFAOf(policies[i], u, membership)
  <2>1. PICK i \in 1..Len(policies) :
          RequiresMFA(policies[i]) /\ u \in PolicyCovered(policies[i])
    BY <1>1 DEF Gathered
  <2>2. ForUser(policies[i], u, membership)
    BY <1>1, <2>1 DEF RequiresMFA, PolicyCovered, targetsAllUsers, ForUser, InCircles,
                      EveryPolicyIsUsual, Usual
  <2>3. QED  BY <1>1, <2>1, <2>2, MFAPoliciesDemand DEF RequiresMFA, EveryPolicyIsUsual
<1>3. ASSUME NEW u \in Members, NEW i \in 1..Len(policies),
             DemandsMFAOf(policies[i], u, membership)
      PROVE  u \in covered
  <2>1. policies[i].enabled /\ MFAPolicy(policies[i]) /\ ForUser(policies[i], u, membership)
    BY <1>1, <1>3, OnlyMFAPoliciesDemand
  <2>2. CASE groupsOrRoles
    <3>1. PICK n : n \in coverage.count
      OBVIOUS
    <3>2. Cardinality(covered) >= Cardinality(Members)
      BY <2>2, <3>1, CountedIsCovered
    <3>3. /\ Cardinality(covered) <= Cardinality(Members)
          /\ Cardinality(Members) = Cardinality(covered) => Members = covered
          /\ IsFiniteSet(covered)
      BY <1>1, MembersAssumption, FS_Subset
    <3>4. Cardinality(covered) \in Nat /\ Cardinality(Members) \in Nat
      BY <3>3, MembersAssumption, FS_CardinalityType
    <3>5. QED  BY <3>2, <3>3, <3>4
  <2>3. CASE ~groupsOrRoles
    <3>1. ~Hides(policies[i])
      BY <1>1, <2>3 DEF Gathered
    <3>2. RequiresMFA(policies[i]) /\ u \in PolicyCovered(policies[i])
      BY <2>1, <3>1 DEF Hides, RequiresMFA, PolicyCovered, targetsAllUsers, ForUser, InCircles
    <3>3. QED  BY <1>1, <3>2 DEF Gathered
  <2>4. QED  BY <2>2, <2>3
<1>4. QED  BY <1>1, <1>2, <1>3

(* A coverage that is written is the number of members some policy         *)
(* requires MFA of, for every tenant whose policies are usual and          *)
(* whoever is in its groups and roles (mfaPolicyCoveredCount).             *)
THEOREM CoverageCountsTheCovered == Spec => [](EveryPolicyIsUsual => CoverageIsRight)
<1>1. CAInv => (EveryPolicyIsUsual => CoverageIsRight)
  <2>1. SUFFICES ASSUME CAInv, EveryPolicyIsUsual, phase = "done", enabledPolicies # {},
                        NEW n \in coverage.count, NEW membership \in Memberships
                 PROVE  n = Cardinality({u \in Members : \E i \in 1..Len(policies) :
                              DemandsMFAOf(policies[i], u, membership)})
    BY DEF CoverageIsRight
  <2>2. n = Cardinality(covered)
    BY <2>1, CountedIsCovered
  <2>3. QED  BY <2>1, <2>2, CoveredAreDemanded
<1>2. QED  BY <1>1, LoopsGather, PTL

-----------------------------------------------------------------------------
(***************************************************************************)
(* The access posture.  A population stands for the answers of a scope:    *)
(* what is written from it is true of everyone who may hold a role there,  *)
(* and the total stands for the subscriptions merged so far.               *)
(***************************************************************************)

(* What the assignments of a scope are.                                    *)
LEMMA SeenIs ==
  ASSUME NEW scope
  PROVE  \A a : a \in Seen(scope) <=>
           \E j \in scope : /\ ~accounts[j].unreadable /\ ~accounts[j].rbacMiss
                            /\ a \in accounts[j].roleAssignments
BY DEF Seen

LEMMA HoldersAre ==
  ASSUME NEW scope, NEW type, NEW roles
  PROVE  \A u : u \in SeenHolders(scope, type, roles) <=>
           \E a \in Seen(scope) : /\ a.type = type /\ a.role \in roles
                                  /\ a.principal = u /\ u # NoPrincipal
BY DEF SeenHolders

AccountsTyped ==
  /\ accounts \in Seq(Answers)
  /\ \A i \in 1 .. Len(accounts) : IsFiniteSet(accounts[i].roleAssignments)

LEMMA AccountIs ==
  ASSUME AccountsTyped, NEW i \in 1 .. Len(accounts)
  PROVE  /\ accounts[i].unreadable \in BOOLEAN /\ accounts[i].rbacMiss \in BOOLEAN
         /\ \A a \in accounts[i].roleAssignments : a \in Assignments
         /\ IsFiniteSet(accounts[i].roleAssignments)
<1>1. accounts[i] \in Answers
  BY DEF AccountsTyped
<1>. QED
  BY <1>1 DEF Answers, AccountsTyped

LEMMA SeenTyped ==
  ASSUME AccountsTyped, NEW scope \in SUBSET (1 .. Len(accounts))
  PROVE  /\ \A a \in Seen(scope) : a.role \in Roles /\ a.type \in Types
         /\ IsFiniteSet(Seen(scope))
         /\ \A type, roles : IsFiniteSet(SeenHolders(scope, type, roles))
<1>1. \A a \in Seen(scope) : a \in Assignments
  BY SeenIs, AccountIs
<1>2. \A a \in Assignments : a.role \in Roles /\ a.type \in Types
  BY DEF Assignments
<1>3. IsFiniteSet(Seen(scope))
  <2>. DEFINE Good == {j \in scope : ~accounts[j].unreadable /\ ~accounts[j].rbacMiss}
              lists == {accounts[i].roleAssignments : i \in Good}
  <2>1. Len(accounts) \in Nat
    BY DEF AccountsTyped
  <2>2. IsFiniteSet(1 .. Len(accounts))
    BY <2>1, FS_Interval
  <2>3. IsFiniteSet(Good)
    BY <2>2, FS_Subset
  <2>4. IsFiniteSet(lists)
    <3>. DEFINE f == [i \in Good |-> accounts[i].roleAssignments]
    <3>1. f \in Surjection(Good, lists)
      BY DEF Surjection
    <3>. QED
      BY <2>3, <3>1, FS_Surjection
  <2>5. \A list \in lists : IsFiniteSet(list)
    BY AccountIs
  <2>6. IsFiniteSet(UNION lists)
    BY <2>4, <2>5, FS_UNION
  <2>. QED
    BY <2>6 DEF Seen
<1>4. ASSUME NEW type, NEW roles PROVE IsFiniteSet(SeenHolders(scope, type, roles))
  <2>. DEFINE S == {b \in Seen(scope) : b.type = type /\ b.role \in roles}
              f == [a \in S |-> a.principal]
              T == {a.principal : a \in S}
  <2>1. IsFiniteSet(S)
    BY <1>3, FS_Subset
  <2>2. f \in Surjection(S, T)
    BY DEF Surjection
  <2>3. IsFiniteSet(T)
    BY <2>1, <2>2, FS_Surjection
  <2>4. SeenHolders(scope, type, roles) \in SUBSET T
    BY DEF SeenHolders
  <2>. QED
    BY <2>3, <2>4, FS_Subset
<1>. QED
  BY <1>1, <1>2, <1>3, <1>4

(* What a population that stands for a scope holds.                        *)
Describes(p, scope) ==
  /\ p.why # NoWhy <=> Unread(scope)
  /\ p.users = SeenHolders(scope, "User", Roles)
  /\ p.admins = SeenHolders(scope, "User", {"admin"})
  /\ p.servicePrincipals = SeenHolders(scope, "ServicePrincipal", Roles)
  /\ p.writers = SeenHolders(scope, "ServicePrincipal", Roles \ {"reader"})
  /\ p.groupHeld <=> \E a \in Unsorted(scope) : a.type = "Group"
  /\ p.otherHeld <=> \E a \in Unsorted(scope) : a.type = "Other"
  /\ p.groupHeldAdmin <=> \E a \in Unsorted(scope) : a.type = "Group" /\ a.role = "admin"
  /\ p.otherHeldAdmin <=> \E a \in Unsorted(scope) : a.type = "Other" /\ a.role = "admin"

LEMMA NothingSeen == Describes(newAccessPopulation, {})
<1>1. ~Unread({}) /\ Seen({}) = {}
  BY SeenIs DEF Unread
<1>2. Unsorted({}) = {} /\ \A type, roles : SeenHolders({}, type, roles) = {}
  BY <1>1 DEF Unsorted, SeenHolders
<1>3. /\ newAccessPopulation.why = NoWhy /\ newAccessPopulation.users = {}
      /\ newAccessPopulation.admins = {} /\ newAccessPopulation.servicePrincipals = {}
      /\ newAccessPopulation.writers = {}
      /\ ~newAccessPopulation.groupHeld /\ ~newAccessPopulation.groupHeldAdmin
      /\ ~newAccessPopulation.otherHeld /\ ~newAccessPopulation.otherHeldAdmin
  BY DEF newAccessPopulation
<1>. QED
  BY <1>1, <1>2, <1>3 DEF Describes

(* Scopes side by side.                                                    *)
LEMMA ScopesTogether ==
  ASSUME NEW S, NEW T
  PROVE  /\ Unread(S \cup T) <=> Unread(S) \/ Unread(T)
         /\ Unsorted(S \cup T) = Unsorted(S) \cup Unsorted(T)
         /\ \A type, roles : SeenHolders(S \cup T, type, roles) =
              SeenHolders(S, type, roles) \cup SeenHolders(T, type, roles)
<1>1. Unread(S \cup T) <=> Unread(S) \/ Unread(T)
  BY DEF Unread
<1>2. Seen(S \cup T) = Seen(S) \cup Seen(T)
  <2>1. \A a : a \in Seen(S \cup T) <=> a \in Seen(S) \/ a \in Seen(T)
    BY SeenIs
  <2>. QED
    BY <2>1
<1>3. Unsorted(S \cup T) = Unsorted(S) \cup Unsorted(T)
  BY <1>2 DEF Unsorted
<1>4. ASSUME NEW type, NEW roles
      PROVE  SeenHolders(S \cup T, type, roles) =
               SeenHolders(S, type, roles) \cup SeenHolders(T, type, roles)
  <2>. DEFINE H(U, u) == \E a \in Seen(U) : /\ a.type = type /\ a.role \in roles
                                            /\ a.principal = u /\ u # NoPrincipal
  <2>1. \A u : H(S \cup T, u) <=> H(S, u) \/ H(T, u)
    BY <1>2
  <2>2. \A u : u \in SeenHolders(S, type, roles) <=> H(S, u)
    BY HoldersAre
  <2>3. \A u : u \in SeenHolders(T, type, roles) <=> H(T, u)
    BY HoldersAre
  <2>4. \A u : u \in SeenHolders(S \cup T, type, roles) <=> H(S \cup T, u)
    BY HoldersAre
  <2>. HIDE DEF H
  <2>5. \A u : u \in SeenHolders(S \cup T, type, roles) <=>
                 u \in SeenHolders(S, type, roles) \/ u \in SeenHolders(T, type, roles)
    BY <2>1, <2>2, <2>3, <2>4
  <2>. QED
    BY <2>5
<1>. QED
  BY <1>1, <1>3, <1>4

LEMMA MergedStandsForBoth ==
  ASSUME NEW p, NEW q, NEW S, NEW T, Describes(p, S), Describes(q, T)
  PROVE  Describes(merge(p, q), S \cup T)
<1>1. /\ merge(p, q).why = firstMissing(p.why, q.why)
      /\ merge(p, q).users = p.users \cup q.users
      /\ merge(p, q).admins = p.admins \cup q.admins
      /\ merge(p, q).servicePrincipals = p.servicePrincipals \cup q.servicePrincipals
      /\ merge(p, q).writers = p.writers \cup q.writers
      /\ merge(p, q).groupHeld <=> p.groupHeld \/ q.groupHeld
      /\ merge(p, q).groupHeldAdmin <=> p.groupHeldAdmin \/ q.groupHeldAdmin
      /\ merge(p, q).otherHeld <=> p.otherHeld \/ q.otherHeld
      /\ merge(p, q).otherHeldAdmin <=> p.otherHeldAdmin \/ q.otherHeldAdmin
  BY DEF merge
<1>2. merge(p, q).why # NoWhy <=> p.why # NoWhy \/ q.why # NoWhy
  BY <1>1 DEF firstMissing
<1>3. p.why # NoWhy \/ q.why # NoWhy <=> Unread(S \cup T)
  BY ScopesTogether DEF Describes
<1>4. ASSUME NEW type, NEW roles
      PROVE  SeenHolders(S, type, roles) \cup SeenHolders(T, type, roles)
               = SeenHolders(S \cup T, type, roles)
  BY ScopesTogether
<1>5. Unsorted(S \cup T) = Unsorted(S) \cup Unsorted(T)
  BY ScopesTogether, Zenon
<1>6. \A a : a \in Unsorted(S \cup T) <=> a \in Unsorted(S) \/ a \in Unsorted(T)
  BY <1>5
<1>7. /\ merge(p, q).users = SeenHolders(S \cup T, "User", Roles)
      /\ merge(p, q).admins = SeenHolders(S \cup T, "User", {"admin"})
      /\ merge(p, q).servicePrincipals = SeenHolders(S \cup T, "ServicePrincipal", Roles)
      /\ merge(p, q).writers =
           SeenHolders(S \cup T, "ServicePrincipal", Roles \ {"reader"})
  <2>1. /\ p.users = SeenHolders(S, "User", Roles)
        /\ p.admins = SeenHolders(S, "User", {"admin"})
        /\ p.servicePrincipals = SeenHolders(S, "ServicePrincipal", Roles)
        /\ p.writers = SeenHolders(S, "ServicePrincipal", Roles \ {"reader"})
    BY Zenon DEF Describes
  <2>2. /\ q.users = SeenHolders(T, "User", Roles)
        /\ q.admins = SeenHolders(T, "User", {"admin"})
        /\ q.servicePrincipals = SeenHolders(T, "ServicePrincipal", Roles)
        /\ q.writers = SeenHolders(T, "ServicePrincipal", Roles \ {"reader"})
    BY Zenon DEF Describes
  <2>. QED
    BY <1>1, <1>4, <2>1, <2>2, Zenon
<1>8. /\ merge(p, q).groupHeld <=> \E a \in Unsorted(S \cup T) : a.type = "Group"
      /\ merge(p, q).otherHeld <=> \E a \in Unsorted(S \cup T) : a.type = "Other"
  BY <1>1, <1>6 DEF Describes
<1>9. /\ merge(p, q).groupHeldAdmin <=>
           \E a \in Unsorted(S \cup T) : a.type = "Group" /\ a.role = "admin"
      /\ merge(p, q).otherHeldAdmin <=>
           \E a \in Unsorted(S \cup T) : a.type = "Other" /\ a.role = "admin"
  BY <1>1, <1>6 DEF Describes
<1>. QED
  BY <1>2, <1>3, <1>7, <1>8, <1>9, Zenon DEF Describes
(* One subscription.                                                       *)
LEMMA OneScope ==
  ASSUME NEW i
  PROVE  /\ Unread({i}) <=> accounts[i].unreadable \/ accounts[i].rbacMiss
         /\ ~Unread({i}) => Seen({i}) = accounts[i].roleAssignments
         /\ Unread({i}) => Seen({i}) = {}
<1>1. \A a : a \in Seen({i}) <=>
        /\ ~accounts[i].unreadable /\ ~accounts[i].rbacMiss
        /\ a \in accounts[i].roleAssignments
  BY SeenIs
<1>2. Unread({i}) <=> accounts[i].unreadable \/ accounts[i].rbacMiss
  BY DEF Unread
<1>. QED
  BY <1>1, <1>2

LEMMA NoHolders ==
  ASSUME NEW scope, Seen(scope) = {}
  PROVE  Unsorted(scope) = {} /\ \A type, roles : SeenHolders(scope, type, roles) = {}
BY DEF Unsorted, SeenHolders

LEMMA AddIs ==
  ASSUME NEW A
  PROVE  /\ add(A).why = NoWhy
         /\ add(A).users = holders(named(A, "User"))
         /\ add(A).admins = holders(administers(named(A, "User")))
         /\ add(A).servicePrincipals = holders(named(A, "ServicePrincipal"))
         /\ add(A).writers = holders(writes(named(A, "ServicePrincipal")))
         /\ add(A).groupHeld <=> grouped(A) # {}
         /\ add(A).groupHeldAdmin <=> administers(grouped(A)) # {}
         /\ add(A).otherHeld <=> named(A, "Other") # {}
         /\ add(A).otherHeldAdmin <=> administers(named(A, "Other")) # {}
<1>1. add(A).groupHeld <=> grouped(A) # {}
  BY DEF add
<1>2. add(A).groupHeldAdmin <=> administers(grouped(A)) # {}
  BY DEF add
<1>3. add(A).otherHeld <=> named(A, "Other") # {}
  BY DEF add
<1>4. add(A).otherHeldAdmin <=> administers(named(A, "Other")) # {}
  BY DEF add
<1>. QED
  BY <1>1, <1>2, <1>3, <1>4 DEF add

LEMMA AddedStandsForSeen ==
  ASSUME AccountsTyped, NEW i \in 1 .. Len(accounts), ~Unread({i}),
         NEW p, p = add(accounts[i].roleAssignments)
  PROVE  Describes(p, {i})
<1>. DEFINE A == accounts[i].roleAssignments
<1>1. Seen({i}) = A
  BY OneScope
<1>2. \A a \in A : a \in Assignments
  BY AccountIs
<1>3. \A a \in A : a.role \in Roles
  BY <1>2 DEF Assignments
<1>. HIDE DEF A
<1>4. p = add(A)
  BY DEF A
<1>5. /\ p.why = NoWhy
      /\ p.users = holders(named(A, "User"))
      /\ p.admins = holders(administers(named(A, "User")))
      /\ p.servicePrincipals = holders(named(A, "ServicePrincipal"))
      /\ p.writers = holders(writes(named(A, "ServicePrincipal")))
  BY <1>4, AddIs
<1>6. /\ p.groupHeld <=> grouped(A) # {}
      /\ p.groupHeldAdmin <=> administers(grouped(A)) # {}
      /\ p.otherHeld <=> named(A, "Other") # {}
      /\ p.otherHeldAdmin <=> administers(named(A, "Other")) # {}
  BY <1>4, AddIs
<1>7. \A u : u \in p.users <=> u \in SeenHolders({i}, "User", Roles)
  BY <1>1, <1>3, <1>5, HoldersAre DEF holders, named, administers, writes
<1>8. \A u : u \in p.admins <=> u \in SeenHolders({i}, "User", {"admin"})
  BY <1>1, <1>5, HoldersAre DEF holders, named, administers, writes
<1>9. \A u : u \in p.servicePrincipals <=>
              u \in SeenHolders({i}, "ServicePrincipal", Roles)
  BY <1>1, <1>3, <1>5, HoldersAre DEF holders, named, administers, writes
<1>10. \A u : u \in p.writers <=>
              u \in SeenHolders({i}, "ServicePrincipal", Roles \ {"reader"})
  BY <1>1, <1>3, <1>5, HoldersAre DEF holders, named, administers, writes
<1>11. \A a : a \in Unsorted({i}) <=>
         a \in A /\ (a.type = "Group" \/ (a.type = "Other" /\ a.principal # NoPrincipal))
  BY <1>1 DEF Unsorted
<1>12. /\ p.groupHeld <=> \E a \in Unsorted({i}) : a.type = "Group"
       /\ p.groupHeldAdmin <=> \E a \in Unsorted({i}) : a.type = "Group" /\ a.role = "admin"
  BY <1>6, <1>11 DEF grouped, administers
<1>13. /\ p.otherHeld <=> \E a \in Unsorted({i}) : a.type = "Other"
       /\ p.otherHeldAdmin <=> \E a \in Unsorted({i}) : a.type = "Other" /\ a.role = "admin"
  BY <1>6, <1>11 DEF named, administers
<1>. QED
  BY <1>5, <1>7, <1>8, <1>9, <1>10, <1>12, <1>13, Zenon DEF Describes

LEMMA EmptyStandsForUnread ==
  ASSUME NEW scope, Unread(scope), Seen(scope) = {}, NEW p,
         p.why # NoWhy, p.users = {}, p.admins = {}, p.servicePrincipals = {},
         p.writers = {}, ~p.groupHeld, ~p.groupHeldAdmin, ~p.otherHeld,
         ~p.otherHeldAdmin
  PROVE  Describes(p, scope)
BY NoHolders DEF Describes

LEMMA SubscriptionStands ==
  ASSUME AccountsTyped, NEW i \in 1 .. Len(accounts)
  PROVE  Describes(subscriptionPopulation(accounts[i]), {i})
<1>. DEFINE p == subscriptionPopulation(accounts[i])
<1>1. accounts[i].unreadable \in BOOLEAN /\ accounts[i].rbacMiss \in BOOLEAN
  BY AccountIs
<1>2. CASE accounts[i].unreadable \/ accounts[i].rbacMiss
  <2>1. Unread({i}) /\ Seen({i}) = {}
    BY <1>2, OneScope
  <2>2. /\ p.why # NoWhy /\ p.users = {} /\ p.admins = {}
        /\ p.servicePrincipals = {} /\ p.writers = {}
        /\ ~p.groupHeld /\ ~p.groupHeldAdmin /\ ~p.otherHeld /\ ~p.otherHeldAdmin
    BY <1>1, <1>2 DEF subscriptionPopulation, newAccessPopulation, NoWhy
  <2>. HIDE DEF p
  <2>3. Describes(p, {i})
    BY <2>1, <2>2, EmptyStandsForUnread
  <2>. QED
    BY <2>3 DEF p
<1>3. CASE ~(accounts[i].unreadable \/ accounts[i].rbacMiss)
  <2>1. p = add(accounts[i].roleAssignments)
    BY <1>3 DEF subscriptionPopulation
  <2>2. ~Unread({i})
    BY <1>3, OneScope
  <2>. QED
    BY <2>1, <2>2, AddedStandsForSeen
<1>. QED
  BY <1>2, <1>3

(* Who may hold a role: those seen, and nobody else once all was sorted.   *)
AllSorted(scope, roles) ==
  ~Unread(scope) /\ ~\E a \in Unsorted(scope) : a.role \in roles

LEMMA HoldersOf ==
  ASSUME NEW scope, NEW type, NEW roles, NEW everyone,
         NEW ids \in MayHold(scope, type, roles, everyone)
  PROVE  /\ SeenHolders(scope, type, roles) \subseteq ids
         /\ AllSorted(scope, roles) => ids = SeenHolders(scope, type, roles)
<1>. DEFINE hidden == Unread(scope) \/ \E a \in Unsorted(scope) : a.role \in roles
<1>1. PICK more \in IF hidden THEN SUBSET everyone ELSE {{}} :
             ids = SeenHolders(scope, type, roles) \cup more
  BY DEF MayHold
<1>2. AllSorted(scope, roles) => ~hidden
  BY DEF AllSorted
<1>. HIDE DEF hidden
<1>3. AllSorted(scope, roles) => more = {}
  BY <1>1, <1>2
<1>. QED
  BY <1>1, <1>3

(* Nothing missing in a population is everything sorted in its scope.      *)
LEMMA NothingMissing ==
  ASSUME AccountsTyped, NEW scope \in SUBSET (1 .. Len(accounts)), NEW p,
         Describes(p, scope), p.why = NoWhy
  PROVE  /\ holdersMiss(p) = NoWhy => AllSorted(scope, Roles)
         /\ holdersMiss(p) = NoWhy => AllSorted(scope, Roles \ {"reader"})
         /\ adminHoldersMiss(p) = NoWhy => AllSorted(scope, {"admin"})
<1>1. ~Unread(scope)
  BY DEF Describes
<1>2. \A a \in Unsorted(scope) : a.type = "Group" \/ a.type = "Other"
  BY DEF Unsorted
<1>3. holdersMiss(p) = NoWhy => ~p.groupHeld /\ ~p.otherHeld
  BY DEF holdersMiss, NoWhy
<1>4. adminHoldersMiss(p) = NoWhy => ~p.groupHeldAdmin /\ ~p.otherHeldAdmin
  BY DEF adminHoldersMiss, NoWhy
<1>5. holdersMiss(p) = NoWhy => Unsorted(scope) = {}
  BY <1>2, <1>3, Zenon DEF Describes
<1>6. adminHoldersMiss(p) = NoWhy => ~\E a \in Unsorted(scope) : a.role = "admin"
  BY <1>2, <1>4, Zenon DEF Describes
<1>. QED
  BY <1>1, <1>5, <1>6 DEF AllSorted

(* What the writers of a value write.                                      *)
LEMMA ValueIs ==
  ASSUME NEW field, NEW num, NEW of, NEW v \in Value(field, num, of)
  PROVE  v.at = field /\ v.num = num /\ v.of = of
BY DEF Value

LEMMA CountIs ==
  ASSUME NEW field, NEW ns, NEW v \in count(field, ns)
  PROVE  v.at = field /\ v.num \in ns
BY DEF count

LEMMA ShareIs ==
  ASSUME NEW field, NEW ns, NEW size, NEW v \in share(field, ns, size)
  PROVE  /\ v.at = field /\ v.of = size
         /\ size = 0 => v.num = 0
         /\ size # 0 => v.num \in ns
BY DEF share, Value

LEMMA PresentIs ==
  ASSUME NEW field, NEW n \in Nat, NEW why, NEW v \in present(field, n, why).values
  PROVE  /\ v.at = field
         /\ n > 0 => v.num = 1
         /\ n = 0 => why = NoWhy /\ v.num = 0
<1>1. CASE n > 0
  <2>1. v \in Value(field, 1, 1)
    BY <1>1 DEF present, Block
  <2>. QED
    BY <1>1, <2>1, ValueIs
<1>2. CASE n = 0 /\ why # NoWhy
  BY <1>2 DEF present, Block
<1>3. CASE n = 0 /\ why = NoWhy
  <2>1. v \in Value(field, 0, 1)
    BY <1>3 DEF present, Block
  <2>. QED
    BY <1>3, <2>1, ValueIs
<1>. QED
  BY <1>1, <1>2, <1>3

LEMMA BlockIs ==
  ASSUME NEW vs, NEW gs
  PROVE  Block(vs, gs).values = vs /\ Block(vs, gs).gaps = gs
BY DEF Block

LEMMA BothIs ==
  ASSUME NEW a, NEW b
  PROVE  /\ Both(a, b).values = a.values \cup b.values
         /\ Both(a, b).gaps = a.gaps \cup b.gaps
BY DEF Block, Both

(* When a value holds.                                                     *)
LEMMA CountHolds ==
  ASSUME NEW v, v.at \in Counts, NEW part, v.num = Cardinality(part), NEW whole
  PROVE  Has(v, part, whole)
BY DEF Has, Counts, MemberCounts, CredentialCounts, Presences, Shares

LEMMA PresenceHolds ==
  ASSUME NEW v, v.at \in Presences, NEW part, part = {} => v.num = 0,
         part # {} => v.num = 1, NEW whole
  PROVE  Has(v, part, whole)
BY DEF Has, Counts, MemberCounts, CredentialCounts, Presences, Shares

LEMMA ShareHolds ==
  ASSUME NEW v, v.at \in Shares, NEW whole, IsFiniteSet(whole), NEW part,
         NEW ns, \A n \in ns : n = Cardinality(part),
         v.of = Cardinality(whole), Cardinality(whole) = 0 => v.num = 0,
         Cardinality(whole) # 0 => v.num \in ns
  PROVE  Has(v, part, whole)
<1>1. Cardinality(whole) = 0 <=> whole = {}
  BY FS_EmptySet
<1>2. v.at \notin Counts /\ v.at \notin Presences
  BY DEF Counts, MemberCounts, CredentialCounts, Presences, Shares
<1>. QED
  BY <1>1, <1>2 DEF Has

(* The flag of a set is true once one is found, false when none can be.    *)
LEMMA PresenceOfHolds ==
  ASSUME NEW known, IsFiniteSet(known), NEW why, NEW v, v.at \in Presences,
         Cardinality(known) > 0 => v.num = 1,
         Cardinality(known) = 0 => why = NoWhy /\ v.num = 0,
         NEW part, known \in SUBSET part, why = NoWhy => part = known, NEW whole
  PROVE  Has(v, part, whole)
<1>1. Cardinality(known) \in Nat /\ (Cardinality(known) = 0 <=> known = {})
  BY FS_EmptySet, FS_CardinalityType
<1>2. part = {} => v.num = 0
  BY <1>1
<1>3. part # {} => v.num = 1
  BY <1>1
<1>. QED
  BY <1>2, <1>3, PresenceHolds

(* Every value a block writes is true of the scope.                        *)
TrueBlock(b, scope) == \A v \in b.values : IsTrue(v, scope)

LEMMA NothingIsTrue ==
  ASSUME NEW gs, NEW scope
  PROVE  TrueBlock(Block({}, gs), scope)
BY BlockIs DEF TrueBlock

LEMMA BothTrue ==
  ASSUME NEW a, NEW b, NEW scope, TrueBlock(a, scope), TrueBlock(b, scope)
  PROVE  TrueBlock(Both(a, b), scope)
BY BothIs DEF TrueBlock

LEMMA MemberTruth ==
  ASSUME NEW v, v.at \in MemberFields, NEW scope,
         \A members \in MayMember(scope) : TrueOfMembers(v, members)
  PROVE  IsTrue(v, scope)
BY DEF IsTrue, MemberFields, AdminFields, CredentialFields, MemberCounts, CredentialCounts

LEMMA AdminTruth ==
  ASSUME NEW v, v.at \in AdminFields, NEW scope,
         \A admins \in MayAdmin(scope), members \in MayMember(scope) :
            admins \subseteq members => Has(v, admins, members)
  PROVE  IsTrue(v, scope)
BY DEF IsTrue, MemberFields, AdminFields, CredentialFields, MemberCounts, CredentialCounts

LEMMA CredentialTruth ==
  ASSUME NEW v, v.at \in CredentialFields, NEW scope,
         \A ids \in MayCredential(scope), writers \in MayWrite(scope) :
            writers \subseteq ids => TrueOfCredentials(v, ids, writers)
  PROVE  IsTrue(v, scope)
BY DEF IsTrue, MemberFields, AdminFields, CredentialFields, MemberCounts, CredentialCounts

LEMMA FirstMissing ==
  ASSUME NEW a, NEW b
  PROVE  firstMissing(a, b) = NoWhy => a = NoWhy /\ b = NoWhy
BY DEF firstMissing

(* The enabled users known to hold a role are among those who may, and all *)
(* of them once nothing is missing.                                        *)
LEMMA KnownMembers ==
  ASSUME AccountsTyped, NEW scope \in SUBSET (1 .. Len(accounts)), NEW p,
         Describes(p, scope), NEW members \in MayMember(scope)
  PROVE  /\ roleHolders(p.users) \subseteq members
         /\ p.why = NoWhy /\ dir.usersMiss = NoWhy /\ holdersMiss(p) = NoWhy =>
              members = roleHolders(p.users)
<1>1. PICK ids \in MayHold(scope, "User", Roles, Users) :
             members = ids \cap (dir.users \ dir.disabled)
  BY DEF MayMember
<1>2. p.users = SeenHolders(scope, "User", Roles)
  BY Zenon DEF Describes
<1>3. p.users \subseteq ids
  BY <1>2, HoldersOf
<1>4. p.why = NoWhy /\ holdersMiss(p) = NoWhy => ids = p.users
  BY <1>2, HoldersOf, NothingMissing
<1>. QED
  BY <1>1, <1>3, <1>4 DEF roleHolders

LEMMA KnownAdmins ==
  ASSUME AccountsTyped, NEW scope \in SUBSET (1 .. Len(accounts)), NEW p,
         Describes(p, scope), NEW admins \in MayAdmin(scope)
  PROVE  /\ roleHolders(p.admins) \subseteq admins
         /\ p.why = NoWhy /\ dir.usersMiss = NoWhy /\ adminHoldersMiss(p) = NoWhy =>
              admins = roleHolders(p.admins)
<1>1. PICK ids \in MayHold(scope, "User", {"admin"}, Users) :
             admins = ids \cap (dir.users \ dir.disabled)
  BY DEF MayAdmin
<1>2. p.admins = SeenHolders(scope, "User", {"admin"})
  BY Zenon DEF Describes
<1>3. p.admins \subseteq ids
  BY <1>2, HoldersOf
<1>4. p.why = NoWhy /\ adminHoldersMiss(p) = NoWhy => ids = p.admins
  BY <1>2, HoldersOf, NothingMissing
<1>. QED
  BY <1>1, <1>3, <1>4 DEF roleHolders

LEMMA KnownCredentials ==
  ASSUME AccountsTyped, NEW scope \in SUBSET (1 .. Len(accounts)), NEW p,
         Describes(p, scope), NEW ids \in MayCredential(scope),
         NEW writers \in MayWrite(scope)
  PROVE  /\ p.servicePrincipals \subseteq ids
         /\ p.why = NoWhy /\ holdersMiss(p) = NoWhy =>
              ids = p.servicePrincipals /\ writers = p.writers
<1>1. /\ p.servicePrincipals = SeenHolders(scope, "ServicePrincipal", Roles)
      /\ p.writers = SeenHolders(scope, "ServicePrincipal", Roles \ {"reader"})
  BY Zenon DEF Describes
<1>2. /\ ids \in MayHold(scope, "ServicePrincipal", Roles, ServicePrincipals)
      /\ writers \in MayHold(scope, "ServicePrincipal", Roles \ {"reader"}, ServicePrincipals)
  BY DEF MayCredential, MayWrite
<1>3. p.servicePrincipals \subseteq ids
  BY <1>1, <1>2, HoldersOf
<1>4. p.why = NoWhy /\ holdersMiss(p) = NoWhy => ids = p.servicePrincipals
  BY <1>1, <1>2, HoldersOf, NothingMissing
<1>5. p.why = NoWhy /\ holdersMiss(p) = NoWhy => writers = p.writers
  BY <1>1, <1>2, HoldersOf, NothingMissing
<1>. QED
  BY <1>3, <1>4, <1>5

(* What is known is finite.                                                *)
LEMMA KnownFinite ==
  ASSUME AccountsTyped, NEW scope \in SUBSET (1 .. Len(accounts)), NEW p,
         Describes(p, scope)
  PROVE  /\ IsFiniteSet(roleHolders(p.users)) /\ IsFiniteSet(roleHolders(p.admins))
         /\ IsFiniteSet(p.servicePrincipals) /\ IsFiniteSet(p.writers)
<1>1. /\ IsFiniteSet(p.users) /\ IsFiniteSet(p.admins)
      /\ IsFiniteSet(p.servicePrincipals) /\ IsFiniteSet(p.writers)
  <2>1. /\ p.users = SeenHolders(scope, "User", Roles)
        /\ p.admins = SeenHolders(scope, "User", {"admin"})
        /\ p.servicePrincipals = SeenHolders(scope, "ServicePrincipal", Roles)
        /\ p.writers = SeenHolders(scope, "ServicePrincipal", Roles \ {"reader"})
    BY Zenon DEF Describes
  <2>2. \A type, roles : IsFiniteSet(SeenHolders(scope, type, roles))
    BY SeenTyped
  <2>. QED
    BY <2>1, <2>2, Zenon
<1>2. roleHolders(p.users) \in SUBSET p.users /\ roleHolders(p.admins) \in SUBSET p.admins
  BY DEF roleHolders
<1>. QED
  BY <1>1, <1>2, FS_Subset

-----------------------------------------------------------------------------
(* A value of a field of members, from what it says of the known ones.     *)
LEMMA SharedTrue ==
  ASSUME NEW cf \in Counts, NEW pf \in Shares, NEW c, NEW part, NEW whole,
         IsFiniteSet(whole), \A n \in c.ns : n = Cardinality(part),
         NEW v \in CountAndShare(cf, pf, c, Cardinality(whole)).values
  PROVE  v.at \in {cf, pf} /\ Has(v, part, whole)
<1>1. v \in count(cf, c.ns) \/ v \in share(pf, c.ns, Cardinality(whole))
  BY BlockIs DEF CountAndShare
<1>2. CASE v \in count(cf, c.ns)
  BY <1>2, CountIs, CountHolds
<1>3. CASE v \in share(pf, c.ns, Cardinality(whole))
  <2>1. /\ v.at = pf /\ v.of = Cardinality(whole)
        /\ Cardinality(whole) = 0 => v.num = 0
        /\ Cardinality(whole) # 0 => v.num \in c.ns
    BY <1>3, ShareIs
  <2>. QED
    BY <2>1, ShareHolds
<1>. QED
  BY <1>1, <1>2, <1>3

LEMMA InactiveIs ==
  ASSUME NEW members, NEW n \in inactiveMembers(members).ns
  PROVE  n = Cardinality(members \ dir.signedIn)
<1>1. CASE members = {}
  <2>1. n = 0
    BY <1>1 DEF inactiveMembers
  <2>2. members \ dir.signedIn = {}
    BY <1>1
  <2>. QED
    BY <2>1, <2>2, FS_EmptySet
<1>2. CASE members # {}
  BY <1>2 DEF inactiveMembers
<1>. QED
  BY <1>1, <1>2

LEMMA MembersTrue ==
  ASSUME AccountsTyped, NEW scope \in SUBSET (1 .. Len(accounts)), NEW p,
         Describes(p, scope)
  PROVE  TrueBlock(accessMembers(p), scope)
<1>. DEFINE members == roleHolders(p.users)
            guests == Cardinality(members \cap dir.guests)
            n == Cardinality(members)
            why == firstMissing(firstMissing(p.why, dir.usersMiss), holdersMiss(p))
            presences == Both(present("members_present", n, why),
                          present("external_members_present", guests, why))
            counted == Both(Block(count("member_count", {n}), {}),
                            Block(count("external_member_count", {guests}), {}))
            sso == CountAndShare("sso_member_count", "sso_coverage_pct",
                                 [ns |-> {n}, why |-> NoWhy], n)
            inactive == CountAndShare("inactive_member_count", "inactive_pct",
                                      inactiveMembers(members), n)
<1>1. accessMembers(p) =
        Both(presences, IF why # NoWhy
                    THEN Block({}, leaveOut(why, MemberFields \ Presences))
                    ELSE Both(counted, Both(sso, inactive)))
  BY DEF accessMembers
<1>2. ASSUME NEW ms \in MayMember(scope)
      PROVE  members \subseteq ms /\ (why = NoWhy => ms = members)
  BY KnownMembers, FirstMissing
<1>3. IsFiniteSet(members) /\ IsFiniteSet(members \cap dir.guests)
  BY KnownFinite, FS_Subset
<1>. HIDE DEF members, why
<1>4. ASSUME NEW v \in present("members_present", n, why).values PROVE IsTrue(v, scope)
  <2>1. /\ v.at = "members_present"
        /\ n > 0 => v.num = 1
        /\ n = 0 => why = NoWhy /\ v.num = 0
    BY <1>3, PresentIs, FS_CardinalityType
  <2>2. v.at \in MemberFields /\ v.at \in Presences
    BY <2>1 DEF MemberFields, Presences
  <2>3. ASSUME NEW ms \in MayMember(scope) PROVE Has(v, ms, ms)
    <3>1. members \in SUBSET ms /\ (why = NoWhy => ms = members)
      BY <1>2
    <3>. QED
      BY <1>2, <1>3, <2>1, <2>2, <3>1, PresenceOfHolds
  <2>4. \A ms \in MayMember(scope) : TrueOfMembers(v, ms)
    BY <2>1, <2>3 DEF TrueOfMembers
  <2>. QED
    BY <2>2, <2>4, MemberTruth
<1>5. ASSUME NEW v \in present("external_members_present", guests, why).values
      PROVE  IsTrue(v, scope)
  <2>1. /\ v.at = "external_members_present"
        /\ guests > 0 => v.num = 1
        /\ guests = 0 => why = NoWhy /\ v.num = 0
    BY <1>3, PresentIs, FS_CardinalityType
  <2>2. v.at \in MemberFields /\ v.at \in Presences
    BY <2>1 DEF MemberFields, Presences
  <2>3. ASSUME NEW ms \in MayMember(scope) PROVE Has(v, ms \cap dir.guests, ms)
    <3>. DEFINE known == members \cap dir.guests
                part == ms \cap dir.guests
    <3>1. known \in SUBSET part /\ (why = NoWhy => part = known)
      BY <1>2
    <3>2. /\ IsFiniteSet(known)
          /\ Cardinality(known) > 0 => v.num = 1
          /\ Cardinality(known) = 0 => why = NoWhy /\ v.num = 0
      BY <1>3, <2>1
    <3>. HIDE DEF known, part
    <3>3. Has(v, part, ms)
      BY <2>2, <3>1, <3>2, PresenceOfHolds
    <3>. QED
      BY <3>3 DEF part
  <2>4. \A ms \in MayMember(scope) : TrueOfMembers(v, ms)
    BY <2>1, <2>3 DEF TrueOfMembers
  <2>. QED
    BY <2>2, <2>4, MemberTruth
<1>6. TrueBlock(presences, scope)
  BY <1>4, <1>5, BothIs DEF TrueBlock
<1>7. ASSUME why = NoWhy PROVE TrueBlock(Both(counted, Both(sso, inactive)), scope)
  <2>1. \A ms \in MayMember(scope) : ms = members
    BY <1>2, <1>7
  <2>2. ASSUME NEW v \in counted.values PROVE IsTrue(v, scope)
    <3>1. \/ v \in count("member_count", {n})
          \/ v \in count("external_member_count", {guests})
      BY BothIs, BlockIs
    <3>2. \/ v.at = "member_count" /\ v.num = n
          \/ v.at = "external_member_count" /\ v.num = guests
      <4>1. ASSUME v \in count("member_count", {n}) PROVE v.at = "member_count" /\ v.num = n
        BY <4>1, CountIs
      <4>2. ASSUME v \in count("external_member_count", {guests})
            PROVE  v.at = "external_member_count" /\ v.num = guests
        BY <4>2, CountIs
      <4>. QED
        BY <3>1, <4>1, <4>2
    <3>3. v.at \in MemberFields /\ v.at \in Counts
      BY <3>2 DEF MemberFields, MemberCounts, Counts
    <3>4. /\ v.at = "member_count" => Has(v, members, members)
          /\ v.at = "external_member_count" => Has(v, members \cap dir.guests, members)
      BY <3>2, <3>3, CountHolds
    <3>5. TrueOfMembers(v, members)
      BY <3>2, <3>4 DEF TrueOfMembers
    <3>. QED
      BY <2>1, <3>3, <3>5, MemberTruth
  <2>3. ASSUME NEW v \in sso.values PROVE IsTrue(v, scope)
    <3>1. "sso_member_count" \in Counts /\ "sso_coverage_pct" \in Shares
      BY DEF Counts, MemberCounts, Shares
    <3>2. v.at \in {"sso_member_count", "sso_coverage_pct"} /\ Has(v, members, members)
      BY <1>3, <3>1, SharedTrue
    <3>3. v.at \in MemberFields
      BY <3>2 DEF MemberFields, MemberCounts
    <3>4. TrueOfMembers(v, members)
      BY <3>2 DEF TrueOfMembers
    <3>. QED
      BY <2>1, <3>3, <3>4, MemberTruth
  <2>4. ASSUME NEW v \in inactive.values PROVE IsTrue(v, scope)
    <3>1. "inactive_member_count" \in Counts /\ "inactive_pct" \in Shares
      BY DEF Counts, MemberCounts, Shares
    <3>2. \A m \in inactiveMembers(members).ns : m = Cardinality(members \ dir.signedIn)
      BY InactiveIs
    <3>3. /\ v.at \in {"inactive_member_count", "inactive_pct"}
          /\ Has(v, members \ dir.signedIn, members)
      BY <1>3, <3>1, <3>2, SharedTrue
    <3>4. v.at \in MemberFields
      BY <3>3 DEF MemberFields, MemberCounts
    <3>5. TrueOfMembers(v, members)
      BY <3>3 DEF TrueOfMembers
    <3>. QED
      BY <2>1, <3>4, <3>5, MemberTruth
  <2>. QED
    BY <2>2, <2>3, <2>4, BothIs DEF TrueBlock
<1>. HIDE DEF presences, counted, sso, inactive
<1>8. CASE why = NoWhy
  BY <1>1, <1>6, <1>7, <1>8, BothTrue
<1>9. CASE why # NoWhy
  BY <1>1, <1>6, <1>9, BothTrue, NothingIsTrue
<1>. QED
  BY <1>8, <1>9

LEMMA AdminsTrue ==
  ASSUME AccountsTyped, NEW scope \in SUBSET (1 .. Len(accounts)), NEW p,
         Describes(p, scope)
  PROVE  TrueBlock(accessAdmins(p), scope)
<1>. DEFINE known == roleHolders(p.admins)
            n == Cardinality(known)
            why == firstMissing(firstMissing(p.why, dir.usersMiss), adminHoldersMiss(p))
            flag == present("admins_present", n, why)
            counted == Block(count("admin_count", {n}), {})
            shared == Block(share("admin_share_pct", {n},
                                  Cardinality(roleHolders(p.users))), {})
            allUnknown == Block({}, leaveOut(why, {"admin_count", "admin_share_pct"}))
            shareUnknown == Block({}, leaveOut(holdersMiss(p), {"admin_share_pct"}))
<1>1. accessAdmins(p) =
        Both(flag, IF why # NoWhy THEN allUnknown ELSE Both(counted, adminShare(p, n)))
  BY DEF accessAdmins
<1>2. adminShare(p, n) = IF holdersMiss(p) # NoWhy THEN shareUnknown ELSE shared
  BY DEF adminShare
<1>3. ASSUME NEW admins \in MayAdmin(scope)
      PROVE  known \in SUBSET admins /\ (why = NoWhy => admins = known)
  BY KnownAdmins, FirstMissing
<1>4. IsFiniteSet(known) /\ IsFiniteSet(roleHolders(p.users))
  BY KnownFinite
<1>5. why = NoWhy => p.why = NoWhy /\ dir.usersMiss = NoWhy
  BY FirstMissing
<1>. HIDE DEF known, why
<1>6. ASSUME NEW v \in flag.values PROVE IsTrue(v, scope)
  <2>1. /\ v.at = "admins_present"
        /\ n > 0 => v.num = 1
        /\ n = 0 => why = NoWhy /\ v.num = 0
    BY <1>4, PresentIs, FS_CardinalityType
  <2>2. v.at \in AdminFields /\ v.at \in Presences
    BY <2>1 DEF AdminFields, Presences
  <2>3. ASSUME NEW admins \in MayAdmin(scope), NEW members PROVE Has(v, admins, members)
    BY <1>3, <1>4, <2>1, <2>2, PresenceOfHolds
  <2>. QED
    BY <2>2, <2>3, AdminTruth
<1>7. ASSUME why = NoWhy, NEW v \in counted.values PROVE IsTrue(v, scope)
  <2>1. v.at = "admin_count" /\ v.num = n
    BY BlockIs, CountIs
  <2>2. v.at \in AdminFields /\ v.at \in Counts
    BY <2>1 DEF AdminFields, Counts
  <2>3. ASSUME NEW admins \in MayAdmin(scope), NEW members PROVE Has(v, admins, members)
    BY <1>3, <1>7, <2>1, <2>2, CountHolds
  <2>. QED
    BY <2>2, <2>3, AdminTruth
<1>8. ASSUME why = NoWhy, holdersMiss(p) = NoWhy, NEW v \in shared.values
      PROVE  IsTrue(v, scope)
  <2>. DEFINE whole == roleHolders(p.users)
  <2>1. v \in share("admin_share_pct", {n}, Cardinality(whole))
    BY BlockIs
  <2>2. \A members \in MayMember(scope) : members = whole
    BY <1>5, <1>8, KnownMembers
  <2>. HIDE DEF whole
  <2>3. /\ v.at = "admin_share_pct" /\ v.of = Cardinality(whole)
        /\ Cardinality(whole) = 0 => v.num = 0
        /\ Cardinality(whole) # 0 => v.num \in {n}
    BY <2>1, ShareIs
  <2>4. v.at \in AdminFields /\ v.at \in Shares
    BY <2>3 DEF AdminFields, Shares
  <2>5. Has(v, known, whole)
    <3>1. IsFiniteSet(whole)
      BY <1>4 DEF whole
    <3>. DEFINE ns == {n}
    <3>2. (\A m \in ns : m = Cardinality(known)) /\ (v.num = n => v.num \in ns)
      OBVIOUS
    <3>. HIDE DEF ns
    <3>3. Cardinality(whole) # 0 => v.num \in ns
      BY <2>3, <3>2
    <3>. QED
      BY <2>3, <2>4, <3>1, <3>2, <3>3, ShareHolds
  <2>6. ASSUME NEW admins \in MayAdmin(scope), NEW members \in MayMember(scope)
        PROVE  Has(v, admins, members)
    BY <1>3, <1>8, <2>2, <2>5
  <2>. QED
    BY <2>4, <2>6, AdminTruth
<1>. HIDE DEF flag, counted, shared
<1>9. TrueBlock(flag, scope)
  BY <1>6 DEF TrueBlock
<1>10. why = NoWhy => TrueBlock(counted, scope)
  BY <1>7 DEF TrueBlock
<1>11. why = NoWhy /\ holdersMiss(p) = NoWhy => TrueBlock(shared, scope)
  BY <1>8 DEF TrueBlock
<1>12. TrueBlock(allUnknown, scope) /\ TrueBlock(shareUnknown, scope)
  BY NothingIsTrue
<1>. HIDE DEF allUnknown, shareUnknown
<1>13. why = NoWhy => TrueBlock(adminShare(p, n), scope)
  BY <1>2, <1>11, <1>12
<1>14. why = NoWhy => TrueBlock(Both(counted, adminShare(p, n)), scope)
  BY <1>10, <1>13, BothTrue
<1>15. TrueBlock(IF why # NoWhy THEN allUnknown ELSE Both(counted, adminShare(p, n)), scope)
  BY <1>12, <1>14
<1>. QED
  BY <1>1, <1>9, <1>15, BothTrue

LEMMA CountedCredentials ==
  ASSUME NEW ids, NEW matching,
         NEW m \in countServicePrincipalCredentials(ids, matching).ns
  PROVE  m = Cardinality(ids \cap matching)
<1>1. CASE ids = {}
  <2>1. m = 0
    BY <1>1 DEF countServicePrincipalCredentials
  <2>2. ids \cap matching = {}
    BY <1>1
  <2>. QED
    BY <2>1, <2>2, FS_EmptySet
<1>2. CASE ids # {}
  BY <1>2 DEF countServicePrincipalCredentials
<1>. QED
  BY <1>1, <1>2

LEMMA EnabledCounted ==
  ASSUME NEW ids, NEW m \in enabledServicePrincipals(ids).ns
  PROVE  m = Cardinality(ids \ dir.disabledApps)
<1>1. CASE ids = {}
  <2>1. m = 0
    BY <1>1 DEF enabledServicePrincipals
  <2>2. ids \ dir.disabledApps = {}
    BY <1>1
  <2>. QED
    BY <2>1, <2>2, FS_EmptySet
<1>2. CASE ids # {}
  BY <1>2 DEF enabledServicePrincipals
<1>. QED
  BY <1>1, <1>2

(* A number that is 0 when nobody is concerned, and none otherwise.        *)
LEMMA NoneCounted ==
  ASSUME NEW S, NEW none, none <=> S = {}, NEW why,
         NEW m \in (IF none THEN [ns |-> {0}, why |-> NoWhy]
                             ELSE [ns |-> {}, why |-> why]).ns,
         NEW part \in SUBSET S
  PROVE  m = Cardinality(part)
<1>1. none /\ m = 0
  OBVIOUS
<1>2. part = {}
  BY <1>1
<1>. QED
  BY <1>1, <1>2, FS_EmptySet

LEMMA CredentialsTrue ==
  ASSUME AccountsTyped, NEW scope \in SUBSET (1 .. Len(accounts)), NEW p,
         Describes(p, scope)
  PROVE  TrueBlock(accessCredentials(p), scope)
<1>. DEFINE ids == p.servicePrincipals
            n == Cardinality(ids)
            why == firstMissing(p.why, holdersMiss(p))
            flag == present("credentials_present", n, why)
            counted == Block(count("credential_count", {n}), {})
            limits == IF p.writers = {} THEN [ns |-> {0}, why |-> NoWhy]
                      ELSE [ns |-> {}, why |-> "service_principal_limits"]
            use == IF n = 0 THEN [ns |-> {0}, why |-> NoWhy]
                   ELSE [ns |-> {}, why |-> "service_principal_use"]
            never == CountAndShare("never_expiring_credential_count", "never_expiring_pct",
                       countServicePrincipalCredentials(ids, dir.neverExpiring), n)
            write == CountAndShare("write_access_credential_count", "write_access_pct",
                       enabledServicePrincipals(p.writers), n)
            overdue == CountAndShare("rotation_overdue_credential_count",
                         "rotation_overdue_pct",
                         countServicePrincipalCredentials(ids, dir.overdue), n)
            unrestricted == CountAndShare("unrestricted_credential_count",
                              "unrestricted_pct", limits, n)
            unused == CountAndShare("unused_credential_count", "unused_pct", use, n)
            details == Both(Both(never, write), Both(overdue, Both(unrestricted, unused)))
            allUnknown == Block({}, leaveOut(why, CredentialFields \ Presences))
<1>1. accessCredentials(p) =
        Both(flag, IF why # NoWhy THEN allUnknown ELSE Both(counted, details))
  BY DEF accessCredentials
<1>2. ASSUME NEW may \in MayCredential(scope), NEW writers \in MayWrite(scope)
      PROVE  /\ ids \in SUBSET may
             /\ why = NoWhy => may = ids /\ writers = p.writers
  BY KnownCredentials, FirstMissing
<1>3. IsFiniteSet(ids)
  BY KnownFinite
<1>4. n = 0 <=> ids = {}
  BY <1>3, FS_EmptySet
<1>. HIDE DEF ids, why
(* A value that is true of the known ones is true once nothing is missing. *)
<1>5. ASSUME why = NoWhy, NEW v, v.at \in CredentialFields,
             TrueOfCredentials(v, ids, p.writers)
      PROVE  IsTrue(v, scope)
  <2>1. ASSUME NEW may \in MayCredential(scope), NEW writers \in MayWrite(scope)
        PROVE  TrueOfCredentials(v, may, writers)
    BY <1>2, <1>5
  <2>. QED
    BY <1>5, <2>1, CredentialTruth
<1>6. ASSUME NEW v \in flag.values PROVE IsTrue(v, scope)
  <2>1. /\ v.at = "credentials_present"
        /\ n > 0 => v.num = 1
        /\ n = 0 => why = NoWhy /\ v.num = 0
    BY <1>3, PresentIs, FS_CardinalityType
  <2>2. v.at \in CredentialFields /\ v.at \in Presences
    BY <2>1 DEF CredentialFields, Presences
  <2>3. ASSUME NEW may \in MayCredential(scope), NEW writers \in MayWrite(scope)
        PROVE  TrueOfCredentials(v, may, writers)
    <3>1. Has(v, may, may)
      BY <1>2, <1>3, <2>1, <2>2, PresenceOfHolds
    <3>. QED
      BY <2>1, <3>1 DEF TrueOfCredentials
  <2>. QED
    BY <2>2, <2>3, CredentialTruth
<1>7. ASSUME why = NoWhy, NEW v \in counted.values PROVE IsTrue(v, scope)
  <2>1. v.at = "credential_count" /\ v.num = n
    BY BlockIs, CountIs
  <2>2. v.at \in CredentialFields /\ v.at \in Counts
    BY <2>1 DEF CredentialFields, CredentialCounts, Counts
  <2>3. Has(v, ids, ids)
    BY <2>1, <2>2, CountHolds
  <2>4. TrueOfCredentials(v, ids, p.writers)
    BY <2>1, <2>3 DEF TrueOfCredentials
  <2>. QED
    BY <1>5, <1>7, <2>2, <2>4
<1>8. ASSUME why = NoWhy, NEW v \in never.values PROVE IsTrue(v, scope)
  <2>1. "never_expiring_credential_count" \in Counts /\ "never_expiring_pct" \in Shares
    BY DEF Counts, CredentialCounts, Shares
  <2>2. \A m \in countServicePrincipalCredentials(ids, dir.neverExpiring).ns :
          m = Cardinality(ids \cap dir.neverExpiring)
    BY CountedCredentials
  <2>3. /\ v.at \in {"never_expiring_credential_count", "never_expiring_pct"}
        /\ Has(v, ids \cap dir.neverExpiring, ids)
    BY <1>3, <2>1, <2>2, SharedTrue
  <2>4. v.at \in CredentialFields
    BY <2>3 DEF CredentialFields, CredentialCounts
  <2>5. TrueOfCredentials(v, ids, p.writers)
    BY <2>3 DEF TrueOfCredentials
  <2>. QED
    BY <1>5, <1>8, <2>4, <2>5
<1>9. ASSUME why = NoWhy, NEW v \in overdue.values PROVE IsTrue(v, scope)
  <2>1. "rotation_overdue_credential_count" \in Counts /\ "rotation_overdue_pct" \in Shares
    BY DEF Counts, CredentialCounts, Shares
  <2>2. \A m \in countServicePrincipalCredentials(ids, dir.overdue).ns :
          m = Cardinality(ids \cap dir.overdue)
    BY CountedCredentials
  <2>3. /\ v.at \in {"rotation_overdue_credential_count", "rotation_overdue_pct"}
        /\ Has(v, ids \cap dir.overdue, ids)
    BY <1>3, <2>1, <2>2, SharedTrue
  <2>4. v.at \in CredentialFields
    BY <2>3 DEF CredentialFields, CredentialCounts
  <2>5. TrueOfCredentials(v, ids, p.writers)
    BY <2>3 DEF TrueOfCredentials
  <2>. QED
    BY <1>5, <1>9, <2>4, <2>5
<1>10. ASSUME why = NoWhy, NEW v \in write.values PROVE IsTrue(v, scope)
  <2>1. "write_access_credential_count" \in Counts /\ "write_access_pct" \in Shares
    BY DEF Counts, CredentialCounts, Shares
  <2>2. \A m \in enabledServicePrincipals(p.writers).ns :
          m = Cardinality(p.writers \ dir.disabledApps)
    BY EnabledCounted
  <2>3. /\ v.at \in {"write_access_credential_count", "write_access_pct"}
        /\ Has(v, p.writers \ dir.disabledApps, ids)
    BY <1>3, <2>1, <2>2, SharedTrue
  <2>4. v.at \in CredentialFields
    BY <2>3 DEF CredentialFields, CredentialCounts
  <2>5. TrueOfCredentials(v, ids, p.writers)
    BY <2>3 DEF TrueOfCredentials
  <2>. QED
    BY <1>5, <1>10, <2>4, <2>5
<1>11. ASSUME why = NoWhy, NEW v \in unrestricted.values PROVE IsTrue(v, scope)
  <2>1. "unrestricted_credential_count" \in Counts /\ "unrestricted_pct" \in Shares
    BY DEF Counts, CredentialCounts, Shares
  <2>2. ASSUME NEW part \in SUBSET p.writers, NEW m \in limits.ns PROVE m = Cardinality(part)
    BY NoneCounted
  <2>. HIDE DEF limits
  <2>3. ASSUME NEW part \in SUBSET p.writers
        PROVE  /\ v.at \in {"unrestricted_credential_count", "unrestricted_pct"}
               /\ Has(v, part, ids)
    BY <1>3, <2>1, <2>2, SharedTrue
  <2>4. v.at \in CredentialFields
    BY <2>3 DEF CredentialFields, CredentialCounts
  <2>5. TrueOfCredentials(v, ids, p.writers)
    BY <2>3 DEF TrueOfCredentials
  <2>. QED
    BY <1>5, <1>11, <2>4, <2>5
<1>12. ASSUME why = NoWhy, NEW v \in unused.values PROVE IsTrue(v, scope)
  <2>1. "unused_credential_count" \in Counts /\ "unused_pct" \in Shares
    BY DEF Counts, CredentialCounts, Shares
  <2>2. ASSUME NEW part \in SUBSET ids, NEW m \in use.ns PROVE m = Cardinality(part)
    BY <1>4, NoneCounted
  <2>. HIDE DEF use
  <2>3. ASSUME NEW part \in SUBSET ids
        PROVE  /\ v.at \in {"unused_credential_count", "unused_pct"}
               /\ Has(v, part, ids)
    BY <1>3, <2>1, <2>2, SharedTrue
  <2>4. v.at \in CredentialFields
    BY <2>3 DEF CredentialFields, CredentialCounts
  <2>5. TrueOfCredentials(v, ids, p.writers)
    BY <2>3 DEF TrueOfCredentials
  <2>. QED
    BY <1>5, <1>12, <2>4, <2>5
<1>. HIDE DEF flag, counted, never, write, overdue, unrestricted, unused
<1>13. TrueBlock(flag, scope)
  BY <1>6 DEF TrueBlock
<1>14. ASSUME why = NoWhy
       PROVE  /\ TrueBlock(counted, scope) /\ TrueBlock(never, scope)
              /\ TrueBlock(write, scope) /\ TrueBlock(overdue, scope)
              /\ TrueBlock(unrestricted, scope) /\ TrueBlock(unused, scope)
  BY <1>7, <1>8, <1>9, <1>10, <1>11, <1>12, <1>14 DEF TrueBlock
<1>15. why = NoWhy => TrueBlock(Both(counted, details), scope)
  <2>1. why = NoWhy => /\ TrueBlock(Both(never, write), scope)
                       /\ TrueBlock(Both(unrestricted, unused), scope)
    BY <1>14, BothTrue
  <2>2. why = NoWhy => TrueBlock(Both(overdue, Both(unrestricted, unused)), scope)
    BY <1>14, <2>1, BothTrue
  <2>3. why = NoWhy => TrueBlock(details, scope)
    BY <2>1, <2>2, BothTrue
  <2>. HIDE DEF details
  <2>. QED
    BY <1>14, <2>3, BothTrue
<1>16. TrueBlock(allUnknown, scope)
  BY NothingIsTrue
<1>. HIDE DEF details, allUnknown
<1>17. TrueBlock(IF why # NoWhy THEN allUnknown ELSE Both(counted, details), scope)
  BY <1>15, <1>16
<1>. QED
  BY <1>1, <1>13, <1>17, BothTrue

LEMMA SectionsTrue ==
  ASSUME AccountsTyped, NEW scope \in SUBSET (1 .. Len(accounts)), NEW p,
         Describes(p, scope)
  PROVE  TrueBlock(accessSections(p), scope)
BY MembersTrue, AdminsTrue, CredentialsTrue, BothTrue DEF accessSections

-----------------------------------------------------------------------------
(* Nothing that is said of a scope changes during a run.                   *)
LEMMA ScopesStay ==
  ASSUME UNCHANGED <<accounts, dir, level>>
  PROVE  /\ \A p, scope : Describes(p, scope)' <=> Describes(p, scope)
         /\ \A v, scope : IsTrue(v, scope)' <=> IsTrue(v, scope)
         /\ \A place : Scope(place)' = Scope(place)
         /\ AccountsTyped' <=> AccountsTyped
<1>1. \A scope : /\ Seen(scope)' = Seen(scope)
                 /\ Unread(scope)' = Unread(scope)
  BY DEF Seen, Unread
<1>2. \A scope : Unsorted(scope)' = Unsorted(scope)
  BY <1>1 DEF Unsorted
<1>3. \A scope, type, roles :
        SeenHolders(scope, type, roles)' = SeenHolders(scope, type, roles)
  BY <1>1 DEF SeenHolders
<1>4. \A p, scope : Describes(p, scope)' <=> Describes(p, scope)
  BY <1>1, <1>2, <1>3 DEF Describes
<1>5. \A scope, type, roles, everyone :
        MayHold(scope, type, roles, everyone)' = MayHold(scope, type, roles, everyone)
  BY <1>1, <1>2, <1>3 DEF MayHold
<1>6. \A scope : /\ MayMember(scope)' = MayMember(scope)
                 /\ MayAdmin(scope)' = MayAdmin(scope)
                 /\ MayCredential(scope)' = MayCredential(scope)
                 /\ MayWrite(scope)' = MayWrite(scope)
  BY <1>5 DEF MayMember, MayAdmin, MayCredential, MayWrite
<1>7. /\ \A v, members : TrueOfMembers(v, members)' <=> TrueOfMembers(v, members)
      /\ \A v, ids, writers :
           TrueOfCredentials(v, ids, writers)' <=> TrueOfCredentials(v, ids, writers)
  BY DEF TrueOfMembers, TrueOfCredentials
<1>8. \A v, scope : IsTrue(v, scope)' <=> IsTrue(v, scope)
  BY <1>6, <1>7 DEF IsTrue
<1>9. \A place : Scope(place)' = Scope(place)
  BY DEF Scope
<1>10. AccountsTyped' <=> AccountsTyped
  BY DEF AccountsTyped
<1>. QED
  BY <1>4, <1>8, <1>9, <1>10

(* The total stands for the subscriptions merged so far.                   *)
AccessInv ==
  /\ AccountsTyped
  /\ subscription \in 1 .. Len(accounts) + 1
  /\ Describes(total, 1 .. subscription - 1)
  /\ WrittenValuesAreTrue

LEMMA EmittedTrue ==
  ASSUME NEW place, NEW block, Emit(place, block), WrittenValuesAreTrue,
         TrueBlock(block, Scope(place)), UNCHANGED <<accounts, dir, level>>
  PROVE  WrittenValuesAreTrue'
<1>1. ASSUME NEW w \in values' PROVE IsTrue(w, Scope(w.place))
  <2>1. CASE w \in values
    BY <2>1 DEF WrittenValuesAreTrue
  <2>2. CASE w \notin values
    <3>1. PICK v \in block.values :
            w = [place |-> place, at |-> v.at, num |-> v.num, of |-> v.of]
      BY <2>2 DEF Emit
    <3>2. w.place = place /\ w.at = v.at /\ w.num = v.num /\ w.of = v.of
      BY <3>1
    <3>3. \A part, whole : Has(v, part, whole) => Has(w, part, whole)
      BY <3>2 DEF Has
    <3>4. /\ \A members : TrueOfMembers(v, members) => TrueOfMembers(w, members)
          /\ \A ids, writers : TrueOfCredentials(v, ids, writers) =>
                                TrueOfCredentials(w, ids, writers)
      BY <3>2, <3>3 DEF TrueOfMembers, TrueOfCredentials
    <3>5. IsTrue(v, Scope(place))
      BY DEF TrueBlock
    <3>6. IsTrue(w, Scope(place))
      BY <3>2, <3>3, <3>4, <3>5 DEF IsTrue
    <3>. QED
      BY <3>2, <3>6
  <2>. QED
    BY <2>1, <2>2
<1>. QED
  BY <1>1, ScopesStay DEF WrittenValuesAreTrue

LEMMA AccessInit_Inv ==
  ASSUME AccessInit
  PROVE  AccessInv
<1>1. AccountsTyped
  BY TenanciesAssumption DEF AccessInit, AccountsTyped
<1>2. Len(accounts) \in Nat
  BY <1>1 DEF AccountsTyped
<1>3. subscription \in 1 .. Len(accounts) + 1
  BY <1>2 DEF AccessInit
<1>4. 1 .. subscription - 1 = {}
  BY DEF AccessInit
<1>5. Describes(total, 1 .. subscription - 1)
  BY <1>4, NothingSeen DEF AccessInit
<1>. QED
  BY <1>1, <1>3, <1>5 DEF AccessInit, AccessInv, WrittenValuesAreTrue

LEMMA MergeKeeps ==
  ASSUME AccessInv, Merge
  PROVE  /\ AccountsTyped'
         /\ (subscription \in 1 .. Len(accounts) + 1)'
         /\ Describes(total, 1 .. subscription - 1)'
         /\ subscription \in 1 .. Len(accounts)
         /\ UNCHANGED <<accounts, dir, level>>
<1>. DEFINE i == subscription
<1>1. Len(accounts) \in Nat /\ subscription \in 1 .. Len(accounts) + 1
  BY DEF AccessInv, AccountsTyped
<1>2. /\ subscription' = subscription + 1 /\ subscription <= Len(accounts)
      /\ UNCHANGED <<accounts, dir, level>>
      /\ total' = merge(total, subscriptionPopulation(accounts[subscription]))
  BY DEF Merge
<1>3. subscription \in 1 .. Len(accounts) /\ subscription' \in 1 .. Len(accounts) + 1
  BY <1>1, <1>2
<1>4. Describes(subscriptionPopulation(accounts[subscription]), {subscription})
  BY <1>3, SubscriptionStands DEF AccessInv
<1>5. Describes(total', 1 .. (subscription - 1) \cup {subscription})
  BY <1>2, <1>4, MergedStandsForBoth DEF AccessInv
<1>6. 1 .. (subscription - 1) \cup {subscription} = 1 .. (subscription' - 1)
  BY <1>2, <1>3
<1>7. Describes(total', 1 .. (subscription' - 1))
  BY <1>5, <1>6, Zenon
<1>. QED
  BY <1>2, <1>3, <1>7, ScopesStay DEF AccessInv

LEMMA AccessNext_Inv ==
  ASSUME AccessInv, [AccessNext]_accessVars
  PROVE  AccessInv'
<1>1. CASE MergeOnly
  <2>1. values' = values
    BY <1>1 DEF MergeOnly
  <2>2. Merge
    BY <1>1 DEF MergeOnly
  <2>3. UNCHANGED <<accounts, dir, level>>
    BY <2>2, MergeKeeps
  <2>4. WrittenValuesAreTrue'
    BY <2>1, <2>3, ScopesStay DEF AccessInv, WrittenValuesAreTrue
  <2>. QED
    BY <2>2, <2>4, MergeKeeps DEF AccessInv
<1>2. CASE LeaveOutScope
  <2>1. Merge /\ Emit(subscription, Block({}, leaveOut("unreadable", Fields)))
    BY <1>2 DEF LeaveOutScope
  <2>2. UNCHANGED <<accounts, dir, level>>
    BY <2>1, MergeKeeps
  <2>3. TrueBlock(Block({}, leaveOut("unreadable", Fields)), Scope(subscription))
    BY NothingIsTrue
  <2>4. WrittenValuesAreTrue'
    BY <2>1, <2>2, <2>3, EmittedTrue DEF AccessInv
  <2>. QED
    BY <2>1, <2>4, MergeKeeps DEF AccessInv
<1>3. CASE WriteScope
  <2>. DEFINE block == accessSections(subscriptionPopulation(accounts[subscription]))
  <2>1. Merge /\ Emit(subscription, block)
    BY <1>3 DEF WriteScope
  <2>2. UNCHANGED <<accounts, dir, level>> /\ subscription \in 1 .. Len(accounts)
    BY <2>1, MergeKeeps
  <2>3. TrueBlock(block, {subscription})
    BY <2>2, SubscriptionStands, SectionsTrue DEF AccessInv
  <2>4. Scope(subscription) = {subscription}
    BY <2>2 DEF Scope
  <2>. HIDE DEF block
  <2>5. WrittenValuesAreTrue'
    BY <2>1, <2>2, <2>3, <2>4, EmittedTrue DEF AccessInv
  <2>. QED
    BY <2>1, <2>5, MergeKeeps DEF AccessInv
<1>4. CASE WriteTotals
  <2>. DEFINE block == accessSections(total)
  <2>1. /\ Emit(0, block) /\ subscription > Len(accounts)
        /\ UNCHANGED <<accounts, dir, level, subscription, total>>
    BY <1>4 DEF WriteTotals
  <2>2. Len(accounts) \in Nat /\ subscription \in 1 .. Len(accounts) + 1
    BY DEF AccessInv, AccountsTyped
  <2>3. 1 .. subscription - 1 = 1 .. Len(accounts)
    BY <2>1, <2>2
  <2>4. TrueBlock(block, 1 .. Len(accounts))
    <3>1. Describes(total, 1 .. Len(accounts))
      BY <2>3, Zenon DEF AccessInv
    <3>. QED
      BY <3>1, SectionsTrue DEF AccessInv
  <2>5. Scope(0) = 1 .. Len(accounts)
    BY DEF Scope
  <2>. HIDE DEF block
  <2>6. WrittenValuesAreTrue'
    BY <2>1, <2>4, <2>5, EmittedTrue DEF AccessInv
  <2>. QED
    BY <2>1, <2>6, ScopesStay DEF AccessInv
<1>5. CASE NoSubscriptions
  <2>1. UNCHANGED <<accounts, dir, level, subscription, total, values>>
    BY <1>5 DEF NoSubscriptions
  <2>. QED
    BY <2>1, ScopesStay DEF AccessInv, WrittenValuesAreTrue
<1>6. CASE UNCHANGED accessVars
  <2>1. UNCHANGED <<accounts, dir, level, subscription, total, values>>
    BY <1>6 DEF accessVars
  <2>. QED
    BY <2>1, ScopesStay DEF AccessInv, WrittenValuesAreTrue
<1>. QED
  BY <1>1, <1>2, <1>3, <1>4, <1>5, <1>6 DEF AccessNext

(* What is written is true: a value of a scope holds of the scope whoever  *)
(* has the roles the collector could not see, for every tenancy of any     *)
(* number of subscriptions (collector.accessSections, addAccessPopulation).*)
THEOREM AccessValuesHold == AccessSpec => []WrittenValuesAreTrue
<1>1. AccessInit => AccessInv
  BY AccessInit_Inv
<1>2. AccessInv /\ [AccessNext]_accessVars => AccessInv'
  BY AccessNext_Inv
<1>3. AccessInv => WrittenValuesAreTrue
  BY DEF AccessInv
<1>. QED
  BY <1>1, <1>2, <1>3, PTL DEF AccessSpec

-----------------------------------------------------------------------------
(***************************************************************************)
(* A block covers fields when each has one value or one gap in it, and no  *)
(* other field has any.  Blocks of different fields cover all of them.     *)
(***************************************************************************)
At(entries, f) == {x \in entries : x.at = f}
Wanted(f) == audit \/ f \notin Counts

Answered(vs, gs) == \/ (\E v : vs = {v}) /\ gs = {}
                    \/ vs = {} /\ \E g : gs = {g}
Silent(vs, gs) == vs = {} /\ gs = {}

Covers(b, F) ==
  \A f : /\ f \in F /\ Wanted(f) => Answered(At(b.values, f), At(b.gaps, f))
         /\ ~(f \in F /\ Wanted(f)) => Silent(At(b.values, f), At(b.gaps, f))

LEMMA BothCover ==
  ASSUME NEW a, NEW b, NEW F, NEW G, Covers(a, F), Covers(b, G), F \cap G = {}
  PROVE  Covers(Both(a, b), F \cup G)
<1>. SUFFICES ASSUME NEW f
              PROVE  /\ f \in F \cup G /\ Wanted(f) =>
                          Answered(At(Both(a, b).values, f), At(Both(a, b).gaps, f))
                     /\ ~(f \in F \cup G /\ Wanted(f)) =>
                          Silent(At(Both(a, b).values, f), At(Both(a, b).gaps, f))
  BY DEF Covers
<1>. DEFINE av == At(a.values, f)  ag == At(a.gaps, f)
            bv == At(b.values, f)  bg == At(b.gaps, f)
<1>1. /\ At(Both(a, b).values, f) = av \cup bv
      /\ At(Both(a, b).gaps, f) = ag \cup bg
  BY BothIs DEF At
<1>2. /\ f \in F /\ Wanted(f) => Answered(av, ag)
      /\ ~(f \in F /\ Wanted(f)) => Silent(av, ag)
      /\ f \in G /\ Wanted(f) => Answered(bv, bg)
      /\ ~(f \in G /\ Wanted(f)) => Silent(bv, bg)
  BY DEF Covers
<1>. HIDE DEF av, ag, bv, bg
<1>3. /\ Silent(av, ag) => av \cup bv = bv /\ ag \cup bg = bg
      /\ Silent(bv, bg) => av \cup bv = av /\ ag \cup bg = ag
  BY DEF Silent
<1>4. CASE f \in F /\ Wanted(f)
  BY <1>1, <1>2, <1>3, <1>4
<1>5. CASE f \in G /\ Wanted(f)
  BY <1>1, <1>2, <1>3, <1>5
<1>6. CASE ~(f \in F \cup G /\ Wanted(f))
  BY <1>1, <1>2, <1>3, <1>6
<1>. QED
  BY <1>4, <1>5, <1>6

LEMMA OneValueCovers ==
  ASSUME NEW f, Wanted(f), NEW v, v.at = f
  PROVE  Covers(Block({v}, {}), {f})
<1>1. \A g : /\ At({v}, g) = IF g = f THEN {v} ELSE {}
             /\ At({}, g) = {}
  BY DEF At
<1>. QED
  BY <1>1, BlockIs DEF Covers, Answered, Silent

LEMMA NothingCovers ==
  ASSUME NEW F, \A f \in F : ~Wanted(f)
  PROVE  Covers(Block({}, {}), F)
<1>1. \A g : At({}, g) = {}
  BY DEF At
<1>. QED
  BY <1>1, BlockIs DEF Covers, Silent

LEMMA ValueCovers ==
  ASSUME NEW f, f \notin Counts, NEW num, NEW of
  PROVE  Covers(Block(Value(f, num, of), {}), {f})
BY OneValueCovers DEF Value, Wanted

LEMMA CountCovers ==
  ASSUME NEW f \in Counts, NEW n
  PROVE  Covers(Block(count(f, {n}), {}), {f})
<1>1. CASE audit
  <2>1. count(f, {n}) = {[at |-> f, num |-> n, of |-> 1]}
    BY <1>1 DEF count
  <2>. QED
    BY <1>1, <2>1, OneValueCovers DEF Wanted
<1>2. CASE ~audit
  <2>1. count(f, {n}) = {}
    BY <1>2 DEF count
  <2>. QED
    BY <1>2, <2>1, NothingCovers DEF Wanted
<1>. QED
  BY <1>1, <1>2

LEMMA ShareCovers ==
  ASSUME NEW f, f \notin Counts, NEW n, NEW size
  PROVE  Covers(Block(share(f, {n}, size), {}), {f})
<1>1. CASE size = 0
  BY <1>1, ValueCovers DEF share
<1>2. CASE size # 0
  <2>1. share(f, {n}, size) = {[at |-> f, num |-> n, of |-> size]}
    BY <1>2 DEF share
  <2>. QED
    BY <2>1, OneValueCovers DEF Wanted
<1>. QED
  BY <1>1, <1>2

LEMMA GapsCover ==
  ASSUME NEW why, why # NoWhy, NEW F
  PROVE  Covers(Block({}, leaveOut(why, F)), F)
<1>1. leaveOut(why, F) = {[at |-> f, why |-> why] : f \in {g \in F : Wanted(g)}}
  BY DEF leaveOut, Wanted
<1>2. \A f : At(leaveOut(why, F), f) =
               IF f \in F /\ Wanted(f) THEN {[at |-> f, why |-> why]} ELSE {}
  BY <1>1 DEF At
<1>3. \A f : At({}, f) = {}
  BY DEF At
<1>. QED
  BY <1>2, <1>3, BlockIs DEF Covers, Answered, Silent

LEMMA PresentCovers ==
  ASSUME NEW f, f \notin Counts, NEW n \in Nat, NEW why
  PROVE  Covers(present(f, n, why), {f})
<1>1. CASE n > 0
  BY <1>1, ValueCovers DEF present
<1>2. CASE n = 0 /\ why # NoWhy
  BY <1>2, GapsCover DEF present
<1>3. CASE n = 0 /\ why = NoWhy
  <2>1. present(f, n, why) = Block(Value(f, 0, 1), {})
    BY <1>3 DEF present
  <2>. QED
    BY <2>1, ValueCovers
<1>. QED
  BY <1>1, <1>2, <1>3

(* A count that was made, or could not be.                                 *)
CountMade(c, n) == \/ (\E m : c.ns = {m}) /\ c.why = NoWhy
                   \/ c.ns = {} /\ c.why # NoWhy /\ n # 0

LEMMA SharedCover ==
  ASSUME NEW cf \in Counts, NEW pf, pf \notin Counts, NEW c, NEW n, CountMade(c, n)
  PROVE  Covers(CountAndShare(cf, pf, c, n), {cf, pf})
<1>1. CASE (\E m : c.ns = {m}) /\ c.why = NoWhy
  <2>1. PICK m : c.ns = {m}
    BY <1>1
  <2>2. /\ Covers(Block(count(cf, {m}), {}), {cf})
        /\ Covers(Block(share(pf, {m}, n), {}), {pf})
    BY CountCovers, ShareCovers
  <2>3. CountAndShare(cf, pf, c, n) =
          Both(Block(count(cf, {m}), {}), Block(share(pf, {m}, n), {}))
    <3>1. leaveOut(c.why, {cf, pf}) = {} \cup {}
      BY <1>1 DEF leaveOut
    <3>. DEFINE a == Block(count(cf, {m}), {})
                b == Block(share(pf, {m}, n), {})
    <3>2. /\ a.values = count(cf, {m}) /\ a.gaps = {}
          /\ b.values = share(pf, {m}, n) /\ b.gaps = {}
      BY BlockIs
    <3>3. CountAndShare(cf, pf, c, n) =
            Block(count(cf, {m}) \cup share(pf, {m}, n), {} \cup {})
      BY <2>1, <3>1, Zenon DEF CountAndShare
    <3>. HIDE DEF a, b
    <3>4. Both(a, b) = CountAndShare(cf, pf, c, n)
      BY <3>2, <3>3, Zenon DEF Both
    <3>. QED
      BY <3>4 DEF a, b
  <2>4. {cf} \cap {pf} = {} /\ {cf} \cup {pf} = {cf, pf}
    OBVIOUS
  <2>5. Covers(CountAndShare(cf, pf, c, n), {cf} \cup {pf})
    BY <2>2, <2>3, <2>4, BothCover
  <2>. QED
    BY <2>4, <2>5, Zenon
<1>2. CASE c.ns = {} /\ c.why # NoWhy /\ n # 0
  <2>1. count(cf, c.ns) = {} /\ share(pf, c.ns, n) = {}
    BY <1>2 DEF count, share
  <2>2. CountAndShare(cf, pf, c, n) = Block({}, leaveOut(c.why, {cf, pf}))
    BY <2>1 DEF CountAndShare
  <2>. QED
    BY <1>2, <2>2, GapsCover
<1>. QED
  BY <1>1, <1>2 DEF CountMade

(* Which of the fields are counts.                                         *)
LEMMA FieldKinds ==
  /\ MemberCounts \subseteq Counts /\ CredentialCounts \subseteq Counts
  /\ "admin_count" \in Counts
  /\ \A f \in Presences \cup Shares : f \notin Counts
BY DEF Counts, MemberCounts, CredentialCounts, Presences, Shares

LEMMA MembersCover ==
  ASSUME NEW p, IsFiniteSet(roleHolders(p.users))
  PROVE  Covers(accessMembers(p), MemberFields)
<1>. DEFINE members == roleHolders(p.users)
            guests == Cardinality(members \cap dir.guests)
            n == Cardinality(members)
            why == firstMissing(firstMissing(p.why, dir.usersMiss), holdersMiss(p))
            here == present("members_present", n, why)
            outside == present("external_members_present", guests, why)
            counted == Block(count("member_count", {n}), {})
            external == Block(count("external_member_count", {guests}), {})
            sso == CountAndShare("sso_member_count", "sso_coverage_pct",
                                 [ns |-> {n}, why |-> NoWhy], n)
            inactive == CountAndShare("inactive_member_count", "inactive_pct",
                                      inactiveMembers(members), n)
            unknown == Block({}, leaveOut(why, MemberFields \ Presences))
            known == Both(Both(counted, external), Both(sso, inactive))
            presences == {"members_present", "external_members_present"}
<1>1. accessMembers(p) = Both(Both(here, outside), IF why # NoWhy THEN unknown ELSE known)
  BY DEF accessMembers
<1>2. n \in Nat /\ guests \in Nat /\ (n = 0 <=> members = {})
  BY FS_CardinalityType, FS_Subset, FS_EmptySet
<1>3. presences \cap (MemberFields \ Presences) = {}
      /\ presences \cup (MemberFields \ Presences) = MemberFields
  BY DEF MemberFields, MemberCounts, Presences
<1>4. Covers(Both(here, outside), presences)
  <2>1. /\ Covers(here, {"members_present"})
        /\ Covers(outside, {"external_members_present"})
    BY <1>2, PresentCovers, FieldKinds DEF Presences
  <2>2. /\ {"members_present"} \cap {"external_members_present"} = {}
        /\ {"members_present"} \cup {"external_members_present"} = presences
    OBVIOUS
  <2>. HIDE DEF here, outside, presences
  <2>. QED
    BY <2>1, <2>2, BothCover
<1>5. why # NoWhy => Covers(unknown, MemberFields \ Presences)
  BY GapsCover
<1>6. Covers(known, MemberFields \ Presences)
  <2>1. /\ Covers(counted, {"member_count"})
        /\ Covers(external, {"external_member_count"})
    BY CountCovers, FieldKinds DEF MemberCounts
  <2>2. Covers(sso, {"sso_member_count", "sso_coverage_pct"})
    <3>1. CountMade([ns |-> {n}, why |-> NoWhy], n)
      BY DEF CountMade
    <3>. QED
      BY <3>1, SharedCover, FieldKinds DEF MemberCounts, Shares
  <2>3. Covers(inactive, {"inactive_member_count", "inactive_pct"})
    <3>1. CountMade(inactiveMembers(members), n)
      <4>. HIDE DEF members
      <4>1. CASE members = {}
        BY <4>1 DEF inactiveMembers, CountMade
      <4>2. CASE members # {}
        BY <1>2, <4>2 DEF inactiveMembers, CountMade
      <4>. QED
        BY <4>1, <4>2
    <3>. HIDE DEF members
    <3>. QED
      BY <3>1, SharedCover, FieldKinds DEF MemberCounts, Shares
  <2>. DEFINE F == {"member_count", "external_member_count"}
              G == {"sso_member_count", "sso_coverage_pct", "inactive_member_count",
                    "inactive_pct"}
  <2>4. /\ {"member_count"} \cap {"external_member_count"} = {}
        /\ {"member_count"} \cup {"external_member_count"} = F
        /\ {"sso_member_count", "sso_coverage_pct"} \cap
              {"inactive_member_count", "inactive_pct"} = {}
        /\ {"sso_member_count", "sso_coverage_pct"} \cup
              {"inactive_member_count", "inactive_pct"} = G
        /\ F \cap G = {} /\ F \cup G = MemberFields \ Presences
    BY DEF MemberFields, MemberCounts, Presences
  <2>. HIDE DEF counted, external, sso, inactive, F, G
  <2>5. Covers(Both(counted, external), F)
    BY <2>1, <2>4, BothCover
  <2>6. Covers(Both(sso, inactive), G)
    BY <2>2, <2>3, <2>4, BothCover
  <2>7. Covers(known, F \cup G)
    BY <2>4, <2>5, <2>6, BothCover
  <2>. QED
    BY <2>4, <2>7
<1>. HIDE DEF here, outside, known, unknown, presences, why
<1>7. Covers(IF why # NoWhy THEN unknown ELSE known, MemberFields \ Presences)
  BY <1>5, <1>6
<1>. QED
  BY <1>1, <1>3, <1>4, <1>7, BothCover

LEMMA AdminsCover ==
  ASSUME NEW p, IsFiniteSet(roleHolders(p.admins))
  PROVE  Covers(accessAdmins(p), AdminFields)
<1>. DEFINE n == Cardinality(roleHolders(p.admins))
            why == firstMissing(firstMissing(p.why, dir.usersMiss), adminHoldersMiss(p))
            flag == present("admins_present", n, why)
            counted == Block(count("admin_count", {n}), {})
            shared == Block(share("admin_share_pct", {n},
                                  Cardinality(roleHolders(p.users))), {})
            unknown == Block({}, leaveOut(why, {"admin_count", "admin_share_pct"}))
            shareUnknown == Block({}, leaveOut(holdersMiss(p), {"admin_share_pct"}))
            known == Both(counted, adminShare(p, n))
            rest == {"admin_count", "admin_share_pct"}
<1>1. accessAdmins(p) = Both(flag, IF why # NoWhy THEN unknown ELSE known)
  BY DEF accessAdmins
<1>2. n \in Nat
  BY FS_CardinalityType
<1>3. adminShare(p, n) = IF holdersMiss(p) # NoWhy THEN shareUnknown ELSE shared
  BY DEF adminShare
<1>4. Covers(flag, {"admins_present"})
  BY <1>2, PresentCovers, FieldKinds DEF Presences
<1>5. why # NoWhy => Covers(unknown, rest)
  BY GapsCover
<1>6. Covers(counted, {"admin_count"})
  BY CountCovers, FieldKinds
<1>7. Covers(adminShare(p, n), {"admin_share_pct"})
  <2>1. "admin_share_pct" \notin Counts
    BY FieldKinds DEF Shares
  <2>2. Covers(shared, {"admin_share_pct"})
    BY <2>1, ShareCovers
  <2>3. holdersMiss(p) # NoWhy => Covers(shareUnknown, {"admin_share_pct"})
    BY GapsCover
  <2>. HIDE DEF shared, shareUnknown
  <2>. QED
    BY <1>3, <2>2, <2>3
<1>8. /\ {"admin_count"} \cap {"admin_share_pct"} = {}
      /\ {"admin_count"} \cup {"admin_share_pct"} = rest
      /\ {"admins_present"} \cap rest = {}
      /\ {"admins_present"} \cup rest = AdminFields
  BY DEF AdminFields
<1>. HIDE DEF n, why, flag, counted, unknown, rest
<1>9. Covers(known, rest)
  BY <1>6, <1>7, <1>8, BothCover
<1>. HIDE DEF known
<1>10. Covers(IF why # NoWhy THEN unknown ELSE known, rest)
  BY <1>5, <1>9
<1>. QED
  BY <1>1, <1>4, <1>8, <1>10, BothCover

LEMMA CredentialsCover ==
  ASSUME NEW p, IsFiniteSet(p.servicePrincipals), p.writers \subseteq p.servicePrincipals
  PROVE  Covers(accessCredentials(p), CredentialFields)
<1>. DEFINE ids == p.servicePrincipals
            n == Cardinality(ids)
            why == firstMissing(p.why, holdersMiss(p))
            flag == present("credentials_present", n, why)
            counted == Block(count("credential_count", {n}), {})
            limits == IF p.writers = {} THEN [ns |-> {0}, why |-> NoWhy]
                      ELSE [ns |-> {}, why |-> "service_principal_limits"]
            use == IF n = 0 THEN [ns |-> {0}, why |-> NoWhy]
                   ELSE [ns |-> {}, why |-> "service_principal_use"]
            never == CountAndShare("never_expiring_credential_count", "never_expiring_pct",
                       countServicePrincipalCredentials(ids, dir.neverExpiring), n)
            write == CountAndShare("write_access_credential_count", "write_access_pct",
                       enabledServicePrincipals(p.writers), n)
            overdue == CountAndShare("rotation_overdue_credential_count",
                         "rotation_overdue_pct",
                         countServicePrincipalCredentials(ids, dir.overdue), n)
            unrestricted == CountAndShare("unrestricted_credential_count",
                              "unrestricted_pct", limits, n)
            unused == CountAndShare("unused_credential_count", "unused_pct", use, n)
            details == Both(Both(never, write), Both(overdue, Both(unrestricted, unused)))
            unknown == Block({}, leaveOut(why, CredentialFields \ Presences))
            known == Both(counted, details)
            presences == {"credentials_present"}
<1>1. accessCredentials(p) = Both(flag, IF why # NoWhy THEN unknown ELSE known)
  BY DEF accessCredentials
<1>2. n \in Nat /\ (n = 0 <=> ids = {})
  BY FS_CardinalityType, FS_EmptySet
<1>3. n = 0 => p.writers = {}
  BY <1>2
<1>4. Covers(flag, presences)
  BY <1>2, PresentCovers, FieldKinds DEF Presences
<1>5. why # NoWhy => Covers(unknown, CredentialFields \ Presences)
  BY GapsCover
<1>6. ASSUME NEW matching PROVE CountMade(countServicePrincipalCredentials(ids, matching), n)
  <2>. HIDE DEF ids, n
  <2>1. CASE ids = {}
    BY <2>1 DEF countServicePrincipalCredentials, CountMade
  <2>2. CASE ids # {}
    BY <1>2, <2>2 DEF countServicePrincipalCredentials, CountMade
  <2>. QED
    BY <2>1, <2>2
<1>7. CountMade(enabledServicePrincipals(p.writers), n)
  <2>. HIDE DEF n
  <2>1. CASE p.writers = {}
    BY <2>1 DEF enabledServicePrincipals, CountMade
  <2>2. CASE p.writers # {}
    BY <1>3, <2>2 DEF enabledServicePrincipals, CountMade
  <2>. QED
    BY <2>1, <2>2
<1>8. CountMade(limits, n) /\ CountMade(use, n)
  <2>. HIDE DEF n
  <2>. QED
    BY <1>3 DEF CountMade, NoWhy
<1>. HIDE DEF ids, n, limits, use, why
<1>9. Covers(counted, {"credential_count"})
  BY CountCovers, FieldKinds DEF CredentialCounts
<1>10. Covers(never, {"never_expiring_credential_count", "never_expiring_pct"})
  BY <1>6, SharedCover, FieldKinds DEF CredentialCounts, Shares
<1>11. Covers(write, {"write_access_credential_count", "write_access_pct"})
  BY <1>7, SharedCover, FieldKinds DEF CredentialCounts, Shares
<1>12. Covers(overdue, {"rotation_overdue_credential_count", "rotation_overdue_pct"})
  BY <1>6, SharedCover, FieldKinds DEF CredentialCounts, Shares
<1>13. Covers(unrestricted, {"unrestricted_credential_count", "unrestricted_pct"})
  BY <1>8, SharedCover, FieldKinds DEF CredentialCounts, Shares
<1>14. Covers(unused, {"unused_credential_count", "unused_pct"})
  BY <1>8, SharedCover, FieldKinds DEF CredentialCounts, Shares
<1>. DEFINE A == {"never_expiring_credential_count", "never_expiring_pct",
                  "write_access_credential_count", "write_access_pct"}
            B == {"unrestricted_credential_count", "unrestricted_pct",
                  "unused_credential_count", "unused_pct"}
            C == {"rotation_overdue_credential_count", "rotation_overdue_pct"}
            D == (A \cup (C \cup B))
<1>15. /\ {"never_expiring_credential_count", "never_expiring_pct"} \cap
             {"write_access_credential_count", "write_access_pct"} = {}
       /\ {"never_expiring_credential_count", "never_expiring_pct"} \cup
             {"write_access_credential_count", "write_access_pct"} = A
  OBVIOUS
<1>16. /\ {"unrestricted_credential_count", "unrestricted_pct"} \cap
             {"unused_credential_count", "unused_pct"} = {}
       /\ {"unrestricted_credential_count", "unrestricted_pct"} \cup
             {"unused_credential_count", "unused_pct"} = B
  OBVIOUS
<1>17. /\ C \cap B = {} /\ A \cap (C \cup B) = {}
       /\ {"credential_count"} \cap D = {}
       /\ presences \cap (CredentialFields \ Presences) = {}
  BY DEF CredentialFields, CredentialCounts, Presences
<1>18. /\ {"credential_count"} \cup D = CredentialFields \ Presences
       /\ presences \cup (CredentialFields \ Presences) = CredentialFields
  BY DEF CredentialFields, CredentialCounts, Presences
<1>. HIDE DEF flag, presences, counted, never, write, overdue, unrestricted, unused, unknown, A, B
<1>19. Covers(Both(never, write), A) /\ Covers(Both(unrestricted, unused), B)
  BY <1>10, <1>11, <1>13, <1>14, <1>15, <1>16, BothCover
<1>. HIDE DEF C
<1>20. Covers(Both(overdue, Both(unrestricted, unused)), C \cup B)
  BY <1>12, <1>17, <1>19, BothCover DEF C
<1>21. Covers(details, D)
  BY <1>17, <1>19, <1>20, BothCover
<1>. HIDE DEF details, D
<1>22. Covers(known, CredentialFields \ Presences)
  BY <1>9, <1>17, <1>18, <1>21, BothCover
<1>. HIDE DEF known
<1>23. Covers(IF why # NoWhy THEN unknown ELSE known, CredentialFields \ Presences)
  BY <1>5, <1>22
<1>. QED
  BY <1>1, <1>4, <1>17, <1>18, <1>23, BothCover

LEMMA SectionsCover ==
  ASSUME AccountsTyped, NEW scope \in SUBSET (1 .. Len(accounts)), NEW p,
         Describes(p, scope)
  PROVE  Covers(accessSections(p), Fields)
<1>1. p.writers \subseteq p.servicePrincipals
  <2>1. /\ p.servicePrincipals = SeenHolders(scope, "ServicePrincipal", Roles)
        /\ p.writers = SeenHolders(scope, "ServicePrincipal", Roles \ {"reader"})
    BY Zenon DEF Describes
  <2>. QED
    BY <2>1, HoldersAre
<1>2. /\ Covers(accessMembers(p), MemberFields)
      /\ Covers(accessAdmins(p), AdminFields)
      /\ Covers(accessCredentials(p), CredentialFields)
  BY <1>1, KnownFinite, MembersCover, AdminsCover, CredentialsCover
<1>3. /\ AdminFields \cap CredentialFields = {}
      /\ MemberFields \cap (AdminFields \cup CredentialFields) = {}
      /\ MemberFields \cup (AdminFields \cup CredentialFields) = Fields
  BY DEF Fields, MemberFields, AdminFields, CredentialFields, MemberCounts, CredentialCounts
<1>4. Covers(Both(accessAdmins(p), accessCredentials(p)), AdminFields \cup CredentialFields)
  BY <1>2, <1>3, BothCover
<1>5. Covers(accessSections(p), MemberFields \cup (AdminFields \cup CredentialFields))
  BY <1>2, <1>3, <1>4, BothCover DEF accessSections
<1>. QED
  BY <1>3, <1>5

-----------------------------------------------------------------------------
(* What each place holds: a place that is done, one entry for each wanted  *)
(* field, and any other place nothing.                                     *)
Done(place) == IF place = 0 THEN posture = "written" ELSE audit /\ place < subscription

Filled(place, f) == Answered(ValuesOf(place, f), GapsOf(place, f))
Empty(place, f) == Silent(ValuesOf(place, f), GapsOf(place, f))

PlacesInv ==
  \A place \in ArtifactPlaces, f \in Fields :
    /\ Done(place) /\ Wanted(f) => Filled(place, f)
    /\ ~(Done(place) /\ Wanted(f)) => Empty(place, f)

LEMMA EntriesCounted ==
  ASSUME NEW vs, NEW gs
  PROVE  /\ Answered(vs, gs) => Cardinality(vs) + Cardinality(gs) = 1
         /\ Silent(vs, gs) => Cardinality(vs) + Cardinality(gs) = 0
<1>1. Cardinality({}) = 0 /\ \A x : Cardinality({x}) = 1
  BY FS_EmptySet, FS_Singleton
<1>2. ASSUME NEW v, vs = {v}, gs = {} PROVE Cardinality(vs) + Cardinality(gs) = 1
  <2>1. Cardinality(vs) = 1 /\ Cardinality(gs) = 0
    BY <1>1, <1>2
  <2>. QED
    BY <2>1
<1>3. ASSUME NEW g, gs = {g}, vs = {} PROVE Cardinality(vs) + Cardinality(gs) = 1
  <2>1. Cardinality(vs) = 0 /\ Cardinality(gs) = 1
    BY <1>1, <1>3
  <2>. QED
    BY <2>1
<1>4. ASSUME vs = {}, gs = {} PROVE Cardinality(vs) + Cardinality(gs) = 0
  <2>1. Cardinality(vs) = 0 /\ Cardinality(gs) = 0
    BY <1>1, <1>4
  <2>. QED
    BY <2>1
<1>. QED
  BY <1>2, <1>3, <1>4 DEF Answered, Silent

LEMMA PlacesAreSound ==
  ASSUME PlacesInv
  PROVE  ValueOrGap
<1>. SUFFICES ASSUME NEW place \in ArtifactPlaces, NEW field \in Fields
     PROVE  Cardinality(ValuesOf(place, field)) + Cardinality(GapsOf(place, field)) =
              IF (IF place = 0 THEN posture = "written" ELSE audit /\ place < subscription)
                   /\ (audit \/ field \notin Counts) THEN 1 ELSE 0
  BY DEF ValueOrGap
<1>. DEFINE vs == ValuesOf(place, field)
            gs == GapsOf(place, field)
<1>1. /\ Done(place) /\ Wanted(field) => Answered(vs, gs)
      /\ ~(Done(place) /\ Wanted(field)) => Silent(vs, gs)
  BY DEF PlacesInv, Filled, Empty
<1>. HIDE DEF vs, gs
<1>2. Cardinality(vs) + Cardinality(gs) = IF Done(place) /\ Wanted(field) THEN 1 ELSE 0
  BY <1>1, EntriesCounted
<1>. QED
  BY <1>2 DEF Done, Wanted, vs, gs

(* Writing a block at an empty place fills it as far as the block covers.  *)
LEMMA EmittedAt ==
  ASSUME NEW place, NEW block, Emit(place, block), NEW q, NEW f
  PROVE  /\ q # place => /\ Filled(q, f) => Filled(q, f)'
                         /\ Empty(q, f) => Empty(q, f)'
         /\ Empty(place, f) =>
              /\ Answered(At(block.values, f), At(block.gaps, f)) => Filled(place, f)'
              /\ Silent(At(block.values, f), At(block.gaps, f)) => Empty(place, f)'
<1>. DEFINE rec(v) == [place |-> place, at |-> v.at, num |-> v.num, of |-> v.of]
            gap(g) == [place |-> place, at |-> g.at, why |-> g.why]
            V == {rec(v) : v \in block.values}
            G == {gap(g) : g \in block.gaps}
<1>1. values' = values \cup V /\ gaps' = gaps \cup G
  BY DEF Emit
<1>2. /\ \A v : rec(v).place = place /\ rec(v).at = v.at
      /\ \A g : gap(g).place = place /\ gap(g).at = g.at
  OBVIOUS
<1>. HIDE DEF rec, gap
<1>3. ASSUME q # place PROVE ValuesOf(q, f)' = ValuesOf(q, f) /\ GapsOf(q, f)' = GapsOf(q, f)
  <2>1. /\ \A w \in V : w.place # q
        /\ \A w \in G : w.place # q
    BY <1>2, <1>3
  <2>. HIDE DEF V, G
  <2>2. /\ \A w : w \in ValuesOf(q, f)' <=> w \in ValuesOf(q, f)
        /\ \A w : w \in GapsOf(q, f)' <=> w \in GapsOf(q, f)
    BY <1>1, <2>1 DEF ValuesOf, GapsOf
  <2>3. ValuesOf(q, f)' = ValuesOf(q, f)
    <3>1. \A w \in ValuesOf(q, f)' : w \in ValuesOf(q, f)
      BY <2>2
    <3>2. \A w \in ValuesOf(q, f) : w \in ValuesOf(q, f)'
      BY <2>2
    <3>. QED
      BY <3>1, <3>2, Zenon DEF ValuesOf
  <2>4. GapsOf(q, f)' = GapsOf(q, f)
    <3>1. \A w \in GapsOf(q, f)' : w \in GapsOf(q, f)
      BY <2>2
    <3>2. \A w \in GapsOf(q, f) : w \in GapsOf(q, f)'
      BY <2>2
    <3>. QED
      BY <3>1, <3>2, Zenon DEF GapsOf
  <2>. QED
    BY <2>3, <2>4
<1>4. ASSUME Empty(place, f)
      PROVE  /\ ValuesOf(place, f)' = {rec(v) : v \in At(block.values, f)}
             /\ GapsOf(place, f)' = {gap(g) : g \in At(block.gaps, f)}
  <2>1. /\ \A w : w \in values => ~(w.place = place /\ w.at = f)
        /\ \A w : w \in gaps => ~(w.place = place /\ w.at = f)
    BY <1>4 DEF Empty, Silent, ValuesOf, GapsOf
  <2>2. \A w : w \in ValuesOf(place, f)' <=> \E v \in At(block.values, f) : w = rec(v)
    BY <1>1, <1>2, <2>1 DEF ValuesOf, At
  <2>3. \A w : w \in GapsOf(place, f)' <=> \E g \in At(block.gaps, f) : w = gap(g)
    BY <1>1, <1>2, <2>1 DEF GapsOf, At
  <2>. QED
    BY <2>2, <2>3 DEF ValuesOf, GapsOf
<1>5. ASSUME Empty(place, f), Answered(At(block.values, f), At(block.gaps, f))
      PROVE  Filled(place, f)'
  <2>1. CASE (\E v : At(block.values, f) = {v}) /\ At(block.gaps, f) = {}
    <3>1. PICK v : At(block.values, f) = {v}
      BY <2>1
    <3>2. ValuesOf(place, f)' = {rec(v)} /\ GapsOf(place, f)' = {}
      BY <1>4, <1>5, <2>1, <3>1
    <3>. QED
      BY <3>2 DEF Filled, Answered
  <2>2. CASE At(block.values, f) = {} /\ \E g : At(block.gaps, f) = {g}
    <3>1. PICK g : At(block.gaps, f) = {g}
      BY <2>2
    <3>2. ValuesOf(place, f)' = {} /\ GapsOf(place, f)' = {gap(g)}
      BY <1>4, <1>5, <2>2, <3>1
    <3>. QED
      BY <3>2 DEF Filled, Answered
  <2>. QED
    BY <1>5, <2>1, <2>2 DEF Answered
<1>6. ASSUME Empty(place, f), Silent(At(block.values, f), At(block.gaps, f))
      PROVE  Empty(place, f)'
  BY <1>4, <1>6 DEF Empty, Silent
<1>. QED
  BY <1>3, <1>5, <1>6 DEF Filled, Empty

(* The places once a block has been written at one of them.                *)
LEMMA EmittedFills ==
  ASSUME PlacesInv, NEW place \in ArtifactPlaces, NEW block, Emit(place, block),
         Covers(block, Fields), ~Done(place), Done(place)',
         UNCHANGED <<accounts, level>>,
         \A q \in ArtifactPlaces : q # place => (Done(q)' <=> Done(q))
  PROVE  PlacesInv'
<1>1. \A f : Wanted(f)' <=> Wanted(f)
  BY DEF Wanted, audit
<1>2. ArtifactPlaces' = ArtifactPlaces
  BY DEF ArtifactPlaces
<1>3. ASSUME NEW q \in ArtifactPlaces, NEW f \in Fields
      PROVE  /\ Done(q)' /\ Wanted(f) => Filled(q, f)'
             /\ ~(Done(q)' /\ Wanted(f)) => Empty(q, f)'
  <2>1. CASE q # place
    <3>1. /\ Done(q) /\ Wanted(f) => Filled(q, f)
          /\ ~(Done(q) /\ Wanted(f)) => Empty(q, f)
      BY DEF PlacesInv
    <3>2. /\ Filled(q, f) => Filled(q, f)'
          /\ Empty(q, f) => Empty(q, f)'
      BY <2>1, EmittedAt
    <3>3. Done(q)' <=> Done(q)
      BY <2>1
    <3>. QED
      BY <3>1, <3>2, <3>3
  <2>2. CASE q = place
    <3>1. Empty(place, f)
      BY DEF PlacesInv
    <3>2. /\ Wanted(f) => Answered(At(block.values, f), At(block.gaps, f))
          /\ ~Wanted(f) => Silent(At(block.values, f), At(block.gaps, f))
      BY DEF Covers
    <3>3. /\ Wanted(f) => Filled(place, f)'
          /\ ~Wanted(f) => Empty(place, f)'
      BY <3>1, <3>2, EmittedAt
    <3>4. Done(q)'
      BY <2>2
    <3>. QED
      BY <2>2, <3>3, <3>4
  <2>. QED
    BY <2>1, <2>2
<1>. QED
  BY <1>1, <1>2, <1>3 DEF PlacesInv

LEMMA PlacesStay ==
  ASSUME PlacesInv, UNCHANGED <<accounts, level, values, gaps>>,
         \A q \in ArtifactPlaces : Done(q)' <=> Done(q)
  PROVE  PlacesInv'
<1>1. /\ \A q, f : ValuesOf(q, f)' = ValuesOf(q, f) /\ GapsOf(q, f)' = GapsOf(q, f)
      /\ \A f : Wanted(f)' <=> Wanted(f)
      /\ ArtifactPlaces' = ArtifactPlaces
  BY DEF ValuesOf, GapsOf, Wanted, audit, ArtifactPlaces
<1>2. \A q, f : (Filled(q, f)' <=> Filled(q, f)) /\ (Empty(q, f)' <=> Empty(q, f))
  BY <1>1 DEF Filled, Empty
<1>. QED
  BY <1>1, <1>2 DEF PlacesInv

LEMMA AccessInit_Places ==
  ASSUME AccessInit
  PROVE  PlacesInv
<1>1. \A q \in ArtifactPlaces : ~Done(q)
  <2>1. posture = "pending" /\ subscription = 1
    BY DEF AccessInit
  <2>2. \A q \in ArtifactPlaces : q \in Nat
    BY DEF ArtifactPlaces
  <2>. QED
    BY <2>1, <2>2 DEF Done
<1>2. \A q, f : Empty(q, f)
  BY DEF AccessInit, Empty, Silent, ValuesOf, GapsOf
<1>. QED
  BY <1>1, <1>2 DEF PlacesInv

LEMMA AccessNext_Places ==
  ASSUME AccessInv, PlacesInv, [AccessNext]_accessVars
  PROVE  PlacesInv'
<1>1. /\ Len(accounts) \in Nat /\ subscription \in 1 .. Len(accounts) + 1
      /\ \A q \in ArtifactPlaces : q \in 0 .. Len(accounts)
  BY DEF AccessInv, AccountsTyped, ArtifactPlaces
<1>2. ASSUME Merge
      PROVE  /\ UNCHANGED <<accounts, dir, level, posture>>
             /\ subscription' = subscription + 1 /\ subscription \in 1 .. Len(accounts)
  BY <1>1, <1>2 DEF Merge
<1>3. ASSUME Merge, audit, NEW i, i = subscription
      PROVE  /\ i \in ArtifactPlaces /\ ~Done(i) /\ Done(i)'
             /\ \A q \in ArtifactPlaces : q # i => (Done(q)' <=> Done(q))
  <2>1. i \in ArtifactPlaces /\ i # 0 /\ i \in Nat
    BY <1>1, <1>2, <1>3 DEF ArtifactPlaces
  <2>2. audit'
    BY <1>2, <1>3 DEF audit
  <2>3. ~Done(i) /\ Done(i)'
    BY <1>2, <1>3, <2>1, <2>2 DEF Done
  <2>4. ASSUME NEW q \in ArtifactPlaces, q # i PROVE Done(q)' <=> Done(q)
    <3>1. q \in Nat
      BY <1>1
    <3>2. q < subscription + 1 <=> q < subscription
      BY <1>1, <1>3, <2>4, <3>1
    <3>. QED
      BY <1>2, <1>3, <2>2, <3>2 DEF Done
  <2>. QED
    BY <2>1, <2>3, <2>4
<1>4. CASE MergeOnly
  <2>1. Merge /\ ~audit /\ UNCHANGED <<values, gaps>>
    BY <1>4 DEF MergeOnly
  <2>2. \A q \in ArtifactPlaces : Done(q)' <=> Done(q)
    BY <1>2, <2>1 DEF Done, audit
  <2>. QED
    BY <1>2, <2>1, <2>2, PlacesStay
<1>5. CASE LeaveOutScope
  <2>. DEFINE block == Block({}, leaveOut("unreadable", Fields))
  <2>1. Merge /\ audit /\ Emit(subscription, block)
    BY <1>5 DEF LeaveOutScope
  <2>2. "unreadable" # NoWhy
    BY DEF NoWhy
  <2>3. Covers(block, Fields)
    BY <2>2, GapsCover
  <2>. HIDE DEF block
  <2>4. PICK i : i = subscription
    OBVIOUS
  <2>5. Emit(i, block)
    BY <2>1, <2>4
  <2>. QED
    BY <1>2, <1>3, <2>1, <2>3, <2>4, <2>5, EmittedFills
<1>6. CASE WriteScope
  <2>. DEFINE block == accessSections(subscriptionPopulation(accounts[subscription]))
  <2>1. Merge /\ audit /\ Emit(subscription, block)
    BY <1>6 DEF WriteScope
  <2>2. Covers(block, Fields)
    BY <1>2, <2>1, SubscriptionStands, SectionsCover DEF AccessInv
  <2>. HIDE DEF block
  <2>3. PICK i : i = subscription
    OBVIOUS
  <2>4. Emit(i, block)
    BY <2>1, <2>3
  <2>. QED
    BY <1>2, <1>3, <2>1, <2>2, <2>3, <2>4, EmittedFills
<1>7. CASE WriteTotals
  <2>. DEFINE block == accessSections(total)
  <2>1. /\ Emit(0, block) /\ posture = "pending" /\ posture' = "written"
        /\ subscription > Len(accounts)
        /\ UNCHANGED <<accounts, dir, level, subscription, total>>
    BY <1>7 DEF WriteTotals
  <2>2. 1 .. subscription - 1 \in SUBSET (1 .. Len(accounts))
    BY <1>1
  <2>3. Covers(block, Fields)
    BY <2>2, SectionsCover DEF AccessInv
  <2>4. 0 \in ArtifactPlaces /\ ~Done(0) /\ Done(0)'
    BY <1>1, <2>1 DEF ArtifactPlaces, Done
  <2>5. \A q \in ArtifactPlaces : q # 0 => (Done(q)' <=> Done(q))
    BY <2>1 DEF Done, audit
  <2>. HIDE DEF block
  <2>. QED
    BY <2>1, <2>3, <2>4, <2>5, EmittedFills
<1>8. CASE NoSubscriptions
  <2>1. /\ UNCHANGED <<accounts, level, subscription, values, gaps>>
        /\ posture = "pending" /\ posture' = "nil"
    BY <1>8 DEF NoSubscriptions
  <2>2. \A q \in ArtifactPlaces : Done(q)' <=> Done(q)
    BY <2>1 DEF Done, audit
  <2>. QED
    BY <2>1, <2>2, PlacesStay
<1>9. CASE UNCHANGED accessVars
  <2>1. UNCHANGED <<accounts, level, subscription, values, gaps, posture>>
    BY <1>9 DEF accessVars
  <2>2. \A q \in ArtifactPlaces : Done(q)' <=> Done(q)
    BY <2>1 DEF Done, audit
  <2>. QED
    BY <2>1, <2>2, PlacesStay
<1>. QED
  BY <1>4, <1>5, <1>6, <1>7, <1>8, <1>9 DEF AccessNext

(* Nothing is written twice or left without a word: every field of every   *)
(* place already written has one value or one gap, for every tenancy, and  *)
(* below the audit level a count has neither (accessGaps.leaveOut).        *)
THEOREM AccessFieldsAnswered == AccessSpec => []ValueOrGap
<1>1. AccessInit => AccessInv /\ PlacesInv
  BY AccessInit_Inv, AccessInit_Places
<1>2. AccessInv /\ PlacesInv /\ [AccessNext]_accessVars => (AccessInv /\ PlacesInv)'
  BY AccessNext_Inv, AccessNext_Places
<1>3. AccessInv /\ PlacesInv => ValueOrGap
  BY PlacesAreSound
<1>. QED
  BY <1>1, <1>2, <1>3, PTL DEF AccessSpec

-----------------------------------------------------------------------------
(***************************************************************************)
(* The totals.  What a place says of a field is settled by what was seen   *)
(* in its scope: whom the field counts, and whether something hides who    *)
(* else it should count.  Both are of all the subscriptions together what  *)
(* they are of each.                                                       *)
(***************************************************************************)
SeenMembers(S) == roleHolders(SeenHolders(S, "User", Roles))
SeenAdmins(S) == roleHolders(SeenHolders(S, "User", {"admin"}))
SeenApps(S) == SeenHolders(S, "ServicePrincipal", Roles)
SeenWriters(S) == SeenHolders(S, "ServicePrincipal", Roles \ {"reader"})

(* Whom a field counts.                                                    *)
Tallied(S, f) ==
  CASE f \in {"members_present", "member_count", "sso_member_count"} -> SeenMembers(S)
    [] f \in {"external_members_present", "external_member_count"} ->
         SeenMembers(S) \cap dir.guests
    [] f = "inactive_member_count" -> SeenMembers(S) \ dir.signedIn
    [] f \in {"admins_present", "admin_count"} -> SeenAdmins(S)
    [] f \in {"credentials_present", "credential_count", "unused_credential_count"} ->
         SeenApps(S)
    [] f = "never_expiring_credential_count" -> SeenApps(S) \cap dir.neverExpiring
    [] f = "rotation_overdue_credential_count" -> SeenApps(S) \cap dir.overdue
    [] f = "write_access_credential_count" -> SeenWriters(S) \ dir.disabledApps
    [] f = "unrestricted_credential_count" -> SeenWriters(S)
    [] OTHER -> {}

(* What keeps a field from being settled.                                  *)
HoldersHidden(S) == Unread(S) \/ Unsorted(S) # {}
MembersHidden(S) == HoldersHidden(S) \/ dir.usersMiss # NoWhy
AdminsHidden(S) ==
  Unread(S) \/ dir.usersMiss # NoWhy \/ \E a \in Unsorted(S) : a.role = "admin"
AppsHidden(S) ==
  \/ SeenApps(S) # {} /\ dir.servicePrincipalsMiss # NoWhy
  \/ SeenApps(S) \cap dir.apps # {} /\ dir.applicationsMiss # NoWhy

Hidden(S, f) ==
  CASE f \in {"members_present", "member_count", "sso_member_count", "sso_coverage_pct",
              "external_members_present", "external_member_count"} -> MembersHidden(S)
    [] f \in {"inactive_member_count", "inactive_pct"} ->
         MembersHidden(S) \/ (SeenMembers(S) # {} /\ dir.signInMiss # NoWhy)
    [] f \in {"admins_present", "admin_count"} -> AdminsHidden(S)
    [] f = "admin_share_pct" -> AdminsHidden(S) \/ HoldersHidden(S)
    [] f \in {"credentials_present", "credential_count"} -> HoldersHidden(S)
    [] f \in {"never_expiring_credential_count", "never_expiring_pct",
              "rotation_overdue_credential_count", "rotation_overdue_pct"} ->
         HoldersHidden(S) \/ AppsHidden(S)
    [] f \in {"write_access_credential_count", "write_access_pct"} ->
         \/ HoldersHidden(S)
         \/ SeenWriters(S) # {} /\ dir.servicePrincipalsMiss # NoWhy
    [] f \in {"unrestricted_credential_count", "unrestricted_pct"} ->
         HoldersHidden(S) \/ SeenWriters(S) # {}
    [] f \in {"unused_credential_count", "unused_pct"} ->
         HoldersHidden(S) \/ SeenApps(S) # {}
    [] OTHER -> FALSE

(* What values and gaps say of the scope of their place.                   *)
Says(f, num, S) ==
  /\ f \in Counts => num = Cardinality(Tallied(S, f))
  /\ f \in Presences => IF Tallied(S, f) = {} THEN num = 0 /\ ~Hidden(S, f) ELSE num = 1
  /\ f \notin Presences => ~Hidden(S, f)
LeavesOut(f, S) == Hidden(S, f) /\ (f \in Presences => Tallied(S, f) = {})

Tells(b, S) ==
  /\ \A v \in b.values : Says(v.at, v.num, S)
  /\ \A g \in b.gaps : LeavesOut(g.at, S)

LEMMA TalliedIs ==
  ASSUME NEW S
  PROVE  /\ Tallied(S, "members_present") = SeenMembers(S)
         /\ Tallied(S, "member_count") = SeenMembers(S)
         /\ Tallied(S, "sso_member_count") = SeenMembers(S)
         /\ Tallied(S, "external_members_present") = SeenMembers(S) \cap dir.guests
         /\ Tallied(S, "external_member_count") = SeenMembers(S) \cap dir.guests
         /\ Tallied(S, "inactive_member_count") = SeenMembers(S) \ dir.signedIn
         /\ Tallied(S, "admins_present") = SeenAdmins(S)
         /\ Tallied(S, "admin_count") = SeenAdmins(S)
         /\ Tallied(S, "credentials_present") = SeenApps(S)
         /\ Tallied(S, "credential_count") = SeenApps(S)
         /\ Tallied(S, "unused_credential_count") = SeenApps(S)
         /\ Tallied(S, "never_expiring_credential_count") =
              SeenApps(S) \cap dir.neverExpiring
         /\ Tallied(S, "rotation_overdue_credential_count") = SeenApps(S) \cap dir.overdue
         /\ Tallied(S, "write_access_credential_count") =
              SeenWriters(S) \ dir.disabledApps
         /\ Tallied(S, "unrestricted_credential_count") = SeenWriters(S)
BY DEF Tallied

LEMMA HiddenIs ==
  ASSUME NEW S
  PROVE  /\ \A f \in {"members_present", "member_count", "sso_member_count",
                      "sso_coverage_pct", "external_members_present",
                      "external_member_count"} : Hidden(S, f) <=> MembersHidden(S)
         /\ \A f \in {"inactive_member_count", "inactive_pct"} : Hidden(S, f) <=>
              MembersHidden(S) \/ (SeenMembers(S) # {} /\ dir.signInMiss # NoWhy)
         /\ \A f \in {"admins_present", "admin_count"} : Hidden(S, f) <=> AdminsHidden(S)
         /\ Hidden(S, "admin_share_pct") <=> AdminsHidden(S) \/ HoldersHidden(S)
         /\ \A f \in {"credentials_present", "credential_count"} :
              Hidden(S, f) <=> HoldersHidden(S)
         /\ \A f \in {"never_expiring_credential_count", "never_expiring_pct",
                      "rotation_overdue_credential_count", "rotation_overdue_pct"} :
              Hidden(S, f) <=> HoldersHidden(S) \/ AppsHidden(S)
         /\ \A f \in {"write_access_credential_count", "write_access_pct"} :
              Hidden(S, f) <=>
                \/ HoldersHidden(S)
                \/ SeenWriters(S) # {} /\ dir.servicePrincipalsMiss # NoWhy
         /\ \A f \in {"unrestricted_credential_count", "unrestricted_pct"} :
              Hidden(S, f) <=> HoldersHidden(S) \/ SeenWriters(S) # {}
         /\ \A f \in {"unused_credential_count", "unused_pct"} :
              Hidden(S, f) <=> HoldersHidden(S) \/ SeenApps(S) # {}
<1>. DEFINE members == MembersHidden(S)
            inactive == MembersHidden(S) \/ (SeenMembers(S) # {} /\ dir.signInMiss # NoWhy)
            admins == AdminsHidden(S)
            holding == HoldersHidden(S)
            apps == AppsHidden(S)
            writing == SeenWriters(S) # {} /\ dir.servicePrincipalsMiss # NoWhy
            writers == SeenWriters(S) # {}
            ids == SeenApps(S) # {}
<1>1. \A f : Hidden(S, f) =
  CASE f \in {"members_present", "member_count", "sso_member_count", "sso_coverage_pct",
              "external_members_present", "external_member_count"} -> members
    [] f \in {"inactive_member_count", "inactive_pct"} -> inactive
    [] f \in {"admins_present", "admin_count"} -> admins
    [] f = "admin_share_pct" -> admins \/ holding
    [] f \in {"credentials_present", "credential_count"} -> holding
    [] f \in {"never_expiring_credential_count", "never_expiring_pct",
              "rotation_overdue_credential_count", "rotation_overdue_pct"} ->
         holding \/ apps
    [] f \in {"write_access_credential_count", "write_access_pct"} ->
         holding \/ writing
    [] f \in {"unrestricted_credential_count", "unrestricted_pct"} ->
         holding \/ writers
    [] f \in {"unused_credential_count", "unused_pct"} ->
         holding \/ ids
    [] OTHER -> FALSE
  BY Zenon DEF Hidden
<1>. HIDE DEF members, inactive, admins, holding, apps, writing, writers, ids
<1>2. \A f \in {"members_present", "member_count", "sso_member_count",
                "sso_coverage_pct", "external_members_present",
                "external_member_count"} : Hidden(S, f) <=> members
  BY <1>1
<1>3. \A f \in {"inactive_member_count", "inactive_pct"} : Hidden(S, f) <=> inactive
  BY <1>1
<1>4. \A f \in {"admins_present", "admin_count"} : Hidden(S, f) <=> admins
  BY <1>1
<1>5. Hidden(S, "admin_share_pct") <=> admins \/ holding
  BY <1>1
<1>6. \A f \in {"credentials_present", "credential_count"} : Hidden(S, f) <=> holding
  BY <1>1
<1>7. \A f \in {"never_expiring_credential_count", "never_expiring_pct",
                "rotation_overdue_credential_count", "rotation_overdue_pct"} :
         Hidden(S, f) <=> holding \/ apps
  BY <1>1
<1>8. \A f \in {"write_access_credential_count", "write_access_pct"} :
         Hidden(S, f) <=> holding \/ writing
  BY <1>1
<1>9. \A f \in {"unrestricted_credential_count", "unrestricted_pct"} :
         Hidden(S, f) <=> holding \/ writers
  BY <1>1
<1>10. \A f \in {"unused_credential_count", "unused_pct"} :
         Hidden(S, f) <=> holding \/ ids
  BY <1>1
<1>. QED
  BY <1>2, <1>3, <1>4, <1>5, <1>6, <1>7, <1>8, <1>9, <1>10, Zenon
     DEF members, inactive, admins, holding, apps, writing, writers, ids

(* What a population leaves open is what its scope hides.                  *)
LEMMA FirstMissingIs ==
  ASSUME NEW a, NEW b
  PROVE  firstMissing(a, b) # NoWhy <=> a # NoWhy \/ b # NoWhy
BY DEF firstMissing

LEMMA MissingIs ==
  ASSUME NEW scope, NEW p, Describes(p, scope)
  PROVE  /\ p.why # NoWhy <=> Unread(scope)
         /\ holdersMiss(p) # NoWhy <=> Unsorted(scope) # {}
         /\ adminHoldersMiss(p) # NoWhy <=> \E a \in Unsorted(scope) : a.role = "admin"
<1>1. \A a \in Unsorted(scope) : a.type = "Group" \/ a.type = "Other"
  BY DEF Unsorted
<1>2. holdersMiss(p) # NoWhy <=> p.groupHeld \/ p.otherHeld
  BY DEF holdersMiss, NoWhy
<1>3. adminHoldersMiss(p) # NoWhy <=> p.groupHeldAdmin \/ p.otherHeldAdmin
  BY DEF adminHoldersMiss, NoWhy
<1>4. /\ p.groupHeld <=> \E a \in Unsorted(scope) : a.type = "Group"
      /\ p.otherHeld <=> \E a \in Unsorted(scope) : a.type = "Other"
      /\ p.groupHeldAdmin <=>
           \E a \in Unsorted(scope) : a.type = "Group" /\ a.role = "admin"
      /\ p.otherHeldAdmin <=>
           \E a \in Unsorted(scope) : a.type = "Other" /\ a.role = "admin"
  BY Zenon DEF Describes
<1>5. p.why # NoWhy <=> Unread(scope)
  BY Zenon DEF Describes
<1>6. holdersMiss(p) # NoWhy <=> Unsorted(scope) # {}
  BY <1>1, <1>2, <1>4, Zenon
<1>. QED
  BY <1>1, <1>3, <1>4, <1>5, <1>6, Zenon

(* What the parts of a block say.                                          *)
LEMMA BothTell ==
  ASSUME NEW a, NEW b, NEW S, Tells(a, S), Tells(b, S)
  PROVE  Tells(Both(a, b), S)
BY BothIs DEF Tells

LEMMA KindsApart ==
  /\ \A f \in Counts : f \notin Presences /\ f \notin Shares
  /\ \A f \in Presences : f \notin Counts /\ f \notin Shares
  /\ \A f \in Shares : f \notin Counts /\ f \notin Presences
BY DEF Counts, MemberCounts, CredentialCounts, Presences, Shares

LEMMA GapIs ==
  ASSUME NEW why, NEW F, NEW g \in leaveOut(why, F)
  PROVE  why # NoWhy /\ g.at \in F
BY DEF leaveOut

LEMMA GapsTell ==
  ASSUME NEW S, NEW why, NEW F, why # NoWhy => \A f \in F : LeavesOut(f, S)
  PROVE  Tells(Block({}, leaveOut(why, F)), S)
BY BlockIs, GapIs DEF Tells

LEMMA PresentTells ==
  ASSUME NEW S, NEW f \in Presences, IsFiniteSet(Tallied(S, f)),
         NEW why, why # NoWhy <=> Hidden(S, f),
         NEW n, n = Cardinality(Tallied(S, f))
  PROVE  Tells(present(f, n, why), S)
<1>1. n \in Nat /\ (n = 0 <=> Tallied(S, f) = {})
  BY FS_CardinalityType, FS_EmptySet
<1>2. ASSUME NEW v \in present(f, n, why).values PROVE Says(v.at, v.num, S)
  <2>1. /\ v.at = f /\ (n > 0 => v.num = 1)
        /\ n = 0 => why = NoWhy /\ v.num = 0
    BY <1>1, PresentIs
  <2>. QED
    BY <1>1, <2>1, KindsApart DEF Says
<1>3. ASSUME NEW g \in present(f, n, why).gaps PROVE LeavesOut(g.at, S)
  <2>1. n = 0 /\ why # NoWhy
    <3>1. n > 0 => present(f, n, why).gaps = {}
      BY <1>1, BlockIs DEF present
    <3>2. n = 0 /\ why = NoWhy => present(f, n, why).gaps = {}
      BY <1>1, BlockIs DEF present
    <3>. QED
      BY <1>1, <1>3, <3>1, <3>2
  <2>2. g \in leaveOut(why, {f})
    BY <2>1, BlockIs DEF present
  <2>3. g.at = f
    BY <2>2, GapIs
  <2>. QED
    BY <1>1, <2>1, <2>3 DEF LeavesOut
<1>. QED
  BY <1>2, <1>3 DEF Tells

LEMMA CountTells ==
  ASSUME NEW S, NEW f \in Counts, ~Hidden(S, f),
         NEW n, n = Cardinality(Tallied(S, f))
  PROVE  Tells(Block(count(f, {n}), {}), S)
<1>1. ASSUME NEW v \in count(f, {n}) PROVE Says(v.at, v.num, S)
  <2>1. v.at = f /\ v.num = n
    BY CountIs
  <2>. QED
    BY <2>1, KindsApart DEF Says
<1>. QED
  BY <1>1, BlockIs DEF Tells

LEMMA SharedTells ==
  ASSUME NEW S, NEW cf \in Counts, NEW pf \in Shares, NEW c, NEW n, CountMade(c, n),
         Hidden(S, cf) <=> c.why # NoWhy, Hidden(S, pf) <=> c.why # NoWhy,
         \A m \in c.ns : m = Cardinality(Tallied(S, cf))
  PROVE  Tells(CountAndShare(cf, pf, c, n), S)
<1>. DEFINE b == CountAndShare(cf, pf, c, n)
<1>1. /\ b.values = count(cf, c.ns) \cup share(pf, c.ns, n)
      /\ b.gaps = leaveOut(c.why, {cf, pf})
  BY BlockIs DEF CountAndShare
<1>2. ASSUME NEW v \in count(cf, c.ns) PROVE Says(v.at, v.num, S)
  <2>1. v.at = cf /\ v.num \in c.ns
    BY CountIs
  <2>2. c.why = NoWhy
    BY <2>1 DEF CountMade
  <2>. QED
    BY <2>1, <2>2, KindsApart DEF Says
<1>3. ASSUME NEW v \in share(pf, c.ns, n) PROVE Says(v.at, v.num, S)
  <2>1. v.at = pf /\ (n # 0 => v.num \in c.ns)
    BY ShareIs
  <2>2. c.why = NoWhy
    BY <2>1 DEF CountMade
  <2>. QED
    BY <2>1, <2>2, KindsApart DEF Says
<1>4. ASSUME NEW g \in leaveOut(c.why, {cf, pf}) PROVE LeavesOut(g.at, S)
  <2>1. c.why # NoWhy /\ g.at \in {cf, pf}
    BY GapIs
  <2>. QED
    BY <2>1, KindsApart DEF LeavesOut
<1>. HIDE DEF b
<1>5. Tells(b, S)
  BY <1>1, <1>2, <1>3, <1>4 DEF Tells
<1>. QED
  BY <1>5 DEF b

(* What each section says.                                                 *)
LEMMA MembersTell ==
  ASSUME AccountsTyped, NEW scope \in SUBSET (1 .. Len(accounts)), NEW p,
         Describes(p, scope)
  PROVE  Tells(accessMembers(p), scope)
<1>. DEFINE members == roleHolders(p.users)
            guests == Cardinality(members \cap dir.guests)
            n == Cardinality(members)
            why == firstMissing(firstMissing(p.why, dir.usersMiss), holdersMiss(p))
            here == present("members_present", n, why)
            outside == present("external_members_present", guests, why)
            counted == Block(count("member_count", {n}), {})
            external == Block(count("external_member_count", {guests}), {})
            sso == CountAndShare("sso_member_count", "sso_coverage_pct",
                                 [ns |-> {n}, why |-> NoWhy], n)
            inactive == CountAndShare("inactive_member_count", "inactive_pct",
                                      inactiveMembers(members), n)
            unknown == Block({}, leaveOut(why, MemberFields \ Presences))
            known == Both(Both(counted, external), Both(sso, inactive))
<1>1. accessMembers(p) = Both(Both(here, outside), IF why # NoWhy THEN unknown ELSE known)
  BY DEF accessMembers
<1>2. members = SeenMembers(scope)
  BY Zenon DEF Describes, SeenMembers
<1>3. why # NoWhy <=> MembersHidden(scope)
  BY FirstMissingIs, MissingIs DEF MembersHidden, HoldersHidden
<1>4. IsFiniteSet(members) /\ IsFiniteSet(members \cap dir.guests)
  BY KnownFinite, FS_Subset
<1>5. n = 0 <=> members = {}
  BY <1>4, FS_EmptySet
<1>. HIDE DEF members, why
<1>6. Tells(here, scope) /\ Tells(outside, scope)
  <2>1. "members_present" \in Presences /\ "external_members_present" \in Presences
    BY DEF Presences
  <2>2. Tells(here, scope)
    BY <1>2, <1>3, <1>4, <2>1, PresentTells, TalliedIs, HiddenIs
  <2>3. Tells(outside, scope)
    BY <1>2, <1>3, <1>4, <2>1, PresentTells, TalliedIs, HiddenIs
  <2>. QED
    BY <2>2, <2>3
<1>7. Tells(unknown, scope)
  <2>1. ASSUME why # NoWhy, NEW f \in MemberFields \ Presences PROVE LeavesOut(f, scope)
    <3>1. f \in {"member_count", "sso_member_count", "sso_coverage_pct",
                 "external_member_count", "inactive_member_count", "inactive_pct"}
      BY DEF MemberFields, MemberCounts, Presences
    <3>2. Hidden(scope, f)
      BY <1>3, <2>1, <3>1, HiddenIs
    <3>. QED
      BY <3>2 DEF LeavesOut
  <2>. QED
    BY <2>1, GapsTell
<1>8. ASSUME why = NoWhy PROVE Tells(known, scope)
  <2>1. /\ "member_count" \in Counts /\ "external_member_count" \in Counts
        /\ "sso_member_count" \in Counts /\ "inactive_member_count" \in Counts
        /\ "sso_coverage_pct" \in Shares /\ "inactive_pct" \in Shares
    BY DEF Counts, MemberCounts, Shares
  <2>2. ~MembersHidden(scope)
    BY <1>3, <1>8
  <2>3. Tells(counted, scope) /\ Tells(external, scope)
    BY <1>2, <2>1, <2>2, CountTells, TalliedIs, HiddenIs
  <2>4. Tells(sso, scope)
    <3>. DEFINE c == [ns |-> {n}, why |-> NoWhy]
    <3>1. CountMade(c, n) /\ c.why = NoWhy /\ \A m \in c.ns : m = n
      BY DEF CountMade
    <3>. HIDE DEF c
    <3>2. Tells(CountAndShare("sso_member_count", "sso_coverage_pct", c, n), scope)
      BY <1>2, <2>1, <2>2, <3>1, SharedTells, TalliedIs, HiddenIs
    <3>. QED
      BY <3>2 DEF c
  <2>5. Tells(inactive, scope)
    <3>. DEFINE c == inactiveMembers(members)
    <3>1. CountMade(c, n) /\ (c.why # NoWhy <=> members # {} /\ dir.signInMiss # NoWhy)
      <4>1. CASE members = {}
        BY <4>1 DEF inactiveMembers, CountMade
      <4>2. CASE members # {}
        BY <1>5, <4>2 DEF inactiveMembers, CountMade
      <4>. QED
        BY <4>1, <4>2
    <3>2. \A m \in c.ns : m = Cardinality(members \ dir.signedIn)
      BY InactiveIs
    <3>. HIDE DEF c
    <3>3. Tells(CountAndShare("inactive_member_count", "inactive_pct", c, n), scope)
      BY <1>2, <2>1, <2>2, <3>1, <3>2, SharedTells, TalliedIs, HiddenIs
    <3>. QED
      BY <3>3 DEF c
  <2>. HIDE DEF counted, external, sso, inactive
  <2>6. Tells(Both(counted, external), scope) /\ Tells(Both(sso, inactive), scope)
    BY <2>3, <2>4, <2>5, BothTell
  <2>. QED
    BY <2>6, BothTell
<1>. HIDE DEF here, outside, known, unknown, why
<1>9. Tells(IF why # NoWhy THEN unknown ELSE known, scope)
  BY <1>7, <1>8
<1>. QED
  BY <1>1, <1>6, <1>9, BothTell

LEMMA AdminsTell ==
  ASSUME AccountsTyped, NEW scope \in SUBSET (1 .. Len(accounts)), NEW p,
         Describes(p, scope)
  PROVE  Tells(accessAdmins(p), scope)
<1>. DEFINE known == roleHolders(p.admins)
            n == Cardinality(known)
            why == firstMissing(firstMissing(p.why, dir.usersMiss), adminHoldersMiss(p))
            flag == present("admins_present", n, why)
            counted == Block(count("admin_count", {n}), {})
            all == Cardinality(roleHolders(p.users))
            shared == Block(share("admin_share_pct", {n}, all), {})
            allUnknown == Block({}, leaveOut(why, {"admin_count", "admin_share_pct"}))
            shareUnknown == Block({}, leaveOut(holdersMiss(p), {"admin_share_pct"}))
<1>1. accessAdmins(p) =
        Both(flag, IF why # NoWhy THEN allUnknown ELSE Both(counted, adminShare(p, n)))
  BY DEF accessAdmins
<1>2. adminShare(p, n) = IF holdersMiss(p) # NoWhy THEN shareUnknown ELSE shared
  BY DEF adminShare
<1>3. known = SeenAdmins(scope)
  BY Zenon DEF Describes, SeenAdmins
<1>4. why # NoWhy <=> AdminsHidden(scope)
  BY FirstMissingIs, MissingIs DEF AdminsHidden
<1>5. holdersMiss(p) # NoWhy => HoldersHidden(scope)
  BY MissingIs DEF HoldersHidden
<1>6. why = NoWhy /\ holdersMiss(p) = NoWhy => ~HoldersHidden(scope)
  BY FirstMissingIs, MissingIs DEF HoldersHidden
<1>7. IsFiniteSet(known)
  BY KnownFinite
<1>. HIDE DEF known, why, all
<1>8. /\ "admins_present" \in Presences /\ "admin_count" \in Counts
      /\ "admin_share_pct" \in Shares
  BY DEF Presences, Counts, Shares
<1>9. Tells(flag, scope)
  BY <1>3, <1>4, <1>7, <1>8, PresentTells, TalliedIs, HiddenIs
<1>10. Tells(allUnknown, scope)
  <2>1. ASSUME why # NoWhy, NEW f \in {"admin_count", "admin_share_pct"}
        PROVE  LeavesOut(f, scope)
    <3>1. Hidden(scope, f)
      BY <1>4, <2>1, HiddenIs
    <3>. QED
      BY <1>8, <3>1, KindsApart DEF LeavesOut
  <2>. QED
    BY <2>1, GapsTell
<1>11. Tells(shareUnknown, scope)
  <2>1. ASSUME holdersMiss(p) # NoWhy, NEW f \in {"admin_share_pct"}
        PROVE  LeavesOut(f, scope)
    <3>1. Hidden(scope, f)
      BY <1>5, <2>1, HiddenIs
    <3>. QED
      BY <1>8, <3>1, KindsApart DEF LeavesOut
  <2>. QED
    BY <2>1, GapsTell
<1>12. why = NoWhy => Tells(counted, scope)
  BY <1>3, <1>4, <1>8, CountTells, TalliedIs, HiddenIs
<1>13. why = NoWhy /\ holdersMiss(p) = NoWhy => Tells(shared, scope)
  <2>1. ASSUME why = NoWhy, holdersMiss(p) = NoWhy,
               NEW v \in share("admin_share_pct", {n}, all)
        PROVE  Says(v.at, v.num, scope)
    <3>1. v.at = "admin_share_pct"
      BY ShareIs
    <3>2. ~Hidden(scope, "admin_share_pct")
      BY <1>4, <1>6, <2>1, HiddenIs
    <3>. QED
      BY <1>8, <3>1, <3>2, KindsApart DEF Says
  <2>2. /\ shared.values = share("admin_share_pct", {n}, all)
        /\ shared.gaps = {}
    BY BlockIs
  <2>. HIDE DEF shared
  <2>. QED
    BY <2>1, <2>2 DEF Tells
<1>. HIDE DEF flag, counted, shared, allUnknown, shareUnknown
<1>14. why = NoWhy => Tells(adminShare(p, n), scope)
  BY <1>2, <1>11, <1>13
<1>15. why = NoWhy => Tells(Both(counted, adminShare(p, n)), scope)
  BY <1>12, <1>14, BothTell
<1>16. Tells(IF why # NoWhy THEN allUnknown ELSE Both(counted, adminShare(p, n)), scope)
  BY <1>10, <1>15
<1>. QED
  BY <1>1, <1>9, <1>16, BothTell

(* A count that is made unless something is missing.                       *)
LEMMA CredentialCountMade ==
  ASSUME NEW ids, NEW matching, NEW n, n = 0 => ids = {}
  PROVE  LET c == countServicePrincipalCredentials(ids, matching) IN
         /\ CountMade(c, n)
         /\ c.why # NoWhy <=>
              \/ ids # {} /\ dir.servicePrincipalsMiss # NoWhy
              \/ ids \cap dir.apps # {} /\ dir.applicationsMiss # NoWhy
<1>1. CASE ids = {}
  <2>1. ids \cap dir.apps = {}
    BY <1>1
  <2>. QED
    BY <1>1, <2>1 DEF countServicePrincipalCredentials, CountMade
<1>2. CASE ids # {} /\ dir.servicePrincipalsMiss # NoWhy
  BY <1>2 DEF countServicePrincipalCredentials, CountMade
<1>3. CASE ids # {} /\ dir.servicePrincipalsMiss = NoWhy
  <2>1. CASE ids \cap dir.apps # {} /\ dir.applicationsMiss # NoWhy
    BY <1>3, <2>1 DEF countServicePrincipalCredentials, CountMade
  <2>2. CASE ~(ids \cap dir.apps # {} /\ dir.applicationsMiss # NoWhy)
    BY <1>3, <2>2 DEF countServicePrincipalCredentials, CountMade
  <2>. QED
    BY <2>1, <2>2
<1>. QED
  BY <1>1, <1>2, <1>3

LEMMA EnabledCountMade ==
  ASSUME NEW ids, NEW n, n = 0 => ids = {}
  PROVE  LET c == enabledServicePrincipals(ids) IN
         /\ CountMade(c, n)
         /\ c.why # NoWhy <=> ids # {} /\ dir.servicePrincipalsMiss # NoWhy
<1>1. CASE ids = {}
  BY <1>1 DEF enabledServicePrincipals, CountMade
<1>2. CASE ids # {} /\ dir.servicePrincipalsMiss # NoWhy
  BY <1>2 DEF enabledServicePrincipals, CountMade
<1>3. CASE ids # {} /\ dir.servicePrincipalsMiss = NoWhy
  BY <1>3 DEF enabledServicePrincipals, CountMade
<1>. QED
  BY <1>1, <1>2, <1>3

(* A number that is 0 when nobody is concerned, and missing otherwise.     *)
ZeroOrMissing(S, why) ==
  IF S = {} THEN [ns |-> {0}, why |-> NoWhy] ELSE [ns |-> {}, why |-> why]

LEMMA NoneCountMade ==
  ASSUME NEW S, NEW why, why # NoWhy, NEW n, n = 0 => S = {}
  PROVE  /\ CountMade(ZeroOrMissing(S, why), n)
         /\ ZeroOrMissing(S, why).why # NoWhy <=> S # {}
         /\ \A m \in ZeroOrMissing(S, why).ns : m = 0 /\ S = {}
<1>1. CASE S = {}
  BY <1>1 DEF ZeroOrMissing, CountMade
<1>2. CASE S # {}
  BY <1>2 DEF ZeroOrMissing, CountMade
<1>. QED
  BY <1>1, <1>2

LEMMA CredentialsTell ==
  ASSUME AccountsTyped, NEW scope \in SUBSET (1 .. Len(accounts)), NEW p,
         Describes(p, scope)
  PROVE  Tells(accessCredentials(p), scope)
<1>. DEFINE ids == p.servicePrincipals
            writers == p.writers
            n == Cardinality(ids)
            why == firstMissing(p.why, holdersMiss(p))
            flag == present("credentials_present", n, why)
            counted == Block(count("credential_count", {n}), {})
            limits == IF writers = {} THEN [ns |-> {0}, why |-> NoWhy]
                      ELSE [ns |-> {}, why |-> "service_principal_limits"]
            use == IF n = 0 THEN [ns |-> {0}, why |-> NoWhy]
                   ELSE [ns |-> {}, why |-> "service_principal_use"]
            expiring == countServicePrincipalCredentials(ids, dir.neverExpiring)
            enabled == enabledServicePrincipals(writers)
            rotated == countServicePrincipalCredentials(ids, dir.overdue)
            never == CountAndShare("never_expiring_credential_count", "never_expiring_pct",
                       expiring, n)
            write == CountAndShare("write_access_credential_count", "write_access_pct",
                       enabled, n)
            overdue == CountAndShare("rotation_overdue_credential_count",
                         "rotation_overdue_pct", rotated, n)
            unrestricted == CountAndShare("unrestricted_credential_count",
                              "unrestricted_pct", limits, n)
            unused == CountAndShare("unused_credential_count", "unused_pct", use, n)
            details == Both(Both(never, write), Both(overdue, Both(unrestricted, unused)))
            allUnknown == Block({}, leaveOut(why, CredentialFields \ Presences))
<1>1. accessCredentials(p) =
        Both(flag, IF why # NoWhy THEN allUnknown ELSE Both(counted, details))
  BY DEF accessCredentials
<1>2. ids = SeenApps(scope) /\ writers = SeenWriters(scope)
  BY Zenon DEF Describes, SeenApps, SeenWriters
<1>3. why # NoWhy <=> HoldersHidden(scope)
  BY FirstMissingIs, MissingIs DEF HoldersHidden
<1>4. IsFiniteSet(ids) /\ IsFiniteSet(writers) /\ (n = 0 <=> ids = {})
  BY KnownFinite, FS_EmptySet
<1>5. ids = {} => writers = {}
  <2>1. \A u : u \in SeenWriters(scope) => u \in SeenApps(scope)
    BY HoldersAre DEF SeenWriters, SeenApps
  <2>. QED
    BY <1>2, <2>1
<1>. HIDE DEF ids, writers, why, n
<1>6. /\ "credentials_present" \in Presences /\ "credential_count" \in Counts
      /\ "never_expiring_credential_count" \in Counts /\ "never_expiring_pct" \in Shares
      /\ "write_access_credential_count" \in Counts /\ "write_access_pct" \in Shares
      /\ "rotation_overdue_credential_count" \in Counts
      /\ "rotation_overdue_pct" \in Shares
      /\ "unrestricted_credential_count" \in Counts /\ "unrestricted_pct" \in Shares
      /\ "unused_credential_count" \in Counts /\ "unused_pct" \in Shares
  BY DEF Presences, Counts, CredentialCounts, Shares
<1>7. Tells(flag, scope)
  BY <1>2, <1>3, <1>4, <1>6, PresentTells, TalliedIs, HiddenIs DEF n
<1>8. Tells(allUnknown, scope)
  <2>1. ASSUME why # NoWhy, NEW f \in CredentialFields \ Presences
        PROVE  LeavesOut(f, scope)
    <3>1. f \in {"credential_count",
                 "never_expiring_credential_count", "never_expiring_pct",
                 "rotation_overdue_credential_count", "rotation_overdue_pct",
                 "write_access_credential_count", "write_access_pct",
                 "unrestricted_credential_count", "unrestricted_pct",
                 "unused_credential_count", "unused_pct"}
      BY DEF CredentialFields, CredentialCounts, Presences
    <3>2. Hidden(scope, f)
      BY <1>3, <2>1, <3>1, HiddenIs
    <3>. QED
      BY <3>2 DEF LeavesOut
  <2>. QED
    BY <2>1, GapsTell
<1>9. ASSUME why = NoWhy PROVE Tells(Both(counted, details), scope)
  <2>1. ~HoldersHidden(scope)
    BY <1>3, <1>9
  <2>2. Tells(counted, scope)
    BY <1>2, <1>6, <2>1, CountTells, TalliedIs, HiddenIs DEF n
  <2>3. Tells(never, scope)
    <3>1. CountMade(expiring, n) /\ (expiring.why # NoWhy <=> AppsHidden(scope))
      BY <1>2, <1>4, CredentialCountMade DEF AppsHidden
    <3>2. \A m \in expiring.ns : m = Cardinality(ids \cap dir.neverExpiring)
      BY CountedCredentials
    <3>. HIDE DEF expiring
    <3>. QED
      BY <1>2, <1>6, <2>1, <3>1, <3>2, SharedTells, TalliedIs, HiddenIs
  <2>4. Tells(write, scope)
    <3>1. /\ CountMade(enabled, n)
          /\ enabled.why # NoWhy <=>
               SeenWriters(scope) # {} /\ dir.servicePrincipalsMiss # NoWhy
      BY <1>2, <1>4, <1>5, EnabledCountMade
    <3>2. \A m \in enabled.ns : m = Cardinality(writers \ dir.disabledApps)
      BY EnabledCounted
    <3>. HIDE DEF enabled
    <3>. QED
      BY <1>2, <1>6, <2>1, <3>1, <3>2, SharedTells, TalliedIs, HiddenIs
  <2>5. Tells(overdue, scope)
    <3>1. CountMade(rotated, n) /\ (rotated.why # NoWhy <=> AppsHidden(scope))
      BY <1>2, <1>4, CredentialCountMade DEF AppsHidden
    <3>2. \A m \in rotated.ns : m = Cardinality(ids \cap dir.overdue)
      BY CountedCredentials
    <3>. HIDE DEF rotated
    <3>. QED
      BY <1>2, <1>6, <2>1, <3>1, <3>2, SharedTells, TalliedIs, HiddenIs
  <2>6. Tells(unrestricted, scope)
    <3>1. /\ CountMade(limits, n) /\ (limits.why # NoWhy <=> writers # {})
          /\ \A m \in limits.ns : m = 0 /\ writers = {}
      <4>1. "service_principal_limits" # NoWhy
        BY DEF NoWhy
      <4>2. n = 0 => writers = {}
        BY <1>4, <1>5
      <4>3. limits = ZeroOrMissing(writers, "service_principal_limits")
        BY <1>4 DEF ZeroOrMissing
      <4>. HIDE DEF limits
      <4>. QED
        BY <4>1, <4>2, <4>3, NoneCountMade
    <3>2. \A m \in limits.ns : m = Cardinality(writers)
      BY <3>1, FS_EmptySet
    <3>. HIDE DEF limits
    <3>. QED
      BY <1>2, <1>6, <2>1, <3>1, <3>2, SharedTells, TalliedIs, HiddenIs
  <2>7. Tells(unused, scope)
    <3>1. /\ CountMade(use, n) /\ (use.why # NoWhy <=> ids # {})
          /\ \A m \in use.ns : m = 0 /\ ids = {}
      <4>1. "service_principal_use" # NoWhy
        BY DEF NoWhy
      <4>2. n = 0 => ids = {}
        BY <1>4, <1>5
      <4>3. use = ZeroOrMissing(ids, "service_principal_use")
        BY <1>4 DEF ZeroOrMissing
      <4>. HIDE DEF use
      <4>. QED
        BY <4>1, <4>2, <4>3, NoneCountMade
    <3>2. \A m \in use.ns : m = Cardinality(ids)
      BY <3>1, FS_EmptySet
    <3>. HIDE DEF use
    <3>. QED
      BY <1>2, <1>6, <2>1, <3>1, <3>2, SharedTells, TalliedIs, HiddenIs
  <2>. HIDE DEF counted, never, write, overdue, unrestricted, unused
  <2>8. Tells(Both(never, write), scope) /\ Tells(Both(unrestricted, unused), scope)
    BY <2>3, <2>4, <2>6, <2>7, BothTell
  <2>9. Tells(Both(overdue, Both(unrestricted, unused)), scope)
    BY <2>5, <2>8, BothTell
  <2>10. Tells(details, scope)
    BY <2>8, <2>9, BothTell
  <2>. HIDE DEF details
  <2>. QED
    BY <2>2, <2>10, BothTell
<1>. HIDE DEF flag, counted, details, allUnknown
<1>10. Tells(IF why # NoWhy THEN allUnknown ELSE Both(counted, details), scope)
  BY <1>8, <1>9
<1>. QED
  BY <1>1, <1>7, <1>10, BothTell

LEMMA SectionsTell ==
  ASSUME AccountsTyped, NEW scope \in SUBSET (1 .. Len(accounts)), NEW p,
         Describes(p, scope)
  PROVE  Tells(accessSections(p), scope)
BY MembersTell, AdminsTell, CredentialsTell, BothTell DEF accessSections

(* What is said of a scope stays true, as nothing in it changes.           *)
LEMMA TalliesStay ==
  ASSUME UNCHANGED <<accounts, dir>>
  PROVE  /\ \A f, num, S : Says(f, num, S)' <=> Says(f, num, S)
         /\ \A f, S : LeavesOut(f, S)' <=> LeavesOut(f, S)
         /\ \A place : Scope(place)' = Scope(place)
<1>1. \A S : Seen(S)' = Seen(S) /\ (Unread(S)' <=> Unread(S))
  BY DEF Seen, Unread
<1>2. \A S : Unsorted(S)' = Unsorted(S)
  BY <1>1 DEF Unsorted
<1>3. \A S, type, roles : SeenHolders(S, type, roles)' = SeenHolders(S, type, roles)
  BY <1>1 DEF SeenHolders
<1>4. \A S : /\ SeenMembers(S)' = SeenMembers(S) /\ SeenAdmins(S)' = SeenAdmins(S)
             /\ SeenApps(S)' = SeenApps(S) /\ SeenWriters(S)' = SeenWriters(S)
  BY <1>3 DEF SeenMembers, SeenAdmins, SeenApps, SeenWriters, roleHolders
<1>5. \A S : /\ HoldersHidden(S)' <=> HoldersHidden(S)
             /\ AdminsHidden(S)' <=> AdminsHidden(S)
             /\ AppsHidden(S)' <=> AppsHidden(S)
             /\ MembersHidden(S)' <=> MembersHidden(S)
  BY <1>1, <1>2, <1>4 DEF HoldersHidden, AdminsHidden, AppsHidden, MembersHidden
<1>6. \A S, f : Tallied(S, f)' = Tallied(S, f)
  BY <1>4 DEF Tallied
<1>7. \A S, f : Hidden(S, f)' <=> Hidden(S, f)
  BY <1>4, <1>5 DEF Hidden
<1>8. \A f, num, S : Says(f, num, S)' <=> Says(f, num, S)
  BY <1>6, <1>7 DEF Says
<1>9. \A f, S : LeavesOut(f, S)' <=> LeavesOut(f, S)
  BY <1>6, <1>7 DEF LeavesOut
<1>. QED
  BY <1>8, <1>9 DEF Scope

Told ==
  /\ \A v \in values : Says(v.at, v.num, Scope(v.place))
  /\ \A g \in gaps : LeavesOut(g.at, Scope(g.place))

ToldInv ==
  /\ posture = "written" => subscription = Len(accounts) + 1 /\ Len(accounts) > 0
  /\ Told

LEMMA EmittedTells ==
  ASSUME NEW place, NEW block, Emit(place, block), Told,
         Tells(block, Scope(place)), UNCHANGED <<accounts, dir>>
  PROVE  Told'
<1>1. ASSUME NEW w \in values' PROVE Says(w.at, w.num, Scope(w.place))
  <2>1. CASE w \in values
    BY <2>1 DEF Told
  <2>2. CASE w \notin values
    <3>1. PICK v \in block.values :
            w = [place |-> place, at |-> v.at, num |-> v.num, of |-> v.of]
      BY <2>2 DEF Emit
    <3>2. w.place = place /\ w.at = v.at /\ w.num = v.num
      BY <3>1
    <3>3. Says(v.at, v.num, Scope(place))
      BY DEF Tells
    <3>. QED
      BY <3>2, <3>3, Zenon
  <2>. QED
    BY <2>1, <2>2
<1>2. ASSUME NEW w \in gaps' PROVE LeavesOut(w.at, Scope(w.place))
  <2>1. CASE w \in gaps
    BY <2>1 DEF Told
  <2>2. CASE w \notin gaps
    <3>1. PICK g \in block.gaps : w = [place |-> place, at |-> g.at, why |-> g.why]
      BY <2>2 DEF Emit
    <3>2. w.place = place /\ w.at = g.at
      BY <3>1
    <3>3. LeavesOut(g.at, Scope(place))
      BY DEF Tells
    <3>. QED
      BY <3>2, <3>3, Zenon
  <2>. QED
    BY <2>1, <2>2
<1>. QED
  BY <1>1, <1>2, TalliesStay DEF Told

LEMMA ToldStays ==
  ASSUME Told, UNCHANGED <<accounts, dir, values, gaps>>
  PROVE  Told'
BY TalliesStay DEF Told

(* An unread subscription says nothing of any field.                       *)
LEMMA UnreadTells ==
  ASSUME NEW i, accounts[i].unreadable
  PROVE  Tells(Block({}, leaveOut("unreadable", Fields)), {i})
<1>1. Unread({i}) /\ \A type, roles : SeenHolders({i}, type, roles) = {}
  BY OneScope, NoHolders
<1>2. /\ SeenMembers({i}) = {} /\ SeenAdmins({i}) = {} /\ SeenApps({i}) = {}
  BY <1>1 DEF SeenMembers, SeenAdmins, SeenApps, roleHolders
<1>3. HoldersHidden({i}) /\ MembersHidden({i}) /\ AdminsHidden({i})
  BY <1>1 DEF HoldersHidden, MembersHidden, AdminsHidden
<1>4. ASSUME NEW f \in Fields PROVE LeavesOut(f, {i})
  <2>1. f \in {"members_present", "member_count", "sso_member_count",
               "sso_coverage_pct", "external_members_present",
               "external_member_count", "inactive_member_count", "inactive_pct",
               "admins_present", "admin_count", "admin_share_pct",
               "credentials_present", "credential_count",
               "never_expiring_credential_count", "never_expiring_pct",
               "rotation_overdue_credential_count", "rotation_overdue_pct",
               "write_access_credential_count", "write_access_pct",
               "unrestricted_credential_count", "unrestricted_pct",
               "unused_credential_count", "unused_pct"}
    BY DEF Fields, MemberFields, AdminFields, CredentialFields, MemberCounts,
           CredentialCounts
  <2>2. Hidden({i}, f)
    BY <1>3, <2>1, HiddenIs
  <2>3. f \in Presences => f \in {"members_present", "external_members_present",
                                 "admins_present", "credentials_present"}
    BY DEF Presences
  <2>4. f \in Presences => Tallied({i}, f) = {}
    BY <1>2, <2>3, TalliedIs
  <2>. QED
    BY <2>2, <2>4 DEF LeavesOut
<1>. QED
  BY <1>4, GapsTell

LEMMA AccessNext_Told ==
  ASSUME AccessInv, ToldInv, [AccessNext]_accessVars
  PROVE  ToldInv'
<1>1. Len(accounts) \in Nat /\ subscription \in 1 .. Len(accounts) + 1 /\ Told
  BY DEF AccessInv, AccountsTyped, ToldInv
<1>2. ASSUME Merge
      PROVE  /\ UNCHANGED <<accounts, dir, level>> /\ subscription \in 1 .. Len(accounts)
             /\ posture' # "written"
  BY <1>1, <1>2 DEF Merge
<1>3. CASE MergeOnly
  BY <1>1, <1>2, <1>3, ToldStays DEF MergeOnly, ToldInv
<1>4. CASE LeaveOutScope
  <2>. DEFINE block == Block({}, leaveOut("unreadable", Fields))
  <2>1. Merge /\ accounts[subscription].unreadable /\ Emit(subscription, block)
    BY <1>4 DEF LeaveOutScope
  <2>2. PICK i : i = subscription
    OBVIOUS
  <2>3. Scope(i) = {i}
    BY <1>2, <2>1, <2>2 DEF Scope
  <2>4. Tells(block, Scope(i))
    BY <2>1, <2>2, <2>3, UnreadTells
  <2>. HIDE DEF block
  <2>5. Told'
    BY <1>1, <1>2, <2>1, <2>2, <2>4, EmittedTells
  <2>. QED
    BY <1>2, <2>1, <2>5 DEF ToldInv
<1>5. CASE WriteScope
  <2>. DEFINE block == accessSections(subscriptionPopulation(accounts[subscription]))
  <2>1. Merge /\ Emit(subscription, block)
    BY <1>5 DEF WriteScope
  <2>2. Tells(block, {subscription})
    BY <1>2, <2>1, SubscriptionStands, SectionsTell DEF AccessInv
  <2>3. Scope(subscription) = {subscription}
    BY <1>2, <2>1 DEF Scope
  <2>. HIDE DEF block
  <2>4. Told'
    BY <1>1, <1>2, <2>1, <2>2, <2>3, EmittedTells
  <2>. QED
    BY <1>2, <2>1, <2>4 DEF ToldInv
<1>6. CASE WriteTotals
  <2>. DEFINE block == accessSections(total)
  <2>1. /\ Emit(0, block) /\ subscription > Len(accounts) /\ Len(accounts) > 0
        /\ UNCHANGED <<accounts, dir, level, subscription, total>>
    BY <1>6 DEF WriteTotals
  <2>2. 1 .. subscription - 1 = 1 .. Len(accounts) /\ subscription = Len(accounts) + 1
    BY <1>1, <2>1
  <2>3. Describes(total, 1 .. Len(accounts))
    BY <2>2, Zenon DEF AccessInv
  <2>4. Tells(block, 1 .. Len(accounts))
    BY <2>3, SectionsTell DEF AccessInv
  <2>5. Scope(0) = 1 .. Len(accounts)
    BY DEF Scope
  <2>. HIDE DEF block
  <2>6. Told'
    BY <1>1, <2>1, <2>4, <2>5, EmittedTells
  <2>. QED
    BY <2>1, <2>2, <2>6 DEF ToldInv
<1>7. CASE NoSubscriptions
  <2>1. UNCHANGED <<accounts, dir, values, gaps>> /\ posture' = "nil"
    BY <1>7 DEF NoSubscriptions
  <2>. QED
    BY <1>1, <2>1, ToldStays DEF ToldInv
<1>8. CASE UNCHANGED accessVars
  <2>1. UNCHANGED <<accounts, dir, values, gaps, posture, subscription>>
    BY <1>8 DEF accessVars
  <2>. QED
    BY <1>1, <2>1, ToldStays DEF ToldInv
<1>. QED
  BY <1>3, <1>4, <1>5, <1>6, <1>7, <1>8 DEF AccessNext

-----------------------------------------------------------------------------
(* All the subscriptions together, by what each of them is.                *)
LEMMA SeenInEach ==
  ASSUME NEW S
  PROVE  /\ Unread(S) <=> \E i \in S : Unread({i})
         /\ \A a : a \in Unsorted(S) <=> \E i \in S : a \in Unsorted({i})
         /\ \A u : /\ u \in SeenMembers(S) <=> \E i \in S : u \in SeenMembers({i})
                   /\ u \in SeenAdmins(S) <=> \E i \in S : u \in SeenAdmins({i})
                   /\ u \in SeenApps(S) <=> \E i \in S : u \in SeenApps({i})
                   /\ u \in SeenWriters(S) <=> \E i \in S : u \in SeenWriters({i})
<1>1. \A a : a \in Seen(S) <=> \E i \in S : a \in Seen({i})
  BY SeenIs
<1>2. Unread(S) <=> \E i \in S : Unread({i})
  BY DEF Unread
<1>3. \A a : a \in Unsorted(S) <=> \E i \in S : a \in Unsorted({i})
  BY <1>1 DEF Unsorted
<1>4. ASSUME NEW type, NEW roles, NEW u
      PROVE  u \in SeenHolders(S, type, roles) <=>
               \E i \in S : u \in SeenHolders({i}, type, roles)
  <2>. DEFINE IsHolder(a) == /\ a.type = type /\ a.role \in roles
                             /\ a.principal = u /\ u # NoPrincipal
  <2>1. ASSUME NEW T
        PROVE  u \in SeenHolders(T, type, roles) <=> \E a \in Seen(T) : IsHolder(a)
    BY HoldersAre
  <2>. HIDE DEF IsHolder
  <2>. QED
    BY <1>1, <2>1, Zenon
<1>5. \A H, u : u \in roleHolders(H) <=>
        u \in H /\ dir.usersMiss = NoWhy /\ u \in dir.users /\ u \notin dir.disabled
  BY DEF roleHolders
<1>6. ASSUME NEW u
      PROVE  /\ u \in SeenMembers(S) <=> \E i \in S : u \in SeenMembers({i})
             /\ u \in SeenAdmins(S) <=> \E i \in S : u \in SeenAdmins({i})
  <2>1. u \in SeenHolders(S, "User", Roles) <=>
          \E i \in S : u \in SeenHolders({i}, "User", Roles)
    BY <1>4, Zenon
  <2>2. u \in SeenHolders(S, "User", {"admin"}) <=>
          \E i \in S : u \in SeenHolders({i}, "User", {"admin"})
    BY <1>4, Zenon
  <2>3. u \in SeenMembers(S) <=> \E i \in S : u \in SeenMembers({i})
    BY <1>5, <2>1, Zenon DEF SeenMembers
  <2>4. u \in SeenAdmins(S) <=> \E i \in S : u \in SeenAdmins({i})
    BY <1>5, <2>2, Zenon DEF SeenAdmins
  <2>. QED
    BY <2>3, <2>4
<1>7. ASSUME NEW u
      PROVE  /\ u \in SeenApps(S) <=> \E i \in S : u \in SeenApps({i})
             /\ u \in SeenWriters(S) <=> \E i \in S : u \in SeenWriters({i})
  BY <1>4, Zenon DEF SeenApps, SeenWriters
<1>. QED
  BY <1>2, <1>3, <1>6, <1>7

LEMMA TalliedInEach ==
  ASSUME NEW S, NEW f \in Counts \cup Presences
  PROVE  \A u : u \in Tallied(S, f) <=> \E i \in S : u \in Tallied({i}, f)
<1>1. f \in {"members_present", "member_count", "sso_member_count",
             "external_members_present", "external_member_count",
             "inactive_member_count", "admins_present", "admin_count",
             "credentials_present", "credential_count",
             "never_expiring_credential_count", "rotation_overdue_credential_count",
             "write_access_credential_count", "unrestricted_credential_count",
             "unused_credential_count"}
  BY DEF Counts, MemberCounts, CredentialCounts, Presences
<1>2. CASE f \in {"members_present", "member_count", "sso_member_count"}
  <2>1. \A T : Tallied(T, f) = SeenMembers(T)
    BY <1>2, TalliedIs
  <2>2. \A u : u \in SeenMembers(S) <=> \E i \in S : u \in SeenMembers({i})
    BY SeenInEach, Zenon
  <2>. QED
    BY <2>1, <2>2
<1>3. CASE f \in {"external_members_present", "external_member_count"}
  <2>1. \A T : Tallied(T, f) = SeenMembers(T) \cap dir.guests
    BY <1>3, TalliedIs
  <2>2. \A u : u \in SeenMembers(S) <=> \E i \in S : u \in SeenMembers({i})
    BY SeenInEach, Zenon
  <2>3. \A T, u : u \in Tallied(T, f) <=> u \in SeenMembers(T) /\ u \in dir.guests
    BY <2>1
  <2>. QED
    BY <2>2, <2>3, Zenon
<1>4. CASE f = "inactive_member_count"
  <2>1. \A T : Tallied(T, f) = SeenMembers(T) \ dir.signedIn
    BY <1>4, TalliedIs
  <2>2. \A u : u \in SeenMembers(S) <=> \E i \in S : u \in SeenMembers({i})
    BY SeenInEach, Zenon
  <2>3. \A T, u : u \in Tallied(T, f) <=> u \in SeenMembers(T) /\ u \notin dir.signedIn
    BY <2>1
  <2>. QED
    BY <2>2, <2>3, Zenon
<1>5. CASE f \in {"admins_present", "admin_count"}
  <2>1. \A T : Tallied(T, f) = SeenAdmins(T)
    BY <1>5, TalliedIs
  <2>2. \A u : u \in SeenAdmins(S) <=> \E i \in S : u \in SeenAdmins({i})
    BY SeenInEach, Zenon
  <2>. QED
    BY <2>1, <2>2
<1>6. CASE f \in {"credentials_present", "credential_count", "unused_credential_count"}
  <2>1. \A T : Tallied(T, f) = SeenApps(T)
    BY <1>6, TalliedIs
  <2>2. \A u : u \in SeenApps(S) <=> \E i \in S : u \in SeenApps({i})
    BY SeenInEach, Zenon
  <2>. QED
    BY <2>1, <2>2
<1>7. CASE f = "never_expiring_credential_count"
  <2>1. \A T : Tallied(T, f) = SeenApps(T) \cap dir.neverExpiring
    BY <1>7, TalliedIs
  <2>2. \A u : u \in SeenApps(S) <=> \E i \in S : u \in SeenApps({i})
    BY SeenInEach, Zenon
  <2>3. \A T, u : u \in Tallied(T, f) <=> u \in SeenApps(T) /\ u \in dir.neverExpiring
    BY <2>1
  <2>. QED
    BY <2>2, <2>3, Zenon
<1>8. CASE f = "rotation_overdue_credential_count"
  <2>1. \A T : Tallied(T, f) = SeenApps(T) \cap dir.overdue
    BY <1>8, TalliedIs
  <2>2. \A u : u \in SeenApps(S) <=> \E i \in S : u \in SeenApps({i})
    BY SeenInEach, Zenon
  <2>3. \A T, u : u \in Tallied(T, f) <=> u \in SeenApps(T) /\ u \in dir.overdue
    BY <2>1
  <2>. QED
    BY <2>2, <2>3, Zenon
<1>9. CASE f = "write_access_credential_count"
  <2>1. \A T : Tallied(T, f) = SeenWriters(T) \ dir.disabledApps
    BY <1>9, TalliedIs
  <2>2. \A u : u \in SeenWriters(S) <=> \E i \in S : u \in SeenWriters({i})
    BY SeenInEach, Zenon
  <2>3. \A T, u : u \in Tallied(T, f) <=> u \in SeenWriters(T) /\ u \notin dir.disabledApps
    BY <2>1
  <2>. QED
    BY <2>2, <2>3, Zenon
<1>10. CASE f = "unrestricted_credential_count"
  <2>1. \A T : Tallied(T, f) = SeenWriters(T)
    BY <1>10, TalliedIs
  <2>2. \A u : u \in SeenWriters(S) <=> \E i \in S : u \in SeenWriters({i})
    BY SeenInEach, Zenon
  <2>. QED
    BY <2>1, <2>2
<1>. QED
  BY <1>1, <1>2, <1>3, <1>4, <1>5, <1>6, <1>7, <1>8, <1>9, <1>10

LEMMA HiddenInEach ==
  ASSUME NEW S, S # {}, NEW f \in Fields
  PROVE  Hidden(S, f) <=> \E i \in S : Hidden({i}, f)
<1>1. f \in {"members_present", "member_count", "sso_member_count",
             "sso_coverage_pct", "external_members_present",
             "external_member_count", "inactive_member_count", "inactive_pct",
             "admins_present", "admin_count", "admin_share_pct",
             "credentials_present", "credential_count",
             "never_expiring_credential_count", "never_expiring_pct",
             "rotation_overdue_credential_count", "rotation_overdue_pct",
             "write_access_credential_count", "write_access_pct",
             "unrestricted_credential_count", "unrestricted_pct",
             "unused_credential_count", "unused_pct"}
  BY DEF Fields, MemberFields, AdminFields, CredentialFields, MemberCounts,
         CredentialCounts
<1>0. /\ Unread(S) <=> \E i \in S : Unread({i})
      /\ \A a : a \in Unsorted(S) <=> \E i \in S : a \in Unsorted({i})
      /\ \A u : u \in SeenMembers(S) <=> \E i \in S : u \in SeenMembers({i})
      /\ \A u : u \in SeenApps(S) <=> \E i \in S : u \in SeenApps({i})
      /\ \A u : u \in SeenWriters(S) <=> \E i \in S : u \in SeenWriters({i})
  BY SeenInEach, Zenon
<1>2. HoldersHidden(S) <=> \E i \in S : HoldersHidden({i})
  <2>1. Unsorted(S) # {} <=> \E i \in S : Unsorted({i}) # {}
    BY <1>0
  <2>. QED
    BY <1>0, <2>1 DEF HoldersHidden
<1>3. MembersHidden(S) <=> \E i \in S : MembersHidden({i})
  BY <1>2 DEF MembersHidden
<1>4. AdminsHidden(S) <=> \E i \in S : AdminsHidden({i})
  <2>. DEFINE Open(T) == \E a \in Unsorted(T) : a.role = "admin"
  <2>1. Open(S) <=> \E i \in S : Open({i})
    BY <1>0
  <2>2. \A T : AdminsHidden(T) <=> Unread(T) \/ dir.usersMiss # NoWhy \/ Open(T)
    BY DEF AdminsHidden
  <2>. HIDE DEF Open
  <2>. QED
    BY <1>0, <2>1, <2>2
<1>5. /\ SeenMembers(S) # {} <=> \E i \in S : SeenMembers({i}) # {}
      /\ SeenApps(S) # {} <=> \E i \in S : SeenApps({i}) # {}
      /\ SeenWriters(S) # {} <=> \E i \in S : SeenWriters({i}) # {}
      /\ SeenApps(S) \cap dir.apps # {} <=> \E i \in S : SeenApps({i}) \cap dir.apps # {}
  BY <1>0
<1>6. AppsHidden(S) <=> \E i \in S : AppsHidden({i})
  BY <1>5 DEF AppsHidden
<1>7. CASE f \in {"members_present", "member_count", "sso_member_count",
                  "sso_coverage_pct", "external_members_present",
                  "external_member_count"}
  BY <1>3, <1>7, HiddenIs
<1>8. CASE f \in {"inactive_member_count", "inactive_pct"}
  <2>1. \A T : Hidden(T, f) <=>
          MembersHidden(T) \/ (SeenMembers(T) # {} /\ dir.signInMiss # NoWhy)
    BY <1>8, HiddenIs
  <2>. QED
    BY <1>3, <1>5, <2>1
<1>9. CASE f \in {"admins_present", "admin_count"}
  BY <1>4, <1>9, HiddenIs
<1>10. CASE f = "admin_share_pct"
  BY <1>2, <1>4, <1>10, HiddenIs
<1>11. CASE f \in {"credentials_present", "credential_count"}
  BY <1>2, <1>11, HiddenIs
<1>12. CASE f \in {"never_expiring_credential_count", "never_expiring_pct",
                   "rotation_overdue_credential_count", "rotation_overdue_pct"}
  BY <1>2, <1>6, <1>12, HiddenIs
<1>13. CASE f \in {"write_access_credential_count", "write_access_pct"}
  <2>1. \A T : Hidden(T, f) <=>
          HoldersHidden(T) \/ (SeenWriters(T) # {} /\ dir.servicePrincipalsMiss # NoWhy)
    BY <1>13, HiddenIs
  <2>. QED
    BY <1>2, <1>5, <2>1
<1>14. CASE f \in {"unrestricted_credential_count", "unrestricted_pct"}
  BY <1>2, <1>5, <1>14, HiddenIs
<1>15. CASE f \in {"unused_credential_count", "unused_pct"}
  BY <1>2, <1>5, <1>15, HiddenIs
<1>. QED
  BY <1>1, <1>7, <1>8, <1>9, <1>10, <1>11, <1>12, <1>13, <1>14, <1>15

LEMMA TalliedFinite ==
  ASSUME AccountsTyped, NEW S \in SUBSET (1 .. Len(accounts)),
         NEW f \in Counts \cup Presences
  PROVE  IsFiniteSet(Tallied(S, f))
<1>1. \A type, roles : IsFiniteSet(SeenHolders(S, type, roles))
  BY SeenTyped
<1>2. IsFiniteSet(SeenApps(S)) /\ IsFiniteSet(SeenWriters(S))
  BY <1>1 DEF SeenApps, SeenWriters
<1>3. IsFiniteSet(SeenMembers(S)) /\ IsFiniteSet(SeenAdmins(S))
  <2>1. \A H : roleHolders(H) \in SUBSET H
    BY DEF roleHolders
  <2>. QED
    BY <1>1, <2>1, FS_Subset DEF SeenMembers, SeenAdmins
<1>4. \E T \in {SeenMembers(S), SeenAdmins(S), SeenApps(S), SeenWriters(S)} :
        Tallied(S, f) \in SUBSET T
  <2>1. f \in {"members_present", "member_count", "sso_member_count",
             "external_members_present", "external_member_count",
             "inactive_member_count", "admins_present", "admin_count",
             "credentials_present", "credential_count",
             "never_expiring_credential_count", "rotation_overdue_credential_count",
             "write_access_credential_count", "unrestricted_credential_count",
             "unused_credential_count"}
    BY DEF Counts, MemberCounts, CredentialCounts, Presences
  <2>2. f \in {"members_present", "member_count", "sso_member_count",
             "external_members_present", "external_member_count",
             "inactive_member_count"} => Tallied(S, f) \in SUBSET SeenMembers(S)
    BY TalliedIs
  <2>3. f \in {"admins_present", "admin_count"} => Tallied(S, f) \in SUBSET SeenAdmins(S)
    BY TalliedIs
  <2>4. f \in {"credentials_present", "credential_count",
               "never_expiring_credential_count", "rotation_overdue_credential_count",
               "unused_credential_count"} => Tallied(S, f) \in SUBSET SeenApps(S)
    BY TalliedIs
  <2>5. f \in {"write_access_credential_count", "unrestricted_credential_count"} =>
          Tallied(S, f) \in SUBSET SeenWriters(S)
    BY TalliedIs
  <2>. QED
    BY <2>1, <2>2, <2>3, <2>4, <2>5
<1>. QED
  BY <1>2, <1>3, <1>4, FS_Subset

(* A union is no larger than its parts laid side by side.                  *)
SideBySide(I, n, X) == {c \in I \X (1 .. n) : c[2] <= Cardinality(X[c[1]])}

LEMMA UnionIsBounded ==
  ASSUME NEW I, IsFiniteSet(I), NEW n \in Nat,
         NEW X, \A i \in I : IsFiniteSet(X[i]) /\ Cardinality(X[i]) <= n,
         NEW U, \A u \in U : \E i \in I : u \in X[i]
  PROVE  Cardinality(U) <= Cardinality(SideBySide(I, n, X))
<1>. DEFINE P == {c \in I \X (1 .. n) : c[2] <= Cardinality(X[c[1]])}
            g == [i \in I |-> CHOOSE h : h \in Surjection(1 .. Cardinality(X[i]), X[i])]
            V == {g[c[1]][c[2]] : c \in P}
            F == [c \in P |-> g[c[1]][c[2]]]
<1>1. ASSUME NEW i \in I
      PROVE  /\ Cardinality(X[i]) \in 0 .. n
             /\ g[i] \in Surjection(1 .. Cardinality(X[i]), X[i])
  <2>1. /\ Cardinality(X[i]) \in Nat
        /\ ExistsBijection(1 .. Cardinality(X[i]), X[i])
    BY FS_CardinalityType
  <2>2. \E h : h \in Surjection(1 .. Cardinality(X[i]), X[i])
    BY <2>1 DEF ExistsBijection, Bijection
  <2>3. g[i] = CHOOSE h : h \in Surjection(1 .. Cardinality(X[i]), X[i])
    OBVIOUS
  <2>. HIDE DEF g
  <2>4. g[i] \in Surjection(1 .. Cardinality(X[i]), X[i])
    BY <2>2, <2>3, Zenon
  <2>. QED
    BY <2>1, <2>4
<1>2. IsFiniteSet(P)
  <2>1. IsFiniteSet(1 .. n)
    BY FS_Interval
  <2>2. IsFiniteSet(I \X (1 .. n))
    BY <2>1, FS_Product
  <2>3. P \in SUBSET (I \X (1 .. n))
    OBVIOUS
  <2>. HIDE DEF P
  <2>. QED
    BY <2>2, <2>3, FS_Subset
<1>. HIDE DEF g
<1>3. \A u \in U : u \in V
  <2>. SUFFICES ASSUME NEW u \in U PROVE u \in V
    OBVIOUS
  <2>1. PICK i \in I : u \in X[i]
    OBVIOUS
  <2>2. PICK k \in 1 .. Cardinality(X[i]) : g[i][k] = u
    BY <1>1, <2>1 DEF Surjection
  <2>3. k \in 1 .. n /\ k <= Cardinality(X[i])
    BY <1>1, <2>2
  <2>4. <<i, k>> \in P
    BY <2>3
  <2>5. u = g[<<i, k>>[1]][<<i, k>>[2]]
    BY <2>2
  <2>. HIDE DEF P
  <2>. QED
    BY <2>4, <2>5
<1>4. F \in Surjection(P, V)
  <2>. HIDE DEF P
  <2>1. F \in [P -> V]
    OBVIOUS
  <2>2. \A v \in V : \E c \in P : F[c] = v
    OBVIOUS
  <2>. QED
    BY <2>1, <2>2 DEF Surjection
<1>. HIDE DEF P, F, V
<1>5. IsFiniteSet(V) /\ Cardinality(V) <= Cardinality(P)
  BY <1>2, <1>4, FS_Surjection
<1>6. U \in SUBSET V
  BY <1>3
<1>7. Cardinality(U) <= Cardinality(V)
  BY <1>5, <1>6, FS_Subset
<1>8. Cardinality(U) \in Nat /\ Cardinality(V) \in Nat /\ Cardinality(P) \in Nat
  BY <1>2, <1>5, <1>6, FS_Subset, FS_CardinalityType
<1>. QED
  BY <1>5, <1>7, <1>8 DEF P, SideBySide

(* What a place that is done says of a field.                              *)
LEMMA PlaceSays ==
  ASSUME Told, PlacesInv, AccountsTyped, audit, NEW q \in ArtifactPlaces, Done(q),
         NEW f \in Fields
  PROVE  /\ f \notin Presences => (GapsOf(q, f) # {} <=> Hidden(Scope(q), f))
         /\ f \in Counts => Numbers(q, f) = IF Hidden(Scope(q), f) THEN {}
                                            ELSE {Cardinality(Tallied(Scope(q), f))}
         /\ f \in Presences =>
              /\ Numbers(q, f) = {1} <=> Tallied(Scope(q), f) # {}
              /\ Numbers(q, f) = {0} <=> Tallied(Scope(q), f) = {} /\ ~Hidden(Scope(q), f)
<1>1. Filled(q, f)
  BY DEF PlacesInv, Wanted
<1>2. CASE \E v : ValuesOf(q, f) = {v} /\ GapsOf(q, f) = {}
  <2>1. PICK v : ValuesOf(q, f) = {v} /\ GapsOf(q, f) = {}
    BY <1>2
  <2>2. v \in values /\ v.place = q /\ v.at = f
    BY <2>1 DEF ValuesOf
  <2>3. Says(f, v.num, Scope(q))
    BY <2>2, Zenon DEF Told
  <2>4. Numbers(q, f) = {v.num}
    BY <2>1 DEF Numbers
  <2>5. 0 # 1 /\ \A x, y : {x} = {y} <=> x = y
    OBVIOUS
  <2>. QED
    BY <2>1, <2>3, <2>4, <2>5, KindsApart DEF Says
<1>3. CASE \E g : GapsOf(q, f) = {g} /\ ValuesOf(q, f) = {}
  <2>1. PICK g : GapsOf(q, f) = {g} /\ ValuesOf(q, f) = {}
    BY <1>3
  <2>2. g \in gaps /\ g.place = q /\ g.at = f
    BY <2>1 DEF GapsOf
  <2>3. LeavesOut(f, Scope(q))
    BY <2>2, Zenon DEF Told
  <2>4. Numbers(q, f) = {}
    BY <2>1 DEF Numbers
  <2>. QED
    BY <2>1, <2>3, <2>4, KindsApart DEF LeavesOut
<1>. QED
  BY <1>1, <1>2, <1>3 DEF Filled, Answered

(* When the totals are written, every scope has been, and both say what    *)
(* was seen in them.                                                       *)
LEMMA TotalsFollow ==
  ASSUME AccessInv, PlacesInv, ToldInv
  PROVE  TotalsFollowScopes
<1>. SUFFICES ASSUME posture = "written", audit
     PROVE  /\ \A field \in Presences :
                 /\ Numbers(0, field) = {1} <=>
                      \E i \in Scope(0) : Numbers(i, field) = {1}
                 /\ Numbers(0, field) = {0} <=>
                      \A i \in Scope(0) : Numbers(i, field) = {0}
            /\ \A field \in Fields \ Presences :
                 GapsOf(0, field) # {} <=> \E i \in Scope(0) : GapsOf(i, field) # {}
            /\ \A field \in Counts : \A n \in Numbers(0, field) :
                 /\ \A i \in Scope(0) : \A m \in Numbers(i, field) : m <= n
                 /\ n <= Cardinality(CountedOne(field, n))
  BY Zenon DEF TotalsFollowScopes
<1>1. /\ AccountsTyped /\ Len(accounts) \in Nat /\ Len(accounts) > 0
      /\ subscription = Len(accounts) + 1 /\ Told
  BY DEF AccessInv, AccountsTyped, ToldInv
<1>2. 0 \in ArtifactPlaces /\ Done(0) /\ Scope(0) = 1 .. Len(accounts)
  BY <1>1 DEF ArtifactPlaces, Done, Scope
<1>3. ASSUME NEW i \in Scope(0)
      PROVE  i \in ArtifactPlaces /\ Done(i) /\ Scope(i) = {i}
  BY <1>1, <1>2 DEF ArtifactPlaces, Done, Scope
<1>4. /\ IsFiniteSet(Scope(0)) /\ Scope(0) # {} /\ Scope(0) \in SUBSET (1 .. Len(accounts))
      /\ \A i \in Scope(0) : {i} \in SUBSET (1 .. Len(accounts))
  <2>1. IsFiniteSet(1 .. Len(accounts))
    BY <1>1, FS_Interval
  <2>2. 1 \in 1 .. Len(accounts)
    BY <1>1
  <2>. QED
    BY <1>2, <2>1, <2>2
<1>5. \A f \in Counts \cup Presences : f \in Fields
  BY DEF Counts, Presences, Fields, MemberFields, AdminFields, CredentialFields
<1>6. ASSUME NEW f \in Fields
      PROVE  Hidden(Scope(0), f) <=> \E i \in Scope(0) : Hidden({i}, f)
  BY <1>4, HiddenInEach
<1>7. ASSUME NEW f \in Counts \cup Presences, NEW u
      PROVE  u \in Tallied(Scope(0), f) <=> \E i \in Scope(0) : u \in Tallied({i}, f)
  BY TalliedInEach
<1>8. ASSUME NEW f \in Presences
      PROVE  /\ Numbers(0, f) = {1} <=> \E i \in Scope(0) : Numbers(i, f) = {1}
             /\ Numbers(0, f) = {0} <=> \A i \in Scope(0) : Numbers(i, f) = {0}
  <2>1. /\ Numbers(0, f) = {1} <=> Tallied(Scope(0), f) # {}
        /\ Numbers(0, f) = {0} <=> Tallied(Scope(0), f) = {} /\ ~Hidden(Scope(0), f)
    BY <1>1, <1>2, <1>5, <1>8, PlaceSays
  <2>2. ASSUME NEW i \in Scope(0)
        PROVE  /\ Numbers(i, f) = {1} <=> Tallied({i}, f) # {}
               /\ Numbers(i, f) = {0} <=> Tallied({i}, f) = {} /\ ~Hidden({i}, f)
    <3>1. /\ Numbers(i, f) = {1} <=> Tallied(Scope(i), f) # {}
          /\ Numbers(i, f) = {0} <=> Tallied(Scope(i), f) = {} /\ ~Hidden(Scope(i), f)
      BY <1>1, <1>3, <1>5, <1>8, PlaceSays
    <3>. QED
      BY <1>3, <3>1
  <2>3. Tallied(Scope(0), f) # {} <=> \E i \in Scope(0) : Tallied({i}, f) # {}
    BY <1>7
  <2>4. Hidden(Scope(0), f) <=> \E i \in Scope(0) : Hidden({i}, f)
    BY <1>5, <1>6
  <2>. QED
    BY <2>1, <2>2, <2>3, <2>4, Zenon
<1>9. ASSUME NEW f \in Fields \ Presences
      PROVE  GapsOf(0, f) # {} <=> \E i \in Scope(0) : GapsOf(i, f) # {}
  <2>1. GapsOf(0, f) # {} <=> Hidden(Scope(0), f)
    BY <1>1, <1>2, <1>9, PlaceSays
  <2>2. ASSUME NEW i \in Scope(0) PROVE GapsOf(i, f) # {} <=> Hidden({i}, f)
    <3>1. GapsOf(i, f) # {} <=> Hidden(Scope(i), f)
      BY <1>1, <1>3, <1>9, PlaceSays
    <3>. QED
      BY <1>3, <3>1
  <2>. QED
    BY <1>6, <2>1, <2>2, Zenon
<1>10. ASSUME NEW f \in Counts, NEW n \in Numbers(0, f)
       PROVE  /\ \A i \in Scope(0) : \A m \in Numbers(i, f) : m <= n
              /\ n <= Cardinality(CountedOne(f, n))
  <2>. DEFINE U == Tallied(Scope(0), f)
              X == [i \in Scope(0) |-> Tallied({i}, f)]
  <2>1. n = Cardinality(U) /\ ~Hidden(Scope(0), f)
    <3>1. Numbers(0, f) = IF Hidden(Scope(0), f) THEN {} ELSE {Cardinality(U)}
      BY <1>1, <1>2, <1>5, <1>10, PlaceSays
    <3>. QED
      BY <1>10, <3>1
  <2>2. IsFiniteSet(U) /\ n \in Nat
    BY <1>1, <1>4, <2>1, TalliedFinite, FS_CardinalityType
  <2>3. ASSUME NEW i \in Scope(0)
        PROVE  /\ Numbers(i, f) = {Cardinality(X[i])}
               /\ IsFiniteSet(X[i]) /\ Cardinality(X[i]) <= n
    <3>1. Numbers(i, f) = IF Hidden(Scope(i), f) THEN {} ELSE {Cardinality(Tallied(Scope(i), f))}
      BY <1>1, <1>3, <1>5, <1>10, PlaceSays
    <3>2. ~Hidden({i}, f)
      BY <1>5, <1>6, <2>1
    <3>3. X[i] = Tallied({i}, f)
      OBVIOUS
    <3>4. X[i] \in SUBSET U
      BY <1>7, <3>3
    <3>. HIDE DEF U, X
    <3>5. IsFiniteSet(X[i]) /\ Cardinality(X[i]) <= Cardinality(U)
      BY <2>2, <3>4, FS_Subset
    <3>. QED
      BY <1>3, <2>1, <3>1, <3>2, <3>3, <3>5
  <2>4. ASSUME NEW u \in U PROVE \E i \in Scope(0) : u \in X[i]
    BY <1>7, <2>4
  <2>. HIDE DEF U, X
  <2>5. Cardinality(U) <= Cardinality(SideBySide(Scope(0), n, X))
    BY <1>4, <2>2, <2>3, <2>4, UnionIsBounded
  <2>6. CountedOne(f, n) = SideBySide(Scope(0), n, X)
    BY <2>3 DEF CountedOne, SideBySide
  <2>. QED
    BY <2>1, <2>3, <2>5, <2>6
<1>. QED
  BY <1>8, <1>9, <1>10

LEMMA AccessInit_Told ==
  ASSUME AccessInit
  PROVE  ToldInv
BY DEF AccessInit, ToldInv, Told

(* The totals are those of the subscriptions, for every tenancy: a flag is *)
(* what some scope finds or every scope denies, another value is left out  *)
(* exactly when a scope leaves it out, and a count lies between the        *)
(* largest of the scopes' and their sum (accessPopulation.merge).          *)
THEOREM TotalsAreOfTheScopes == AccessSpec => []TotalsFollowScopes
<1>. DEFINE Inv == AccessInv /\ PlacesInv /\ ToldInv
<1>1. AccessInit => Inv
  BY AccessInit_Inv, AccessInit_Places, AccessInit_Told
<1>2. Inv /\ [AccessNext]_accessVars => Inv'
  BY AccessNext_Inv, AccessNext_Places, AccessNext_Told
<1>3. Inv => TotalsFollowScopes
  BY TotalsFollow
<1>. HIDE DEF Inv
<1>. QED
  BY <1>1, <1>2, <1>3, PTL DEF AccessSpec
==============================================================================
