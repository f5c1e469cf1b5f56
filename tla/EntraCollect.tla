---------------------------- MODULE EntraCollect ----------------------------
(***************************************************************************)
(* How one run collects the Entra artifact: the twelve Microsoft Graph     *)
(* reads collectEntra makes, in order, and what each handler does with the *)
(* answer.  A read that fails never fails the run.  The values taken from  *)
(* it are left out, a gap is recorded at each, and a missing license or    *)
(* permission is listed in the diagnostics.                                *)
(*                                                                         *)
(* What a list holds is abstracted to the sizes the handlers compare with  *)
(* zero (tenant), and a value to whether it is written (written).          *)
(***************************************************************************)
EXTENDS Naturals, FiniteSets

CONSTANTS
  Tenants,      \* the tenants a run may meet, each a record of TenantFacts
  Levels,       \* the collection levels a run may be configured with
  MaxFailures   \* bound on the reads that fail in one run

-----------------------------------------------------------------------------
(* The Graph reads, in no order.  Licensed are those whose handler asks    *)
(* IsPremiumLicenseError, and Capability names what a handler lists as     *)
(* unavailable.  The user list is not a capability.                        *)
Reads == {"users", "registrations", "sign_in_activity", "conditional_access",
          "security_defaults", "role_assignments", "role_eligibility",
          "service_principals", "applications", "secure_scores",
          "directory_audits", "sign_ins"}

Licensed == {"registrations", "sign_in_activity", "conditional_access",
             "role_eligibility", "sign_ins"}

Capability ==
  [r \in Reads \ {"users"} |->
     CASE r = "registrations"      -> "mfa_registration_report"
       [] r = "role_assignments"   -> "privileged_access"
       [] r = "role_eligibility"   -> "pim"
       [] r = "service_principals" -> "enterprise_apps"
       [] r = "applications"       -> "application_credentials"
       [] r = "secure_scores"      -> "identity_secure_score"
       [] r = "directory_audits"   -> "directory_audit_activity"
       [] r = "sign_ins"           -> "sign_in_logs"
       [] OTHER                    -> r]

(* What a read comes to: the list, a 403 that names a premium license, any *)
(* other refusal, a 404, or another failure (the transport's retries are   *)
(* spent, the token could not be refreshed, a page of the list was bad).   *)
Responses == {"ok", "license", "denied", "not_found", "error"}

-----------------------------------------------------------------------------
(* The values of the artifact, by JSON pointer, grouped by the handler     *)
(* that writes them.  A block that is always written or left out whole is  *)
(* one field.                                                              *)
UserFields == {"/users/total_count", "/users/enabled_member_users_count",
               "/users/guest_pct", "/users/disabled_pct"}
RegistrationFields ==
  {"/posture/denominator_enabled_member_users", "/posture/mfa_coverage",
   "/posture/mfa_phishing_resistant", "/posture/mfa_weak_method_only",
   "/posture/sspr_registered"}
SignInActivityFields == {"/users/inactive_pct", "/users/inactive_guest_pct"}
SecurityDefaultsFields == {"/security_defaults"}
ConditionalAccessFields ==
  {"/policy/mfa_required", "/policy/admin_portals_mfa_required",
   "/policy/all_cloud_apps_mfa_required", "/policy/compliant_device_required",
   "/policy/legacy_auth_blocked", "/policy/policy_count"}
Coverage == "/policy/mfa_required_coverage_pct"
SuperAdminCount == "/privileged_access/super_admin_count"
PrivilegedCounts == {"/privileged_access/privileged_users_count",
                     "/privileged_access/privileged_guest_count"}
PrivilegedMFAFields == {"/privileged_access/privileged_mfa_coverage_pct",
                        "/privileged_access/privileged_phishing_resistant_pct"}
InactivePrivileged == "/privileged_access/inactive_privileged_users_count"
EligibilityFields == {"/privileged_access/pim_eligible_pct",
                      "/privileged_access/standing_assignment_count"}
PrivilegedFields == {SuperAdminCount, InactivePrivileged} \cup PrivilegedCounts
                      \cup PrivilegedMFAFields \cup EligibilityFields
AppFields == {"/apps/enabled_enterprise_apps_count",
              "/apps/assignment_required_pct", "/posture/sso_coverage"}
CredentialFields ==
  {"/apps/credentials_expiring_count", "/apps/credentials_expired_count",
   "/apps/credentials_over_365d_count", "/apps/password_credentials_pct"}
SecureScoreFields == {"/secure_score/identity_pct"}
DirectoryActivityFields == {"/directory_activity"}
RiskySignIns == "/sign_in_monitoring/risky_sign_ins_count"
AppliedPolicyFields == {"/sign_in_monitoring/applied_policy_counts"}
SignInMonitoringFields == {"/sign_in_monitoring/sign_ins_count", RiskySignIns}
                            \cup AppliedPolicyFields

Fields == UserFields \cup RegistrationFields \cup SignInActivityFields
            \cup SecurityDefaultsFields \cup ConditionalAccessFields
            \cup {Coverage} \cup PrivilegedFields \cup AppFields
            \cup CredentialFields \cup SecureScoreFields
            \cup DirectoryActivityFields \cup SignInMonitoringFields

(* The counts the structs keep beside the percentages and never marshal.   *)
UnexportedCounts ==
  {"Posture.mfaRegisteredCount", "Users.disabledCount", "Users.inactiveCount",
   "Policy.mfaRequiredUserCount", "PrivilegedAccess.mfaRegisteredCount"}

-----------------------------------------------------------------------------
(* Why a value is missing: a code, and the read it is about or, for a      *)
(* not_read gap, what is not read.  NoMiss is the nil *missing.            *)
Codes == {"not_licensed", "permission_denied", "vendor_error", "not_read"}
Unread == {"group_role_members", "policy_group_or_role_members"}
NoMiss == [code |-> "none", about |-> "none"]
Miss == [code : Codes, about : Reads \cup Unread] \cup {NoMiss}

failed(r, code)  == [code |-> code, about |-> r]
unlicensed(r)    == [code |-> "not_licensed", about |-> r]
notRead(what)    == [code |-> "not_read", about |-> what]

(* Mutant: the second reason alone decides.                                *)
secondMissing(a, b) == b

firstMissing(a, b) == IF a # NoMiss THEN a ELSE b

(* leaveOut records one gap for each field.  A nil why records nothing.    *)
leaveOut(why, fields) ==
  IF why = NoMiss THEN {} ELSE {[at |-> f, why |-> why] : f \in fields}

(* PercentInt is null over an empty population.                            *)
PercentInt(field, population) == IF population > 0 THEN {field} ELSE {}

TenantFacts ==
  [users : Nat,          \* users in the list
   members : Nat,        \* enabled member users in it
   listed : Nat,         \* of them, those in the registration report
   active : Nat,         \* enabled users in the sign-in activity list
   activeGuests : Nat,   \* of them, the guests
   policies : Nat,       \* enabled Conditional Access policies
   coverageUnknown : BOOLEAN, \* a group or role decides who they cover
   defaultsOn : BOOLEAN, \* security defaults are on
   privileged : Nat,     \* enabled users with a privileged role
   standing : Nat,       \* their assignments, disabled users' included
   eligible : Nat,       \* eligibility schedules for a privileged role
   groupHeld : BOOLEAN,            \* a group holds a privileged role
   groupHeldGlobalAdmin : BOOLEAN, \* and it is Global Administrator
   apps : Nat,           \* enabled enterprise apps
   credentials : Nat,    \* active app credentials
   scored : BOOLEAN,     \* the tenant reports a secure score
   unrated : BOOLEAN,    \* a sign-in has a hidden risk level
   policiesOmitted : BOOLEAN] \* a sign-in has no applied policies property

ASSUME TenantsAssumption ==
  /\ Tenants \subseteq TenantFacts
  /\ \A t \in Tenants : /\ t.listed <= t.members /\ t.members <= t.users
                        /\ t.activeGuests <= t.active
                        /\ t.privileged <= t.standing
                        /\ t.groupHeldGlobalAdmin => t.groupHeld
                        /\ t.coverageUnknown => t.members > 0
ASSUME LevelsAssumption == Levels \subseteq {"trust", "audit", "internal"}
ASSUME MaxFailuresAssumption == MaxFailures \in Nat

-----------------------------------------------------------------------------
VARIABLES
  pc,           \* the read that is next, "collected" after the last
  tenant,       \* what the tenant holds, fixed for the run
  level,        \* the run's collection level
  miss,         \* why each read so far gave nothing, NoMiss when it did
  written,      \* the fields and unexported counts that are not null
  gaps,         \* the gaps recorded at the artifact's fields
  unavailable   \* diagnostics.license.capabilities_unavailable

vars == <<pc, tenant, level, miss, written, gaps, unavailable>>

Init ==
  /\ pc = "users"
  /\ tenant \in Tenants
  /\ level \in Levels
  /\ miss = [r \in Reads |-> NoMiss]
  /\ written = {}
  /\ gaps = {}
  /\ unavailable = {}

Failures == Cardinality({r \in Reads : miss[r] # NoMiss})

(* classify is what a handler makes of a response: its premium license     *)
(* case when it has one, its permissionDenied case for any other 403, and  *)
(* its default case.  The secure score handler also takes a 404, and a     *)
(* tenant with no score, for a missing license.                            *)
classify(r, x) ==
  CASE x = "license" /\ r \in Licensed         -> unlicensed(r)
    [] x \in {"license", "denied"}             -> failed(r, "permission_denied")
    [] x = "not_found" /\ r = "secure_scores"  -> unlicensed(r)
    [] x = "ok" /\ r = "secure_scores" /\ ~tenant.scored -> unlicensed(r)
    [] x = "ok"                                -> NoMiss
    [] OTHER                                   -> failed(r, "vendor_error")

(* Mutant: every failed read is listed as an unavailable capability.       *)
marksAnyFailure(r, why) == why # NoMiss /\ r # "users"

(* A handler marks its capability in its license and permission cases; its *)
(* default case only warns.                                                *)
marksCapability(r, why) ==
  why.code \in {"not_licensed", "permission_denied"} /\ r # "users"

(* One Graph read: its answer, and the capability the handler marks.       *)
Receive(r, x) ==
  /\ pc = r
  /\ x # "ok" => Failures < MaxFailures
  /\ LET why == classify(r, x) IN
       /\ miss' = [miss EXCEPT ![r] = why]
       /\ unavailable' = IF marksCapability(r, why)
                         THEN unavailable \cup {Capability[r]} ELSE unavailable
  /\ UNCHANGED <<tenant, level>>

Record(values, left) == /\ written' = written \cup values
                        /\ gaps' = gaps \cup left

ReadUsers(x) == Receive("users", x) /\ pc' = "registrations" /\ Record({}, {})

ReadRegistrations(x) ==
  Receive("registrations", x) /\ pc' = "sign_in_activity" /\ Record({}, {})

(* The three reads come first, and the user values are then taken from all *)
(* three.  The registration percentages need the user list as well, since  *)
(* they are taken over the enabled members in the report.                  *)
UserValues(usersMiss) ==
  IF usersMiss # NoMiss THEN {}
  ELSE {"/users/total_count", "/users/enabled_member_users_count",
        "Users.disabledCount"}
         \cup PercentInt("/users/guest_pct", tenant.users)
         \cup PercentInt("/users/disabled_pct", tenant.users)

computeRegistrationMetrics ==
  {"/posture/denominator_enabled_member_users", "Posture.mfaRegisteredCount"}
    \cup UNION {PercentInt(f, tenant.listed) :
                  f \in RegistrationFields
                         \ {"/posture/denominator_enabled_member_users"}}

InactivityValues(signInMiss) ==
  IF signInMiss # NoMiss THEN {}
  ELSE {"Users.inactiveCount"}
         \cup PercentInt("/users/inactive_pct", tenant.active)
         \cup PercentInt("/users/inactive_guest_pct", tenant.activeGuests)

ReadSignInActivity(x) ==
  /\ Receive("sign_in_activity", x)
  /\ pc' = "conditional_access"
  /\ LET usersMiss  == miss["users"]
         why        == firstMissing(usersMiss, miss["registrations"])
         signInMiss == miss'["sign_in_activity"]
     IN Record(UserValues(usersMiss)
                 \cup (IF why = NoMiss THEN computeRegistrationMetrics ELSE {})
                 \cup InactivityValues(signInMiss),
               leaveOut(usersMiss, UserFields)
                 \cup leaveOut(why, RegistrationFields)
                 \cup leaveOut(signInMiss, SignInActivityFields))

-----------------------------------------------------------------------------
ReadConditionalAccess(x) ==
  /\ Receive("conditional_access", x)
  /\ pc' = "security_defaults"
  /\ Record({}, {})

(* Mutant: unread security defaults leave the coverage null without a gap. *)
DefaultsUnexplained(values, defaultsMiss) ==
  <<IF defaultsMiss = NoMiss THEN values ELSE {}, {}>>

(* The coverage when only security defaults can require MFA, as the values *)
(* written and the gaps recorded.                                          *)
CoverageByDefaults(values, defaultsMiss) ==
  <<IF defaultsMiss = NoMiss THEN values ELSE {},
    leaveOut(defaultsMiss, {Coverage})>>

(* The MFA coverage when the Conditional Access policies were read.        *)
CoverageWithPolicies(usersMiss, defaultsMiss) ==
  LET covered == PercentInt(Coverage, tenant.members)
                   \cup {"Policy.mfaRequiredUserCount"}
  IN CASE usersMiss # NoMiss ->
            <<{}, leaveOut(usersMiss, {Coverage})>>
       [] usersMiss = NoMiss /\ tenant.policies = 0 ->
            CoverageByDefaults(covered, defaultsMiss)
       [] usersMiss = NoMiss /\ tenant.policies > 0 /\ tenant.coverageUnknown ->
            <<{}, leaveOut(notRead("policy_group_or_role_members"), {Coverage})>>
       [] OTHER -> <<covered, {}>>

(* Mutant: each failed read leaves the coverage out for its own reason.    *)
CoverageLeftOutTwice(caMiss, usersMiss, defaultsMiss) ==
  <<{}, leaveOut(caMiss, {Coverage}) \cup leaveOut(defaultsMiss, {Coverage})>>

(* And when they were not.  Security defaults are the only MFA policy of a *)
(* tenant without the license, and exclude enabled policies when they are  *)
(* on.                                                                     *)
CoverageWithoutPolicies(caMiss, usersMiss, defaultsMiss) ==
  LET defaults == {Coverage} \cup (IF usersMiss = NoMiss
                                   THEN {"Policy.mfaRequiredUserCount"} ELSE {})
  IN CASE caMiss.code = "not_licensed" ->
            CoverageByDefaults(defaults, defaultsMiss)
       [] caMiss.code # "not_licensed" /\ defaultsMiss = NoMiss
            /\ tenant.defaultsOn -> <<defaults, {}>>
       [] OTHER -> <<{}, leaveOut(caMiss, {Coverage})>>

collectPolicy(caMiss, usersMiss, defaultsMiss) ==
  IF caMiss = NoMiss
  THEN LET coverage == CoverageWithPolicies(usersMiss, defaultsMiss)
       IN <<ConditionalAccessFields \cup coverage[1], coverage[2]>>
  ELSE LET coverage == CoverageWithoutPolicies(caMiss, usersMiss, defaultsMiss)
       IN <<coverage[1],
            leaveOut(caMiss, ConditionalAccessFields) \cup coverage[2]>>

ReadSecurityDefaults(x) ==
  /\ Receive("security_defaults", x)
  /\ pc' = "role_assignments"
  /\ LET defaultsMiss == miss'["security_defaults"]
         policy == collectPolicy(miss["conditional_access"], miss["users"],
                                 defaultsMiss)
     IN Record(policy[1] \cup (IF defaultsMiss = NoMiss
                               THEN SecurityDefaultsFields ELSE {}),
               policy[2] \cup leaveOut(defaultsMiss, SecurityDefaultsFields))

-----------------------------------------------------------------------------
(* The privileged access block is left out whole without the assignments   *)
(* or the users, and the eligibility schedules are then not read.          *)
LeaveOutPrivilegedAccess(x) ==
  /\ Receive("role_assignments", x)
  /\ LET why == firstMissing(miss'["role_assignments"], miss["users"]) IN
       /\ why # NoMiss
       /\ Record({}, leaveOut(why, PrivilegedFields))
  /\ pc' = "service_principals"

(* Group members are not read, so a role a group holds hides who the       *)
(* privileged users are.                                                   *)
ReadRoleAssignments(x) ==
  /\ Receive("role_assignments", x)
  /\ firstMissing(miss'["role_assignments"], miss["users"]) = NoMiss
  /\ LET membersUnread == IF tenant.groupHeld
                          THEN notRead("group_role_members") ELSE NoMiss
         globalAdminsUnread == IF tenant.groupHeldGlobalAdmin
                               THEN membersUnread ELSE NoMiss
         mfaWhy      == firstMissing(miss["registrations"], membersUnread)
         inactiveWhy == firstMissing(miss["sign_in_activity"], membersUnread)
     IN Record(
          (IF globalAdminsUnread = NoMiss THEN {SuperAdminCount} ELSE {})
            \cup (IF membersUnread = NoMiss THEN PrivilegedCounts ELSE {})
            \cup (IF mfaWhy = NoMiss
                  THEN {"PrivilegedAccess.mfaRegisteredCount"}
                         \cup UNION {PercentInt(f, tenant.privileged) :
                                       f \in PrivilegedMFAFields}
                  ELSE {})
            \cup (IF inactiveWhy = NoMiss
                  THEN PercentInt(InactivePrivileged, tenant.privileged) ELSE {}),
          leaveOut(globalAdminsUnread, {SuperAdminCount})
            \cup leaveOut(membersUnread, PrivilegedCounts)
            \cup leaveOut(mfaWhy, PrivilegedMFAFields)
            \cup leaveOut(inactiveWhy, {InactivePrivileged}))
  /\ pc' = "role_eligibility"

ReadRoleEligibility(x) ==
  /\ Receive("role_eligibility", x)
  /\ pc' = "service_principals"
  /\ LET why == miss'["role_eligibility"] IN
       Record(IF why = NoMiss
              THEN {"/privileged_access/standing_assignment_count"}
                     \cup PercentInt("/privileged_access/pim_eligible_pct",
                                     tenant.eligible + tenant.standing)
              ELSE {},
              leaveOut(why, EligibilityFields))

-----------------------------------------------------------------------------
ReadServicePrincipals(x) ==
  /\ Receive("service_principals", x)
  /\ pc' = "applications"
  /\ Record({}, {})

(* The apps block and the SSO coverage need the service principals, and    *)
(* the credential values the applications too.  Without the service        *)
(* principals the one gap on the block covers the credential values.       *)
ReadApplications(x) ==
  /\ Receive("applications", x)
  /\ pc' = "secure_scores"
  /\ LET appsMiss == miss["service_principals"]
         why      == firstMissing(appsMiss, miss'["applications"])
     IN Record(
          (IF appsMiss = NoMiss
           THEN {"/apps/enabled_enterprise_apps_count"}
                  \cup PercentInt("/apps/assignment_required_pct", tenant.apps)
                  \cup PercentInt("/posture/sso_coverage", tenant.apps)
           ELSE {})
            \cup (IF why = NoMiss
                  THEN (CredentialFields \ {"/apps/password_credentials_pct"})
                         \cup PercentInt("/apps/password_credentials_pct",
                                         tenant.credentials)
                  ELSE {}),
          leaveOut(appsMiss, AppFields) \cup leaveOut(why, CredentialFields))

(* Mutant: no level reads the sign-ins and audits.                         *)
neverInternal == "collected"

(* The sign-ins and audits are read only at the internal level.            *)
afterSecureScores ==
  IF level = "internal" THEN "directory_audits" ELSE "collected"

ReadSecureScores(x) ==
  /\ Receive("secure_scores", x)
  /\ pc' = afterSecureScores
  /\ LET why == miss'["secure_scores"] IN
       Record(IF why = NoMiss THEN SecureScoreFields ELSE {},
              leaveOut(why, SecureScoreFields))

ReadDirectoryAudits(x) ==
  /\ Receive("directory_audits", x)
  /\ pc' = "sign_ins"
  /\ LET why == miss'["directory_audits"] IN
       Record(IF why = NoMiss THEN DirectoryActivityFields ELSE {},
              leaveOut(why, DirectoryActivityFields))

(* A hidden risk level leaves out the risky count, and a sign-in without   *)
(* appliedConditionalAccessPolicies the counts taken from that property.   *)
(* Neither is listed as an unavailable capability.                         *)
ReadSignIns(x) ==
  /\ Receive("sign_ins", x)
  /\ pc' = "collected"
  /\ LET why     == miss'["sign_ins"]
         risky   == IF why = NoMiss /\ tenant.unrated
                    THEN unlicensed("sign_ins") ELSE why
         applied == IF why = NoMiss /\ tenant.policiesOmitted
                    THEN failed("sign_ins", "permission_denied") ELSE why
     IN Record((IF why = NoMiss THEN {"/sign_in_monitoring/sign_ins_count"} ELSE {})
                 \cup (IF risky = NoMiss THEN {RiskySignIns} ELSE {})
                 \cup (IF applied = NoMiss THEN AppliedPolicyFields ELSE {}),
               leaveOut(why, {"/sign_in_monitoring/sign_ins_count"})
                 \cup leaveOut(risky, {RiskySignIns})
                 \cup leaveOut(applied, AppliedPolicyFields))

-----------------------------------------------------------------------------
Handle(x) ==
  \/ ReadUsers(x)
  \/ ReadRegistrations(x)
  \/ ReadSignInActivity(x)
  \/ ReadConditionalAccess(x)
  \/ ReadSecurityDefaults(x)
  \/ LeaveOutPrivilegedAccess(x)
  \/ ReadRoleAssignments(x)
  \/ ReadRoleEligibility(x)
  \/ ReadServicePrincipals(x)
  \/ ReadApplications(x)
  \/ ReadSecureScores(x)
  \/ ReadDirectoryAudits(x)
  \/ ReadSignIns(x)

Next == \E x \in Responses : Handle(x)

(* Every call the collector makes returns: a list, an error, or the run's  *)
(* deadline, which the client reports as an error.                         *)
Spec == Init /\ [][Next]_vars /\ WF_vars(Next)

TypeOK ==
  /\ pc \in Reads \cup {"collected"}
  /\ tenant \in Tenants
  /\ level \in Levels
  /\ miss \in [Reads -> Miss]
  /\ written \subseteq Fields \cup UnexportedCounts
  /\ gaps \subseteq [at : Fields, why : Miss \ {NoMiss}]
  /\ unavailable \subseteq {Capability[r] : r \in DOMAIN Capability}

-----------------------------------------------------------------------------
(* The properties speak of the handlers' order: Turn is the place of a     *)
(* read in it, and SettledAt the turn after which a field is final.        *)
Turn ==
  [r \in Reads \cup {"collected"} |->
     CASE r = "users"              -> 1
       [] r = "registrations"      -> 2
       [] r = "sign_in_activity"   -> 3
       [] r = "conditional_access" -> 4
       [] r = "security_defaults"  -> 5
       [] r = "role_assignments"   -> 6
       [] r = "role_eligibility"   -> 7
       [] r = "service_principals" -> 8
       [] r = "applications"       -> 9
       [] r = "secure_scores"      -> 10
       [] r = "directory_audits"   -> 11
       [] r = "sign_ins"           -> 12
       [] OTHER                    -> 13]

InternalFields == DirectoryActivityFields \cup SignInMonitoringFields
InScope(f) == f \in InternalFields => level = "internal"

SettledAt(f) ==
  CASE f \in UserFields \cup RegistrationFields \cup SignInActivityFields -> 3
    [] f \in SecurityDefaultsFields \cup ConditionalAccessFields
              \cup {Coverage} -> 5
    [] f \in PrivilegedFields \ EligibilityFields -> 6
    [] f \in EligibilityFields -> 7
    [] f \in AppFields \cup CredentialFields -> 9
    [] f \in SecureScoreFields -> 10
    [] f \in DirectoryActivityFields -> 11
    [] OTHER -> 12

(* A field in scope whose handler has run.                                 *)
Due(f) == InScope(f) /\ Turn[pc] > SettledAt(f)

HasGap(f) == \E g \in gaps : g.at = f

(* The population a percentage is taken over is empty.  The inactive       *)
(* privileged user count is null then too.                                 *)
EmptyPopulation(f) ==
  \/ f \in {"/users/guest_pct", "/users/disabled_pct"} /\ tenant.users = 0
  \/ f \in RegistrationFields /\ tenant.listed = 0
  \/ f = "/users/inactive_pct" /\ tenant.active = 0
  \/ f = "/users/inactive_guest_pct" /\ tenant.activeGuests = 0
  \/ f = Coverage /\ tenant.members = 0
  \/ f \in {InactivePrivileged} \cup PrivilegedMFAFields /\ tenant.privileged = 0
  \/ f = "/privileged_access/pim_eligible_pct"
       /\ tenant.eligible + tenant.standing = 0
  \/ f \in {"/apps/assignment_required_pct", "/posture/sso_coverage"}
       /\ tenant.apps = 0
  \/ f = "/apps/password_credentials_pct" /\ tenant.credentials = 0

(* The reads a value is taken from.                                        *)
Sources(f) ==
  CASE f \in UserFields             -> {"users"}
    [] f \in RegistrationFields     -> {"users", "registrations"}
    [] f \in SignInActivityFields   -> {"sign_in_activity"}
    [] f \in SecurityDefaultsFields -> {"security_defaults"}
    [] f \in ConditionalAccessFields -> {"conditional_access"}
    [] f = Coverage                 -> {"users", "conditional_access",
                                        "security_defaults"}
    [] f \in {SuperAdminCount} \cup PrivilegedCounts ->
         {"users", "role_assignments"}
    [] f \in PrivilegedMFAFields    -> {"users", "role_assignments",
                                        "registrations"}
    [] f = InactivePrivileged       -> {"users", "role_assignments",
                                        "sign_in_activity"}
    [] f \in EligibilityFields      -> {"users", "role_assignments",
                                        "role_eligibility"}
    [] f \in AppFields              -> {"service_principals"}
    [] f \in CredentialFields       -> {"service_principals", "applications"}
    [] f \in SecureScoreFields      -> {"secure_scores"}
    [] f \in DirectoryActivityFields -> {"directory_audits"}
    [] OTHER                        -> {"sign_ins"}

-----------------------------------------------------------------------------
(* A value in scope that is not written has a gap, or is a percentage over *)
(* an empty population; one that is written has none, and one out of scope *)
(* is neither written nor a gap.  A handler that returns early, or that    *)
(* reports one of two failed reads, is where a null would go unexplained.  *)
Accounted(f) ==
  IF Due(f)
  THEN IF f \in written THEN ~HasGap(f) ELSE HasGap(f) \/ EmptyPopulation(f)
  ELSE f \notin written /\ ~HasGap(f)

EveryNullIsExplained == \A f \in Fields : Accounted(f)

(* No value is taken from a list that was not read.  The MFA coverage is   *)
(* the exception the policy handler argues for: security defaults alone    *)
(* decide it for a tenant without Conditional Access, or when they are on. *)
NoValueFromAFailedRead ==
  \A f \in written \cap Fields :
    IF f = Coverage /\ miss["conditional_access"] # NoMiss
    THEN /\ miss["security_defaults"] = NoMiss
         /\ miss["conditional_access"].code = "not_licensed" \/ tenant.defaultsOn
    ELSE \A r \in Sources(f) :
           miss[r] = NoMiss \/ (f = Coverage /\ r = "security_defaults"
                                            /\ tenant.policies > 0)

(* A gap gives one reason, and it is that of a read the value is taken     *)
(* from, or of something in what was read: members of a group the          *)
(* collector does not read, or a sign-in that hides a level or a property. *)
SignInGap(g) ==
  \/ g.at = RiskySignIns /\ tenant.unrated /\ g.why = unlicensed("sign_ins")
  \/ g.at \in AppliedPolicyFields /\ tenant.policiesOmitted
       /\ g.why = failed("sign_ins", "permission_denied")

GapsNameTheirCause ==
  \A g \in gaps :
    /\ \A h \in gaps : h.at = g.at => h.why = g.why
    /\ CASE g.why.about = "group_role_members" ->
              tenant.groupHeld /\ g.at \in PrivilegedFields \ EligibilityFields
         [] g.why.about = "policy_group_or_role_members" ->
              tenant.coverageUnknown /\ g.at = Coverage
         [] OTHER -> /\ g.why.about \in Sources(g.at)
                     /\ miss[g.why.about] = g.why \/ SignInGap(g)

(* A capability listed as unavailable really is: the read it names failed  *)
(* for a license or a permission, and nothing taken from it is written.    *)
UnavailableIsUnavailable ==
  \A r \in DOMAIN Capability : Capability[r] \in unavailable =>
    /\ miss[r].code \in {"not_licensed", "permission_denied"}
    /\ \A f \in (written \cap Fields) \ {Coverage} : r \notin Sources(f)

(* The documentation says a licensed surface that is unavailable, sign-in  *)
(* risk levels among its examples, is listed in the diagnostics.  The      *)
(* handler of the sign-ins records the license gap and lists nothing.      *)
LicenseGapsAreListed ==
  \A g \in gaps : g.why.code = "not_licensed" =>
                    Capability[g.why.about] \in unavailable

(* What a reader of the artifact and its gaps sees of a field.             *)
Status(f) ==
  CASE ~InScope(f) -> "out_of_scope"
    [] InScope(f) /\ f \in written -> "value"
    [] InScope(f) /\ f \notin written /\ HasGap(f) -> "gap"
    [] Due(f) /\ f \notin written /\ ~HasGap(f) /\ EmptyPopulation(f) -> "empty"
    [] OTHER -> "pending"

(* The collection keeps the promise of Evidence: a field is settled once,  *)
(* no later handler changes it, and none is pending when the reads end.    *)
Promise == INSTANCE Evidence WITH
             status <- [f \in Fields |-> Status(f)],
             over   <- pc = "collected"

KeepsThePromise == Promise!EvidenceSpec
=============================================================================
