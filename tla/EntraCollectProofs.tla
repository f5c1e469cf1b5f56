------------------------- MODULE EntraCollectProofs -------------------------
(***************************************************************************)
(* Proofs about the Entra collection.                                      *)
(***************************************************************************)
EXTENDS EntraCollect, TLAPS

-----------------------------------------------------------------------------
(***************************************************************************)
(* What holds of the Entra collection for every tenant, level and number   *)
(* of failed reads.                                                        *)
(***************************************************************************)

Gap == [at : Fields, why : Miss \ {NoMiss}]

(* Every reason classify gives is a reason of the read it is asked about.  *)
LEMMA ClassifyInMiss ==
  ASSUME NEW r \in Reads, NEW x
  PROVE  classify(r, x) \in Miss
BY DEF classify, Miss, NoMiss, Codes, failed, unlicensed

(* The first of two reasons is a reason.                                   *)
LEMMA FirstMissingInMiss ==
  ASSUME NEW a \in Miss, NEW b \in Miss
  PROVE  firstMissing(a, b) \in Miss
BY DEF firstMissing

(* leaveOut records well-formed gaps at the fields it is given.            *)
LEMMA LeaveOutGaps ==
  ASSUME NEW why \in Miss, NEW fields \in SUBSET Fields
  PROVE  leaveOut(why, fields) \subseteq Gap
BY DEF leaveOut, Gap

(* PercentInt writes its field or nothing.                                 *)
LEMMA PercentIntWrites ==
  ASSUME NEW f, NEW n
  PROVE  PercentInt(f, n) \subseteq {f}
BY DEF PercentInt

(* A read keeps the reasons and the unavailable capabilities well-formed.  *)
LEMMA ReceiveTypeOK ==
  ASSUME TypeOK, NEW r \in Reads, NEW x, Receive(r, x)
  PROVE  /\ miss' \in [Reads -> Miss]
         /\ unavailable' \subseteq {Capability[s] : s \in DOMAIN Capability}
         /\ tenant' = tenant
         /\ level' = level
<1>1. classify(r, x) \in Miss
  BY ClassifyInMiss
<1>2. miss' \in [Reads -> Miss]
  BY <1>1 DEF TypeOK, Receive
<1>3. unavailable' \subseteq {Capability[s] : s \in DOMAIN Capability}
  <2>1. r # "users" => r \in DOMAIN Capability
    BY DEF Capability
  <2>2. QED  BY <2>1 DEF TypeOK, Receive, marksCapability
<1>4. QED  BY <1>2, <1>3 DEF Receive

(* What a handler writes and leaves out at the artifact's fields keeps the *)
(* written values and the gaps well-formed.                                *)
LEMMA RecordTypeOK ==
  ASSUME TypeOK, NEW values \in SUBSET (Fields \cup UnexportedCounts),
         NEW left \in SUBSET Gap, Record(values, left)
  PROVE  /\ written' \subseteq Fields \cup UnexportedCounts
         /\ gaps' \subseteq Gap
BY DEF TypeOK, Record, Gap

(* A handler that reads r, records well-formed values and gaps and moves   *)
(* on to another read keeps the type.                                      *)
LEMMA HandlerTypeOK ==
  ASSUME TypeOK, NEW r \in Reads, NEW x, Receive(r, x),
         NEW values \in SUBSET (Fields \cup UnexportedCounts),
         NEW left \in SUBSET Gap, Record(values, left),
         pc' \in Reads \cup {"collected"}
  PROVE  TypeOK'
<1>1. /\ miss' \in [Reads -> Miss]
      /\ unavailable' \subseteq {Capability[s] : s \in DOMAIN Capability}
      /\ tenant' = tenant
      /\ level' = level
  BY ReceiveTypeOK
<1>2. written' \subseteq Fields \cup UnexportedCounts /\ gaps' \subseteq Gap
  BY RecordTypeOK
<1>3. QED  BY <1>1, <1>2 DEF TypeOK, Gap

-----------------------------------------------------------------------------
(* What a handler does with the fields it is there for: each is written,   *)
(* or has a gap, or is null over an empty population, and no other field   *)
(* is touched.  GapAt is HasGap of a handler's own gaps.                   *)
GapAt(left, f) == \E g \in left : g.at = f

Settles(fields, values, left) ==
  /\ \A f \in Fields \ fields : f \notin values /\ ~GapAt(left, f)
  /\ \A f \in fields : IF f \in values THEN ~GapAt(left, f)
                       ELSE GapAt(left, f) \/ EmptyPopulation(f)

HandlerSettles(r, x, fields) ==
  /\ r \in Reads
  /\ Receive(r, x)
  /\ pc' \in Reads \cup {"collected"}
  /\ \E values \in SUBSET (Fields \cup UnexportedCounts), left \in SUBSET Gap :
       Record(values, left) /\ Settles(fields, values, left)

(* leaveOut puts a gap at each of its fields, and only for a reason.       *)
LEMMA LeaveOutAt ==
  ASSUME NEW why, NEW fields, NEW f
  PROVE  GapAt(leaveOut(why, fields), f) <=> why # NoMiss /\ f \in fields
<1>1. CASE why = NoMiss
  BY <1>1 DEF GapAt, leaveOut
<1>2. CASE why # NoMiss
  <2>1. leaveOut(why, fields) = {[at |-> h, why |-> why] : h \in fields}
    BY <1>2 DEF leaveOut
  <2>2. ASSUME f \in fields
        PROVE  GapAt(leaveOut(why, fields), f)
    <3>1. [at |-> f, why |-> why] \in leaveOut(why, fields)
      BY <2>1, <2>2
    <3>2. [at |-> f, why |-> why].at = f
      OBVIOUS
    <3>3. QED  BY <3>1, <3>2 DEF GapAt
  <2>3. ASSUME GapAt(leaveOut(why, fields), f)
        PROVE  f \in fields
    <3>1. PICK g \in leaveOut(why, fields) : g.at = f
      BY <2>3 DEF GapAt
    <3>2. PICK h \in fields : g = [at |-> h, why |-> why]
      BY <2>1, <3>1
    <3>3. QED  BY <3>1, <3>2
  <2>4. QED  BY <1>2, <2>2, <2>3
<1>3. QED  BY <1>1, <1>2

LEMMA GapAtUnion ==
  ASSUME NEW A, NEW B, NEW f
  PROVE  GapAt(A \cup B, f) <=> GapAt(A, f) \/ GapAt(B, f)
BY DEF GapAt

(* A field is never one of the counts kept beside the percentages.         *)
LEMMA FieldsAreNotCounts == Fields \cap UnexportedCounts = {}
BY DEF Fields, UnexportedCounts, UserFields, RegistrationFields,
       SignInActivityFields, SecurityDefaultsFields, ConditionalAccessFields,
       Coverage, PrivilegedFields, SuperAdminCount, InactivePrivileged,
       PrivilegedCounts, PrivilegedMFAFields, EligibilityFields, AppFields,
       CredentialFields, SecureScoreFields, DirectoryActivityFields,
       SignInMonitoringFields, RiskySignIns, AppliedPolicyFields

(* The sizes in the tenant are natural numbers.                            *)
LEMMA TenantSizes ==
  ASSUME TypeOK
  PROVE  tenant \in TenantFacts
BY TenantsAssumption DEF TypeOK

LEMMA QuietReadSettles ==
  ASSUME NEW r \in Reads, NEW x, Receive(r, x), Record({}, {}), pc' \in Reads
  PROVE  HandlerSettles(r, x, {})
<1>1. Settles({}, {}, {})
  BY DEF Settles, GapAt
<1>2. {} \in SUBSET (Fields \cup UnexportedCounts) /\ {} \in SUBSET Gap
  OBVIOUS
<1>3. QED  BY <1>1, <1>2 DEF HandlerSettles

LEMMA ReadSignInActivitySettles ==
  ASSUME TypeOK, NEW x, ReadSignInActivity(x)
  PROVE  HandlerSettles("sign_in_activity", x,
           UserFields \cup RegistrationFields \cup SignInActivityFields)
<1> DEFINE usersMiss  == miss["users"]
           why        == firstMissing(usersMiss, miss["registrations"])
           signInMiss == miss'["sign_in_activity"]
           settled == UserFields \cup RegistrationFields \cup SignInActivityFields
           metrics == IF why = NoMiss THEN computeRegistrationMetrics ELSE {}
           values == UserValues(usersMiss) \cup metrics
                       \cup InactivityValues(signInMiss)
           left == leaveOut(usersMiss, UserFields)
                     \cup leaveOut(why, RegistrationFields)
                     \cup leaveOut(signInMiss, SignInActivityFields)
<1>1. /\ Receive("sign_in_activity", x)
      /\ pc' = "conditional_access"
      /\ Record(values, left)
  BY DEF ReadSignInActivity
<1>2. "sign_in_activity" \in Reads /\ "conditional_access" \in Reads
      /\ "users" \in Reads /\ "registrations" \in Reads
  BY DEF Reads
<1>3. usersMiss \in Miss /\ why \in Miss /\ signInMiss \in Miss
  BY <1>1, <1>2, ReceiveTypeOK, FirstMissingInMiss DEF TypeOK
<1>4. values \subseteq settled \cup UnexportedCounts
  <2>1. UserValues(usersMiss) \subseteq settled \cup UnexportedCounts
    BY PercentIntWrites DEF UserValues, UserFields, UnexportedCounts
  <2>2. computeRegistrationMetrics \subseteq settled \cup UnexportedCounts
    BY PercentIntWrites
       DEF computeRegistrationMetrics, RegistrationFields, UnexportedCounts
  <2>3. InactivityValues(signInMiss) \subseteq settled \cup UnexportedCounts
    BY PercentIntWrites DEF InactivityValues, SignInActivityFields, UnexportedCounts
  <2>4. QED  BY <2>1, <2>2, <2>3
<1>5. left \subseteq Gap
  <2>1. settled \subseteq Fields
    BY DEF Fields
  <2>2. QED  BY <1>3, <2>1, LeaveOutGaps
<1>6. Settles(settled, values, left)
  <2>1. ASSUME NEW f \in Fields
        PROVE  GapAt(left, f) <=> \/ usersMiss # NoMiss /\ f \in UserFields
                                  \/ why # NoMiss /\ f \in RegistrationFields
                                  \/ signInMiss # NoMiss /\ f \in SignInActivityFields
    <3>1. GapAt(left, f) <=> \/ GapAt(leaveOut(usersMiss, UserFields), f)
                             \/ GapAt(leaveOut(why, RegistrationFields), f)
                             \/ GapAt(leaveOut(signInMiss, SignInActivityFields), f)
      BY GapAtUnion, Zenon
    <3>2. QED  BY <3>1, LeaveOutAt
  <2>2. ASSUME NEW f \in UserFields
        PROVE  IF usersMiss # NoMiss THEN f \notin values
               ELSE f \in values \/ EmptyPopulation(f)
    BY TenantSizes
       DEF UserValues, computeRegistrationMetrics, InactivityValues, PercentInt,
           UserFields, RegistrationFields, EmptyPopulation, TenantFacts
  <2>3. ASSUME NEW f \in RegistrationFields
        PROVE  IF why # NoMiss THEN f \notin values
               ELSE f \in values \/ EmptyPopulation(f)
    BY TenantSizes
       DEF UserValues, computeRegistrationMetrics, InactivityValues, PercentInt,
           UserFields, RegistrationFields, EmptyPopulation, TenantFacts
  <2>4. ASSUME NEW f \in SignInActivityFields
        PROVE  IF signInMiss # NoMiss THEN f \notin values
               ELSE f \in values \/ EmptyPopulation(f)
    BY TenantSizes
       DEF UserValues, computeRegistrationMetrics, InactivityValues, PercentInt,
           SignInActivityFields, RegistrationFields, EmptyPopulation, TenantFacts
  <2>5. ASSUME NEW f \in Fields \ settled
        PROVE  f \notin values
    BY <1>4, FieldsAreNotCounts
  <2>6. /\ UserFields \cap RegistrationFields = {}
        /\ UserFields \cap SignInActivityFields = {}
        /\ RegistrationFields \cap SignInActivityFields = {}
    BY DEF UserFields, RegistrationFields, SignInActivityFields
  <2>7. settled \subseteq Fields
    BY DEF Fields
  <2> HIDE DEF values, left, usersMiss, why, signInMiss
  <2>8. QED  BY <2>1, <2>2, <2>3, <2>4, <2>5, <2>6, <2>7 DEF Settles
<1>7. settled \subseteq Fields
  BY DEF Fields
<1> HIDE DEF values, left
<1>8. QED  BY <1>1, <1>2, <1>4, <1>5, <1>6, <1>7 DEF HandlerSettles

-----------------------------------------------------------------------------
(* The MFA coverage is settled in every case of the policy handler.        *)
CoverageOutcome(c) ==
  /\ c[1] \subseteq {Coverage} \cup UnexportedCounts
  /\ c[2] \subseteq Gap
  /\ \A f \in Fields \ {Coverage} : ~GapAt(c[2], f)
  /\ IF Coverage \in c[1] THEN ~GapAt(c[2], Coverage)
     ELSE GapAt(c[2], Coverage) \/ EmptyPopulation(Coverage)

LEMMA CoverageIsField == Coverage \in Fields /\ Coverage \notin UnexportedCounts
BY FieldsAreNotCounts DEF Fields

(* A reason at the coverage alone settles it.                              *)
LEMMA CoverageLeftOut ==
  ASSUME NEW why \in Miss, why # NoMiss
  PROVE  CoverageOutcome(<<{}, leaveOut(why, {Coverage})>>)
<1>1. leaveOut(why, {Coverage}) \subseteq Gap
  BY CoverageIsField, LeaveOutGaps
<1>2. \A f : GapAt(leaveOut(why, {Coverage}), f) <=> f = Coverage
  BY LeaveOutAt
<1>3. QED  BY <1>1, <1>2 DEF CoverageOutcome

(* Values that include the coverage, or miss it over no members, settle it.*)
LEMMA CoverageWritten ==
  ASSUME NEW values \in SUBSET ({Coverage} \cup UnexportedCounts),
         Coverage \in values \/ EmptyPopulation(Coverage)
  PROVE  CoverageOutcome(<<values, {}>>)
BY DEF CoverageOutcome, GapAt

LEMMA CoverageByDefaultsSettles ==
  ASSUME NEW values \in SUBSET ({Coverage} \cup UnexportedCounts),
         Coverage \in values \/ EmptyPopulation(Coverage),
         NEW defaultsMiss \in Miss
  PROVE  CoverageOutcome(CoverageByDefaults(values, defaultsMiss))
<1>1. CASE defaultsMiss = NoMiss
  <2>1. CoverageByDefaults(values, defaultsMiss) = <<values, {}>>
    BY <1>1 DEF CoverageByDefaults, leaveOut
  <2>2. QED  BY <2>1, CoverageWritten
<1>2. CASE defaultsMiss # NoMiss
  <2>1. CoverageByDefaults(values, defaultsMiss)
          = <<{}, leaveOut(defaultsMiss, {Coverage})>>
    BY <1>2 DEF CoverageByDefaults
  <2>2. QED  BY <1>2, <2>1, CoverageLeftOut
<1>3. QED  BY <1>1, <1>2

LEMMA CoverageWithPoliciesSettles ==
  ASSUME TypeOK, NEW usersMiss \in Miss, NEW defaultsMiss \in Miss
  PROVE  CoverageOutcome(CoverageWithPolicies(usersMiss, defaultsMiss))
<1> DEFINE covered == PercentInt(Coverage, tenant.members)
                        \cup {"Policy.mfaRequiredUserCount"}
           why == notRead("policy_group_or_role_members")
           c == CoverageWithPolicies(usersMiss, defaultsMiss)
<1>1. covered \subseteq {Coverage} \cup UnexportedCounts
  BY PercentIntWrites DEF UnexportedCounts
<1>2. Coverage \in covered \/ EmptyPopulation(Coverage)
  BY TenantSizes DEF PercentInt, EmptyPopulation, TenantFacts
<1>3. why \in Miss /\ why # NoMiss
  BY DEF notRead, Miss, NoMiss, Codes, Unread
<1>4. tenant.policies \in Nat /\ tenant.coverageUnknown \in BOOLEAN
  BY TenantSizes DEF TenantFacts
<1>5. CASE usersMiss # NoMiss
  <2>1. c = <<{}, leaveOut(usersMiss, {Coverage})>>
    BY <1>5 DEF CoverageWithPolicies
  <2>2. QED  BY <1>5, <2>1, CoverageLeftOut
<1>6. CASE usersMiss = NoMiss /\ tenant.policies = 0
  <2>1. c = CoverageByDefaults(covered, defaultsMiss)
    BY <1>6 DEF CoverageWithPolicies
  <2>2. QED  BY <1>1, <1>2, <2>1, CoverageByDefaultsSettles
<1>7. CASE usersMiss = NoMiss /\ tenant.policies > 0 /\ tenant.coverageUnknown
  <2>1. c = <<{}, leaveOut(why, {Coverage})>>
    BY <1>7 DEF CoverageWithPolicies
  <2>2. QED  BY <1>3, <2>1, CoverageLeftOut
<1>8. CASE usersMiss = NoMiss /\ tenant.policies > 0 /\ ~tenant.coverageUnknown
  <2>1. c = <<covered, {}>>
    BY <1>8 DEF CoverageWithPolicies
  <2>2. QED  BY <1>1, <1>2, <2>1, CoverageWritten
<1>9. QED  BY <1>4, <1>5, <1>6, <1>7, <1>8

LEMMA CoverageWithoutPoliciesSettles ==
  ASSUME NEW caMiss \in Miss, caMiss # NoMiss,
         NEW usersMiss \in Miss, NEW defaultsMiss \in Miss
  PROVE  CoverageOutcome(CoverageWithoutPolicies(caMiss, usersMiss, defaultsMiss))
<1> DEFINE defaults == {Coverage} \cup (IF usersMiss = NoMiss
                                        THEN {"Policy.mfaRequiredUserCount"} ELSE {})
           c == CoverageWithoutPolicies(caMiss, usersMiss, defaultsMiss)
           on == defaultsMiss = NoMiss /\ tenant.defaultsOn
<1>1. defaults \subseteq {Coverage} \cup UnexportedCounts /\ Coverage \in defaults
  BY DEF UnexportedCounts
<1>2. CASE caMiss.code = "not_licensed"
  <2>1. c = CoverageByDefaults(defaults, defaultsMiss)
    BY <1>2 DEF CoverageWithoutPolicies
  <2>2. QED  BY <1>1, <2>1, CoverageByDefaultsSettles
<1>3. CASE caMiss.code # "not_licensed" /\ on
  <2>1. c = <<defaults, {}>>
    BY <1>3 DEF CoverageWithoutPolicies
  <2>2. QED  BY <1>1, <2>1, CoverageWritten
<1>4. CASE caMiss.code # "not_licensed" /\ ~on
  <2>1. c = <<{}, leaveOut(caMiss, {Coverage})>>
    BY <1>4 DEF CoverageWithoutPolicies
  <2>2. QED  BY <2>1, CoverageLeftOut
<1>5. QED  BY <1>2, <1>3, <1>4

LEMMA ReadSecurityDefaultsSettles ==
  ASSUME TypeOK, NEW x, ReadSecurityDefaults(x)
  PROVE  HandlerSettles("security_defaults", x,
           SecurityDefaultsFields \cup ConditionalAccessFields \cup {Coverage})
<1> DEFINE caMiss == miss["conditional_access"]
           usersMiss == miss["users"]
           defaultsMiss == miss'["security_defaults"]
           settled == SecurityDefaultsFields \cup ConditionalAccessFields
                        \cup {Coverage}
           policy == collectPolicy(caMiss, usersMiss, defaultsMiss)
           coverage == IF caMiss = NoMiss
                       THEN CoverageWithPolicies(usersMiss, defaultsMiss)
                       ELSE CoverageWithoutPolicies(caMiss, usersMiss, defaultsMiss)
           policyValues == IF caMiss = NoMiss THEN ConditionalAccessFields ELSE {}
           defaultsValues == IF defaultsMiss = NoMiss
                             THEN SecurityDefaultsFields ELSE {}
           caGaps == leaveOut(caMiss, ConditionalAccessFields)
           defaultsGaps == leaveOut(defaultsMiss, SecurityDefaultsFields)
           values == policy[1] \cup defaultsValues
           left == policy[2] \cup defaultsGaps
<1>1. /\ Receive("security_defaults", x)
      /\ pc' = "role_assignments"
      /\ Record(values, left)
  BY DEF ReadSecurityDefaults
<1>2. "security_defaults" \in Reads /\ "conditional_access" \in Reads
      /\ "users" \in Reads /\ "role_assignments" \in Reads
  BY DEF Reads
<1>3. caMiss \in Miss /\ usersMiss \in Miss /\ defaultsMiss \in Miss
  BY <1>1, <1>2, ReceiveTypeOK DEF TypeOK
<1>4. settled \subseteq Fields
  BY DEF Fields
<1>5. /\ ConditionalAccessFields \cap SecurityDefaultsFields = {}
      /\ Coverage \notin ConditionalAccessFields \cup SecurityDefaultsFields
  BY DEF ConditionalAccessFields, SecurityDefaultsFields, Coverage
<1>6. CoverageOutcome(coverage)
  BY <1>3, CoverageWithPoliciesSettles, CoverageWithoutPoliciesSettles
<1>7. policy[1] = policyValues \cup coverage[1] /\ policy[2] = caGaps \cup coverage[2]
  BY DEF collectPolicy, leaveOut
<1>8. caGaps \subseteq Gap /\ defaultsGaps \subseteq Gap
  BY <1>3, <1>4, LeaveOutGaps
<1> HIDE DEF coverage, policy, caGaps, defaultsGaps
<1>9. values \subseteq settled \cup UnexportedCounts /\ left \subseteq Gap
  BY <1>6, <1>7, <1>8 DEF CoverageOutcome
<1>10. Settles(settled, values, left)
  <2>1. ASSUME NEW f
        PROVE  GapAt(left, f) <=> \/ caMiss # NoMiss /\ f \in ConditionalAccessFields
                                  \/ defaultsMiss # NoMiss /\ f \in SecurityDefaultsFields
                                  \/ GapAt(coverage[2], f)
    <3>1. GapAt(left, f) <=> \/ GapAt(caGaps, f) \/ GapAt(coverage[2], f)
                             \/ GapAt(defaultsGaps, f)
      BY <1>7, GapAtUnion
    <3>2. QED  BY <3>1, LeaveOutAt DEF caGaps, defaultsGaps
  <2>2. ASSUME NEW f \in Fields
        PROVE  f \in values <=> \/ f \in policyValues \/ f \in defaultsValues
                                \/ f = Coverage /\ Coverage \in coverage[1]
    BY <1>6, <1>7, FieldsAreNotCounts DEF CoverageOutcome
  <2> HIDE DEF values, left
  <2>3. QED  BY <1>4, <1>5, <1>6, <2>1, <2>2 DEF Settles, CoverageOutcome
<1> HIDE DEF values, left
<1>11. QED  BY <1>1, <1>2, <1>4, <1>9, <1>10 DEF HandlerSettles

-----------------------------------------------------------------------------
(* The privileged access fields.                                           *)
LEMMA LeaveOutPrivilegedAccessSettles ==
  ASSUME TypeOK, NEW x, LeaveOutPrivilegedAccess(x)
  PROVE  HandlerSettles("role_assignments", x, PrivilegedFields)
<1> DEFINE why == firstMissing(miss'["role_assignments"], miss["users"])
           left == leaveOut(why, PrivilegedFields)
<1>1. /\ Receive("role_assignments", x)
      /\ pc' = "service_principals"
      /\ why # NoMiss
      /\ Record({}, left)
  BY DEF LeaveOutPrivilegedAccess
<1>2. {"role_assignments", "users", "service_principals"} \subseteq Reads
  BY DEF Reads
<1>3. why \in Miss
  BY <1>1, <1>2, ReceiveTypeOK, FirstMissingInMiss DEF TypeOK
<1>4. PrivilegedFields \subseteq Fields
  BY DEF Fields
<1>5. left \subseteq Gap
  BY <1>3, <1>4, LeaveOutGaps
<1>6. Settles(PrivilegedFields, {}, left)
  BY <1>1, LeaveOutAt DEF Settles
<1> HIDE DEF left
<1>7. QED  BY <1>1, <1>2, <1>5, <1>6 DEF HandlerSettles

LEMMA ReadRoleAssignmentsSettles ==
  ASSUME TypeOK, NEW x, ReadRoleAssignments(x)
  PROVE  HandlerSettles("role_assignments", x, PrivilegedFields \ EligibilityFields)
<1> DEFINE membersUnread == IF tenant.groupHeld
                            THEN notRead("group_role_members") ELSE NoMiss
           adminsUnread == IF tenant.groupHeldGlobalAdmin
                           THEN membersUnread ELSE NoMiss
           mfaWhy == firstMissing(miss["registrations"], membersUnread)
           inactiveWhy == firstMissing(miss["sign_in_activity"], membersUnread)
           settled == PrivilegedFields \ EligibilityFields
           admins == IF adminsUnread = NoMiss THEN {SuperAdminCount} ELSE {}
           counts == IF membersUnread = NoMiss THEN PrivilegedCounts ELSE {}
           mfa == IF mfaWhy = NoMiss
                  THEN {"PrivilegedAccess.mfaRegisteredCount"}
                         \cup UNION {PercentInt(f, tenant.privileged) :
                                       f \in PrivilegedMFAFields}
                  ELSE {}
           inactive == IF inactiveWhy = NoMiss
                       THEN PercentInt(InactivePrivileged, tenant.privileged) ELSE {}
           values == admins \cup counts \cup mfa \cup inactive
           left == leaveOut(adminsUnread, {SuperAdminCount})
                     \cup leaveOut(membersUnread, PrivilegedCounts)
                     \cup leaveOut(mfaWhy, PrivilegedMFAFields)
                     \cup leaveOut(inactiveWhy, {InactivePrivileged})
<1>1. /\ Receive("role_assignments", x)
      /\ pc' = "role_eligibility"
      /\ Record(values, left)
  BY DEF ReadRoleAssignments
<1>2. {"role_assignments", "registrations", "sign_in_activity", "role_eligibility"}
        \subseteq Reads
  BY DEF Reads
<1>3. NoMiss \in Miss /\ notRead("group_role_members") \in Miss
  BY DEF notRead, Miss, NoMiss, Codes, Unread
<1>4. /\ membersUnread \in Miss /\ adminsUnread \in Miss
      /\ mfaWhy \in Miss /\ inactiveWhy \in Miss
  BY <1>2, <1>3, FirstMissingInMiss DEF TypeOK
<1>5. settled = {SuperAdminCount, InactivePrivileged} \cup PrivilegedCounts
                  \cup PrivilegedMFAFields
  BY DEF PrivilegedFields, EligibilityFields, SuperAdminCount, InactivePrivileged,
         PrivilegedCounts, PrivilegedMFAFields
<1>6. /\ SuperAdminCount # InactivePrivileged
      /\ PrivilegedCounts \cap PrivilegedMFAFields = {}
      /\ {SuperAdminCount, InactivePrivileged}
           \cap (PrivilegedCounts \cup PrivilegedMFAFields) = {}
  BY DEF SuperAdminCount, InactivePrivileged, PrivilegedCounts, PrivilegedMFAFields
<1>7. settled \subseteq Fields
  BY DEF Fields
<1> HIDE DEF settled, membersUnread, adminsUnread, mfaWhy, inactiveWhy
<1>8. ASSUME NEW f \in Fields
      PROVE  f \in values <=> \/ adminsUnread = NoMiss /\ f = SuperAdminCount
                              \/ membersUnread = NoMiss /\ f \in PrivilegedCounts
                              \/ /\ mfaWhy = NoMiss /\ f \in PrivilegedMFAFields
                                 /\ tenant.privileged > 0
                              \/ /\ inactiveWhy = NoMiss /\ f = InactivePrivileged
                                 /\ tenant.privileged > 0
  BY FieldsAreNotCounts DEF PercentInt, UnexportedCounts
<1>9. values \subseteq settled \cup UnexportedCounts
  BY <1>5 DEF PercentInt, UnexportedCounts
<1>10. left \subseteq Gap
  BY <1>4, <1>5, <1>7, LeaveOutGaps
<1>11. Settles(settled, values, left)
  <2>1. ASSUME NEW f
        PROVE  GapAt(left, f) <=>
                 \/ adminsUnread # NoMiss /\ f = SuperAdminCount
                 \/ membersUnread # NoMiss /\ f \in PrivilegedCounts
                 \/ mfaWhy # NoMiss /\ f \in PrivilegedMFAFields
                 \/ inactiveWhy # NoMiss /\ f = InactivePrivileged
    <3>1. GapAt(left, f) <=>
            \/ GapAt(leaveOut(adminsUnread, {SuperAdminCount}), f)
            \/ GapAt(leaveOut(membersUnread, PrivilegedCounts), f)
            \/ GapAt(leaveOut(mfaWhy, PrivilegedMFAFields), f)
            \/ GapAt(leaveOut(inactiveWhy, {InactivePrivileged}), f)
      BY DEF GapAt
    <3>2. QED  BY <3>1, LeaveOutAt
  <2>2. ASSUME NEW f \in {InactivePrivileged} \cup PrivilegedMFAFields,
               ~(tenant.privileged > 0)
        PROVE  EmptyPopulation(f)
    BY <2>2, TenantSizes DEF EmptyPopulation, TenantFacts
  <2> HIDE DEF values, left
  <2>3. ASSUME NEW f \in Fields \ settled
        PROVE  f \notin values /\ ~GapAt(left, f)
    BY <1>5, <1>8, <2>1
  <2>4. ASSUME NEW f \in settled
        PROVE  IF f \in values THEN ~GapAt(left, f)
               ELSE GapAt(left, f) \/ EmptyPopulation(f)
    BY <1>5, <1>6, <1>7, <1>8, <2>1, <2>2
  <2>5. QED  BY <2>3, <2>4 DEF Settles
<1>12. values \subseteq Fields \cup UnexportedCounts
  BY <1>7, <1>9
<1> HIDE DEF values, left
<1>13. QED  BY <1>1, <1>2, <1>10, <1>11, <1>12 DEF HandlerSettles, settled

LEMMA ReadRoleEligibilitySettles ==
  ASSUME TypeOK, NEW x, ReadRoleEligibility(x)
  PROVE  HandlerSettles("role_eligibility", x, EligibilityFields)
<1> DEFINE why == miss'["role_eligibility"]
           standing == "/privileged_access/standing_assignment_count"
           pim == "/privileged_access/pim_eligible_pct"
           values == IF why = NoMiss
                     THEN {standing} \cup PercentInt(pim, tenant.eligible + tenant.standing)
                     ELSE {}
           left == leaveOut(why, EligibilityFields)
<1>1. /\ Receive("role_eligibility", x)
      /\ pc' = "service_principals"
      /\ Record(values, left)
  BY DEF ReadRoleEligibility
<1>2. {"role_eligibility", "service_principals"} \subseteq Reads
  BY DEF Reads
<1>3. EligibilityFields \subseteq Fields /\ EligibilityFields = {standing, pim}
  BY DEF Fields, PrivilegedFields, EligibilityFields
<1>4. why \in Miss
  BY <1>1, <1>2, ReceiveTypeOK
<1>5. values \subseteq EligibilityFields
  BY <1>3, PercentIntWrites
<1>6. left \subseteq Gap
  BY <1>3, <1>4, LeaveOutGaps
<1>7. Settles(EligibilityFields, values, left)
  <2>1. pim \in values \/ why # NoMiss \/ EmptyPopulation(pim)
    BY TenantSizes DEF PercentInt, EmptyPopulation, TenantFacts
  <2>2. why # NoMiss => values = {}
    OBVIOUS
  <2>3. why = NoMiss => standing \in values
    OBVIOUS
  <2> HIDE DEF values
  <2>4. QED  BY <1>3, <1>5, <2>1, <2>2, <2>3, LeaveOutAt DEF Settles
<1> HIDE DEF values, left
<1>8. QED  BY <1>1, <1>2, <1>3, <1>5, <1>6, <1>7 DEF HandlerSettles

-----------------------------------------------------------------------------
(* The application fields.                                                 *)
LEMMA ReadApplicationsSettles ==
  ASSUME TypeOK, NEW x, ReadApplications(x)
  PROVE  HandlerSettles("applications", x, AppFields \cup CredentialFields)
<1> DEFINE appsMiss == miss["service_principals"]
           why == firstMissing(appsMiss, miss'["applications"])
           settled == AppFields \cup CredentialFields
           password == "/apps/password_credentials_pct"
           apps == IF appsMiss = NoMiss
                   THEN {"/apps/enabled_enterprise_apps_count"}
                          \cup PercentInt("/apps/assignment_required_pct", tenant.apps)
                          \cup PercentInt("/posture/sso_coverage", tenant.apps)
                   ELSE {}
           credentials == IF why = NoMiss
                          THEN (CredentialFields \ {password})
                                 \cup PercentInt(password, tenant.credentials)
                          ELSE {}
           values == apps \cup credentials
           left == leaveOut(appsMiss, AppFields) \cup leaveOut(why, CredentialFields)
<1>1. /\ Receive("applications", x)
      /\ pc' = "secure_scores"
      /\ Record(values, left)
  BY DEF ReadApplications
<1>2. {"applications", "service_principals", "secure_scores"} \subseteq Reads
  BY DEF Reads
<1>3. appsMiss \in Miss /\ why \in Miss
  BY <1>1, <1>2, ReceiveTypeOK, FirstMissingInMiss DEF TypeOK
<1>4. settled \subseteq Fields
  BY DEF Fields
<1>5. AppFields \cap CredentialFields = {}
  BY DEF AppFields, CredentialFields
<1>6. apps \subseteq AppFields /\ credentials \subseteq CredentialFields
  BY DEF PercentInt, AppFields, CredentialFields
<1>7. left \subseteq Gap
  BY <1>3, <1>4, LeaveOutGaps
<1>8. Settles(settled, values, left)
  <2>1. ASSUME NEW f
        PROVE  GapAt(left, f) <=> \/ appsMiss # NoMiss /\ f \in AppFields
                                  \/ why # NoMiss /\ f \in CredentialFields
    <3>1. GapAt(left, f) <=> \/ GapAt(leaveOut(appsMiss, AppFields), f)
                             \/ GapAt(leaveOut(why, CredentialFields), f)
      BY GapAtUnion
    <3>2. QED  BY <3>1, LeaveOutAt
  <2>2. ASSUME NEW f \in AppFields
        PROVE  IF appsMiss # NoMiss THEN f \notin apps
               ELSE f \in apps \/ EmptyPopulation(f)
    BY TenantSizes DEF PercentInt, EmptyPopulation, TenantFacts, AppFields
  <2>3. ASSUME NEW f \in CredentialFields
        PROVE  IF why # NoMiss THEN f \notin credentials
               ELSE f \in credentials \/ EmptyPopulation(f)
    BY TenantSizes DEF PercentInt, EmptyPopulation, TenantFacts, CredentialFields
  <2> HIDE DEF apps, credentials, left, why, appsMiss
  <2>4. QED  BY <1>4, <1>5, <1>6, <2>1, <2>2, <2>3 DEF Settles
<1>9. values \subseteq Fields \cup UnexportedCounts
  BY <1>4, <1>6
<1> HIDE DEF values, left
<1>10. QED  BY <1>1, <1>2, <1>7, <1>8, <1>9 DEF HandlerSettles

-----------------------------------------------------------------------------
(* A handler of one read that writes its fields or leaves them all out.    *)
LEMMA WholeReadSettles ==
  ASSUME TypeOK, NEW r \in Reads, NEW x, Receive(r, x),
         pc' \in Reads \cup {"collected"}, NEW fields \in SUBSET Fields,
         Record(IF miss'[r] = NoMiss THEN fields ELSE {}, leaveOut(miss'[r], fields))
  PROVE  HandlerSettles(r, x, fields)
<1> DEFINE why == miss'[r]
           values == IF why = NoMiss THEN fields ELSE {}
           left == leaveOut(why, fields)
<1>1. why \in Miss
  BY ReceiveTypeOK
<1>2. left \subseteq Gap
  BY <1>1, LeaveOutGaps
<1>3. Settles(fields, values, left)
  BY LeaveOutAt DEF Settles
<1>4. values \subseteq Fields \cup UnexportedCounts
  OBVIOUS
<1>5. Record(values, left)
  OBVIOUS
<1> HIDE DEF values, left
<1>6. QED  BY <1>2, <1>3, <1>4, <1>5 DEF HandlerSettles

LEMMA ReadSecureScoresSettles ==
  ASSUME TypeOK, NEW x, ReadSecureScores(x)
  PROVE  HandlerSettles("secure_scores", x, SecureScoreFields)
<1>1. {"secure_scores", "directory_audits"} \subseteq Reads
  BY DEF Reads
<1>2. SecureScoreFields \subseteq Fields
  BY DEF Fields
<1>3. pc' \in Reads \cup {"collected"}
  BY <1>1 DEF ReadSecureScores, afterSecureScores
<1>4. QED  BY <1>1, <1>2, <1>3, WholeReadSettles DEF ReadSecureScores

LEMMA ReadDirectoryAuditsSettles ==
  ASSUME TypeOK, NEW x, ReadDirectoryAudits(x)
  PROVE  HandlerSettles("directory_audits", x, DirectoryActivityFields)
<1>1. {"directory_audits", "sign_ins"} \subseteq Reads
  BY DEF Reads
<1>2. DirectoryActivityFields \subseteq Fields
  BY DEF Fields
<1>3. QED  BY <1>1, <1>2, WholeReadSettles DEF ReadDirectoryAudits

LEMMA ReadSignInsSettles ==
  ASSUME TypeOK, NEW x, ReadSignIns(x)
  PROVE  HandlerSettles("sign_ins", x, SignInMonitoringFields)
<1> DEFINE why == miss'["sign_ins"]
           risky == IF why = NoMiss /\ tenant.unrated
                    THEN unlicensed("sign_ins") ELSE why
           applied == IF why = NoMiss /\ tenant.policiesOmitted
                      THEN failed("sign_ins", "permission_denied") ELSE why
           count == "/sign_in_monitoring/sign_ins_count"
           values == (IF why = NoMiss THEN {count} ELSE {})
                       \cup (IF risky = NoMiss THEN {RiskySignIns} ELSE {})
                       \cup (IF applied = NoMiss THEN AppliedPolicyFields ELSE {})
           left == leaveOut(why, {count}) \cup leaveOut(risky, {RiskySignIns})
                     \cup leaveOut(applied, AppliedPolicyFields)
<1>1. Receive("sign_ins", x) /\ pc' = "collected" /\ Record(values, left)
  BY DEF ReadSignIns
<1>2. "sign_ins" \in Reads
  BY DEF Reads
<1>3. why \in Miss
  BY <1>1, <1>2, ReceiveTypeOK
<1>4. risky \in Miss /\ applied \in Miss
  BY <1>2, <1>3 DEF Miss, Codes, failed, unlicensed
<1>5. /\ SignInMonitoringFields = {count, RiskySignIns} \cup AppliedPolicyFields
      /\ count # RiskySignIns
      /\ {count, RiskySignIns} \cap AppliedPolicyFields = {}
      /\ SignInMonitoringFields \subseteq Fields
  BY DEF SignInMonitoringFields, RiskySignIns, AppliedPolicyFields, Fields
<1>6. left \subseteq Gap
  BY <1>3, <1>4, <1>5, LeaveOutGaps
<1> HIDE DEF why, risky, applied
<1>7. Settles(SignInMonitoringFields, values, left)
  <2>1. ASSUME NEW f
        PROVE  GapAt(left, f) <=> \/ why # NoMiss /\ f = count
                                  \/ risky # NoMiss /\ f = RiskySignIns
                                  \/ applied # NoMiss /\ f \in AppliedPolicyFields
    <3>1. GapAt(left, f) <=> \/ GapAt(leaveOut(why, {count}), f)
                             \/ GapAt(leaveOut(risky, {RiskySignIns}), f)
                             \/ GapAt(leaveOut(applied, AppliedPolicyFields), f)
      BY DEF GapAt
    <3>2. QED  BY <3>1, LeaveOutAt
  <2> HIDE DEF left
  <2>2. QED  BY <1>5, <2>1 DEF Settles
<1>8. values \subseteq Fields
  BY <1>5
<1> HIDE DEF values, left
<1>9. QED  BY <1>1, <1>2, <1>6, <1>7, <1>8 DEF HandlerSettles

-----------------------------------------------------------------------------
(* What a handler that settles its fields preserves.                       *)
LEMMA HandlerKeepsType ==
  ASSUME TypeOK, NEW r, NEW x, NEW fields, HandlerSettles(r, x, fields)
  PROVE  TypeOK'
<1>1. PICK values \in SUBSET (Fields \cup UnexportedCounts), left \in SUBSET Gap :
        Record(values, left)
  BY DEF HandlerSettles
<1>2. QED  BY <1>1, HandlerTypeOK DEF HandlerSettles

LEMMA HandlerAccounts ==
  ASSUME EveryNullIsExplained, NEW r, NEW x, NEW fields \in SUBSET Fields,
         HandlerSettles(r, x, fields),
         \A f \in Fields : Due(f)' <=> Due(f) \/ f \in fields,
         \A f \in fields : ~Due(f)
  PROVE  EveryNullIsExplained'
<1>1. PICK values \in SUBSET (Fields \cup UnexportedCounts), left \in SUBSET Gap :
        Record(values, left) /\ Settles(fields, values, left)
  BY DEF HandlerSettles
<1>2. tenant' = tenant
  BY DEF HandlerSettles, Receive
<1>3. ASSUME NEW f \in Fields
      PROVE  Accounted(f)'
  <2>1. f \in written' <=> f \in written \/ f \in values
    BY <1>1 DEF Record
  <2>2. HasGap(f)' <=> HasGap(f) \/ GapAt(left, f)
    BY <1>1 DEF Record, HasGap, GapAt
  <2>3. EmptyPopulation(f)' <=> EmptyPopulation(f)
    BY <1>2 DEF EmptyPopulation
  <2>4. Accounted(f)
    BY DEF EveryNullIsExplained
  <2>5. CASE f \in fields
    <3>1. ~Due(f) /\ Due(f)'
      BY <2>5
    <3>2. f \notin written /\ ~HasGap(f)
      BY <2>4, <3>1 DEF Accounted
    <3>3. IF f \in values THEN ~GapAt(left, f)
          ELSE GapAt(left, f) \/ EmptyPopulation(f)
      BY <1>1, <2>5 DEF Settles
    <3>4. QED  BY <2>1, <2>2, <2>3, <3>1, <3>2, <3>3 DEF Accounted
  <2>6. CASE f \notin fields
    <3>1. Due(f)' <=> Due(f)
      BY <2>6
    <3>2. f \notin values /\ ~GapAt(left, f)
      BY <1>1, <2>6 DEF Settles
    <3>3. QED  BY <2>1, <2>2, <2>3, <2>4, <3>1, <3>2 DEF Accounted
  <2>7. QED  BY <2>5, <2>6
<1>4. QED  BY <1>3 DEF EveryNullIsExplained

(* When the handlers run, and which fields each turn makes final.          *)
LEMMA Turns ==
  /\ Turn["users"] = 1 /\ Turn["registrations"] = 2
  /\ Turn["sign_in_activity"] = 3 /\ Turn["conditional_access"] = 4
  /\ Turn["security_defaults"] = 5 /\ Turn["role_assignments"] = 6
  /\ Turn["role_eligibility"] = 7 /\ Turn["service_principals"] = 8
  /\ Turn["applications"] = 9 /\ Turn["secure_scores"] = 10
  /\ Turn["directory_audits"] = 11 /\ Turn["sign_ins"] = 12
  /\ Turn["collected"] = 13
BY DEF Turn, Reads

LEMMA Schedule ==
  ASSUME NEW f \in Fields
  PROVE  /\ SettledAt(f) \in {3, 5, 6, 7, 9, 10, 11, 12}
         /\ SettledAt(f) = 3 <=> f \in UserFields \cup RegistrationFields
                                           \cup SignInActivityFields
         /\ SettledAt(f) = 5 <=> f \in SecurityDefaultsFields
                                     \cup ConditionalAccessFields \cup {Coverage}
         /\ SettledAt(f) = 6 <=> f \in PrivilegedFields \ EligibilityFields
         /\ SettledAt(f) = 7 <=> f \in EligibilityFields
         /\ SettledAt(f) = 9 <=> f \in AppFields \cup CredentialFields
         /\ SettledAt(f) = 10 <=> f \in SecureScoreFields
         /\ SettledAt(f) = 11 <=> f \in DirectoryActivityFields
         /\ SettledAt(f) = 12 <=> f \in SignInMonitoringFields
         /\ f \in InternalFields <=> SettledAt(f) \in {11, 12}
BY DEF SettledAt, Fields, UserFields, RegistrationFields, SignInActivityFields,
       SecurityDefaultsFields, ConditionalAccessFields, Coverage, PrivilegedFields,
       SuperAdminCount, InactivePrivileged, PrivilegedCounts, PrivilegedMFAFields,
       EligibilityFields, AppFields, CredentialFields, SecureScoreFields,
       DirectoryActivityFields, SignInMonitoringFields, RiskySignIns,
       AppliedPolicyFields, InternalFields

-----------------------------------------------------------------------------
(* The sign-ins and audits are read at the internal level alone.  Without  *)
(* this a step from their reads could make a field final out of scope.     *)
InternalReads == pc \in {"directory_audits", "sign_ins"} => level = "internal"

IInv == TypeOK /\ EveryNullIsExplained /\ InternalReads

(* The fields a handler settles are those its turn makes final.            *)
SettlesOnTime(r, x, fields) ==
  /\ HandlerSettles(r, x, fields)
  /\ fields \subseteq Fields
  /\ \A f \in Fields : Due(f)' <=> Due(f) \/ f \in fields
  /\ \A f \in fields : ~Due(f)

LEMMA HandlersSettleOnTime ==
  ASSUME TypeOK, InternalReads, NEW x, Handle(x)
  PROVE  \E r, fields : SettlesOnTime(r, x, fields)
<1> USE Turns
<1> {} \subseteq Fields
  OBVIOUS
<1>a. ASSUME NEW f \in Fields
      PROVE  /\ InScope(f) <=> (SettledAt(f) \in {11, 12} => level = "internal")
             /\ Receive(pc, x) => (InScope(f)' <=> InScope(f))
             /\ SettledAt(f)' = SettledAt(f)
  BY Schedule DEF InScope, Receive, SettledAt
<1>1. CASE ReadUsers(x)
  <2>1. HandlerSettles("users", x, {})
    BY <1>1, QuietReadSettles DEF ReadUsers, Reads
  <2>2. SettlesOnTime("users", x, {})
    BY <1>1, <1>a, <2>1, Schedule DEF SettlesOnTime, ReadUsers, Receive, Due
  <2>3. QED  BY <2>2
<1>2. CASE ReadRegistrations(x)
  <2>1. HandlerSettles("registrations", x, {})
    BY <1>2, QuietReadSettles DEF ReadRegistrations, Reads
  <2>2. SettlesOnTime("registrations", x, {})
    BY <1>2, <1>a, <2>1, Schedule DEF SettlesOnTime, ReadRegistrations, Receive, Due
  <2>3. QED  BY <2>2
<1>3. CASE ReadSignInActivity(x)
  <2> DEFINE fields == UserFields \cup RegistrationFields \cup SignInActivityFields
  <2>1. HandlerSettles("sign_in_activity", x, fields)
    BY <1>3, ReadSignInActivitySettles
  <2>2. fields \subseteq Fields
    BY DEF Fields
  <2>3. SettlesOnTime("sign_in_activity", x, fields)
    BY <1>3, <1>a, <2>1, <2>2, Schedule
       DEF SettlesOnTime, ReadSignInActivity, Receive, Due
  <2>4. QED  BY <2>3
<1>4. CASE ReadConditionalAccess(x)
  <2>1. HandlerSettles("conditional_access", x, {})
    BY <1>4, QuietReadSettles DEF ReadConditionalAccess, Reads
  <2>2. SettlesOnTime("conditional_access", x, {})
    BY <1>4, <1>a, <2>1, Schedule
       DEF SettlesOnTime, ReadConditionalAccess, Receive, Due
  <2>3. QED  BY <2>2
<1>5. CASE ReadSecurityDefaults(x)
  <2> DEFINE fields == SecurityDefaultsFields \cup ConditionalAccessFields
                         \cup {Coverage}
  <2>1. HandlerSettles("security_defaults", x, fields)
    BY <1>5, ReadSecurityDefaultsSettles
  <2>2. fields \subseteq Fields
    BY DEF Fields
  <2>3. SettlesOnTime("security_defaults", x, fields)
    BY <1>5, <1>a, <2>1, <2>2, Schedule
       DEF SettlesOnTime, ReadSecurityDefaults, Receive, Due
  <2>4. QED  BY <2>3
<1>6. CASE LeaveOutPrivilegedAccess(x)
  <2>1. HandlerSettles("role_assignments", x, PrivilegedFields)
    BY <1>6, LeaveOutPrivilegedAccessSettles
  <2>2. PrivilegedFields \subseteq Fields /\ EligibilityFields \subseteq PrivilegedFields
    BY DEF Fields, PrivilegedFields
  <2>3. SettlesOnTime("role_assignments", x, PrivilegedFields)
    BY <1>6, <1>a, <2>1, <2>2, Schedule
       DEF SettlesOnTime, LeaveOutPrivilegedAccess, Receive, Due
  <2>4. QED  BY <2>3
<1>7. CASE ReadRoleAssignments(x)
  <2> DEFINE fields == PrivilegedFields \ EligibilityFields
  <2>1. HandlerSettles("role_assignments", x, fields)
    BY <1>7, ReadRoleAssignmentsSettles
  <2>2. fields \subseteq Fields
    BY DEF Fields
  <2>3. SettlesOnTime("role_assignments", x, fields)
    BY <1>7, <1>a, <2>1, <2>2, Schedule
       DEF SettlesOnTime, ReadRoleAssignments, Receive, Due
  <2>4. QED  BY <2>3
<1>8. CASE ReadRoleEligibility(x)
  <2>1. HandlerSettles("role_eligibility", x, EligibilityFields)
    BY <1>8, ReadRoleEligibilitySettles
  <2>2. EligibilityFields \subseteq Fields
    BY DEF Fields, PrivilegedFields
  <2>3. SettlesOnTime("role_eligibility", x, EligibilityFields)
    BY <1>8, <1>a, <2>1, <2>2, Schedule
       DEF SettlesOnTime, ReadRoleEligibility, Receive, Due
  <2>4. QED  BY <2>3
<1>9. CASE ReadServicePrincipals(x)
  <2>1. HandlerSettles("service_principals", x, {})
    BY <1>9, QuietReadSettles DEF ReadServicePrincipals, Reads
  <2>2. SettlesOnTime("service_principals", x, {})
    BY <1>9, <1>a, <2>1, Schedule
       DEF SettlesOnTime, ReadServicePrincipals, Receive, Due
  <2>3. QED  BY <2>2
<1>10. CASE ReadApplications(x)
  <2> DEFINE fields == AppFields \cup CredentialFields
  <2>1. HandlerSettles("applications", x, fields)
    BY <1>10, ReadApplicationsSettles
  <2>2. fields \subseteq Fields
    BY DEF Fields
  <2>3. SettlesOnTime("applications", x, fields)
    BY <1>10, <1>a, <2>1, <2>2, Schedule
       DEF SettlesOnTime, ReadApplications, Receive, Due
  <2>4. QED  BY <2>3
<1>11. CASE ReadSecureScores(x)
  <2>1. HandlerSettles("secure_scores", x, SecureScoreFields)
    BY <1>11, ReadSecureScoresSettles
  <2>2. SecureScoreFields \subseteq Fields
    BY DEF Fields
  <2>3. SettlesOnTime("secure_scores", x, SecureScoreFields)
    BY <1>11, <1>a, <2>1, <2>2, Schedule
       DEF SettlesOnTime, ReadSecureScores, afterSecureScores, Receive, Due
  <2>4. QED  BY <2>3
<1>12. CASE ReadDirectoryAudits(x)
  <2>1. HandlerSettles("directory_audits", x, DirectoryActivityFields)
    BY <1>12, ReadDirectoryAuditsSettles
  <2>2. DirectoryActivityFields \subseteq Fields
    BY DEF Fields
  <2>3. SettlesOnTime("directory_audits", x, DirectoryActivityFields)
    BY <1>12, <1>a, <2>1, <2>2, Schedule
       DEF SettlesOnTime, ReadDirectoryAudits, Receive, Due, InternalReads
  <2>4. QED  BY <2>3
<1>13. CASE ReadSignIns(x)
  <2>1. HandlerSettles("sign_ins", x, SignInMonitoringFields)
    BY <1>13, ReadSignInsSettles
  <2>2. SignInMonitoringFields \subseteq Fields
    BY DEF Fields
  <2>3. SettlesOnTime("sign_ins", x, SignInMonitoringFields)
    BY <1>13, <1>a, <2>1, <2>2, Schedule
       DEF SettlesOnTime, ReadSignIns, Receive, Due, InternalReads
  <2>4. QED  BY <2>3
<1>14. QED
  BY <1>1, <1>2, <1>3, <1>4, <1>5, <1>6, <1>7, <1>8, <1>9, <1>10, <1>11, <1>12,
     <1>13 DEF Handle

-----------------------------------------------------------------------------
LEMMA InitIInv == Init => IInv
<1> SUFFICES ASSUME Init
             PROVE  IInv
  OBVIOUS
<1>1. TypeOK
  BY DEF Init, TypeOK, Reads, Miss
<1>2. EveryNullIsExplained
  BY Turns, Schedule DEF Init, EveryNullIsExplained, Accounted, Due, HasGap
<1>3. InternalReads
  BY DEF Init, InternalReads
<1>4. QED  BY <1>1, <1>2, <1>3 DEF IInv

LEMMA NextIInv == IInv /\ [Next]_vars => IInv'
<1> SUFFICES ASSUME IInv, [Next]_vars
             PROVE  IInv'
  OBVIOUS
<1>1. CASE UNCHANGED vars
  BY <1>1 DEF vars, IInv, TypeOK, EveryNullIsExplained, Accounted, InternalReads,
              Due, InScope, HasGap, EmptyPopulation
<1>2. CASE Next
  <2>1. PICK x \in Responses : Handle(x)
    BY <1>2 DEF Next
  <2>2. PICK r, fields : SettlesOnTime(r, x, fields)
    BY <2>1, HandlersSettleOnTime DEF IInv
  <2>3. TypeOK'
    BY <2>2, HandlerKeepsType DEF IInv, SettlesOnTime
  <2>4. EveryNullIsExplained'
    BY <2>2, HandlerAccounts DEF IInv, SettlesOnTime
  <2>5. InternalReads'
    BY <2>1 DEF Handle, ReadUsers, ReadRegistrations, ReadSignInActivity,
                ReadConditionalAccess, ReadSecurityDefaults,
                LeaveOutPrivilegedAccess, ReadRoleAssignments, ReadRoleEligibility,
                ReadServicePrincipals, ReadApplications, ReadSecureScores,
                ReadDirectoryAudits, ReadSignIns, afterSecureScores, Receive,
                InternalReads, IInv
  <2>6. QED  BY <2>3, <2>4, <2>5 DEF IInv
<1>3. QED  BY <1>1, <1>2

(* Every state of a run is well-formed: whatever fails, each gap is at a   *)
(* field of the artifact and gives a reason, and each capability listed    *)
(* is one the handlers know.                                               *)
THEOREM TypeCorrect == Spec => []TypeOK
<1>1. IInv => TypeOK
  BY DEF IInv
<1>2. QED  BY InitIInv, NextIInv, <1>1, PTL DEF Spec

(* In every state of a run, each field whose handler has run and that is   *)
(* in the level's scope is written without a gap, or has one, or is null   *)
(* over an empty population, and no other field is touched.                *)
THEOREM NullsExplained == Spec => []EveryNullIsExplained
<1>1. IInv => EveryNullIsExplained
  BY DEF IInv
<1>2. QED  BY InitIInv, NextIInv, <1>1, PTL DEF Spec

-----------------------------------------------------------------------------
(* The steps of the collection are steps of Evidence.                      *)
LEMMA StatusOfPending ==
  ASSUME NEW f, ~Due(f), InScope(f), f \notin written, ~HasGap(f)
  PROVE  Status(f) = "pending"
BY DEF Status

LEMMA InitImplementsEvidence == Init => Promise!EvidenceInit
<1> SUFFICES ASSUME Init
             PROVE  Promise!EvidenceInit
  OBVIOUS
<1>1. ASSUME NEW f \in Fields
      PROVE  Status(f) \in {"pending", "out_of_scope"}
  BY Turns, Schedule DEF Init, Status, Due, HasGap
<1>2. pc # "collected"
  BY DEF Init
<1>3. QED  BY <1>1, <1>2 DEF Promise!EvidenceInit

LEMMA StepImplementsEvidence ==
  ASSUME IInv, IInv', Next
  PROVE  Promise!EvidenceNext
<1>1. PICK x \in Responses : Handle(x)
  BY DEF Next
<1>2. PICK r, fields : SettlesOnTime(r, x, fields)
  BY <1>1, HandlersSettleOnTime DEF IInv
<1>3. PICK values \in SUBSET (Fields \cup UnexportedCounts), left \in SUBSET Gap :
        Record(values, left) /\ Settles(fields, values, left)
  BY <1>2 DEF SettlesOnTime, HandlerSettles
<1>4. pc \in Reads /\ level' = level /\ tenant' = tenant
  BY <1>2 DEF SettlesOnTime, HandlerSettles, Receive
<1>5. pc # "collected"
  BY <1>4 DEF Reads
<1>6. ASSUME NEW f \in Fields, f \in fields
      PROVE  Status(f) = "pending" /\ Status(f)' \in {"value", "gap", "empty"}
  <2>1. ~Due(f) /\ Due(f)'
    BY <1>2, <1>6 DEF SettlesOnTime
  <2>2. InScope(f) <=> InScope(f)'
    BY <1>4 DEF InScope
  <2>3. f \notin written /\ ~HasGap(f)
    BY <2>1 DEF IInv, EveryNullIsExplained, Accounted
  <2>4. Status(f) = "pending"
    BY <2>1, <2>2, <2>3, StatusOfPending DEF Due
  <2>5. Accounted(f)'
    BY <1>6 DEF IInv, EveryNullIsExplained
  <2>6. f \in written' \/ HasGap(f)' \/ EmptyPopulation(f)'
    BY <2>1, <2>5 DEF Accounted
  <2>7. Status(f)' \in {"value", "gap", "empty"}
    BY <2>1, <2>6 DEF Status, Due
  <2>8. QED  BY <2>4, <2>7
<1>7. ASSUME NEW f \in Fields, f \notin fields
      PROVE  Status(f)' = Status(f)
  <2>1. Due(f)' <=> Due(f)
    BY <1>2, <1>7 DEF SettlesOnTime
  <2>2. InScope(f)' <=> InScope(f)
    BY <1>4 DEF InScope
  <2>3. f \in written' <=> f \in written
    BY <1>3, <1>7 DEF Record, Settles
  <2>4. HasGap(f)' <=> HasGap(f)
    BY <1>3, <1>7 DEF Record, Settles, HasGap, GapAt
  <2>5. EmptyPopulation(f)' <=> EmptyPopulation(f)
    BY <1>4 DEF EmptyPopulation
  <2>6. QED  BY <2>1, <2>2, <2>3, <2>4, <2>5 DEF Status
<1>8. ASSUME NEW f \in Fields
      PROVE  Status(f)' \in {"value", "gap", "empty", "pending", "out_of_scope"}
  BY DEF Status
<1>9. Promise!Settle
  BY <1>6, <1>7, <1>8 DEF Promise!Settle, Promise!Settled
<1>10. CASE pc' = "collected"
  <2>1. ASSUME NEW f \in Fields
        PROVE  Status(f)' # "pending"
    <3>1. SettledAt(f) < 13 /\ SettledAt(f)' = SettledAt(f)
      BY Schedule DEF SettledAt
    <3>2. InScope(f)' => Due(f)'
      BY <1>10, <3>1, Turns DEF Due
    <3>3. Accounted(f)'
      BY DEF IInv, EveryNullIsExplained
    <3>4. QED  BY <3>2, <3>3 DEF Status, Accounted, Due
  <2>2. QED  BY <1>5, <1>9, <1>10, <2>1 DEF Promise!EvidenceNext, Promise!SettleAndEnd
<1>11. CASE pc' # "collected"
  BY <1>5, <1>9, <1>11 DEF Promise!EvidenceNext
<1>12. QED  BY <1>10, <1>11

(* The collection keeps the promise of Evidence: whatever fails, a handler *)
(* settles pending fields only, once each, and the run ends with none      *)
(* pending.  That it ends is the part of KeepsThePromise left to TLC.      *)
THEOREM CollectionKeepsThePromise == Spec => Promise!EvidenceSafety
<1>1. IInv /\ IInv' /\ [Next]_vars => [Promise!EvidenceNext]_(Promise!evidenceVars)
  <2>1. ASSUME UNCHANGED vars
        PROVE  UNCHANGED Promise!evidenceVars
    <3>1. ASSUME NEW f \in Fields
          PROVE  Status(f)' = Status(f)
      <4>1. /\ InScope(f)' <=> InScope(f)
            /\ Due(f)' <=> Due(f)
            /\ HasGap(f)' <=> HasGap(f)
            /\ EmptyPopulation(f)' <=> EmptyPopulation(f)
        BY <2>1 DEF vars, InScope, Due, HasGap, EmptyPopulation
      <4>2. f \in written' <=> f \in written
        BY <2>1 DEF vars
      <4>3. QED  BY <4>1, <4>2 DEF Status
    <3>2. pc' = pc
      BY <2>1 DEF vars
    <3>3. QED  BY <3>1, <3>2 DEF Promise!evidenceVars
  <2>2. QED  BY <2>1, StepImplementsEvidence
<1>2. QED
  BY <1>1, InitIInv, NextIInv, InitImplementsEvidence, PTL
     DEF Spec, Promise!EvidenceSafety

-----------------------------------------------------------------------------
(***************************************************************************)
(* That no value of the Entra artifact comes from a list that was not      *)
(* read, that what is listed as unavailable is, and that each gap names    *)
(* its cause.  The argument rests on the order of the reads: a field that  *)
(* was written or left out is one whose turn has come                      *)
(* (EveryNullIsExplained), the reads it is taken from came before, and a   *)
(* later read changes no earlier outcome.                                  *)
(***************************************************************************)

(* The body of NoValueFromAFailedRead, for one field.                      *)
Founded(f) ==
  IF f = Coverage /\ miss["conditional_access"] # NoMiss
  THEN /\ miss["security_defaults"] = NoMiss
       /\ miss["conditional_access"].code = "not_licensed" \/ tenant.defaultsOn
  ELSE \A r \in Sources(f) :
         miss[r] = NoMiss \/ (f = Coverage /\ r = "security_defaults"
                                          /\ tenant.policies > 0)

(* The eligibility schedules are read only when the holders were.          *)
HoldersRead ==
  pc = "role_eligibility" =>
    miss["users"] = NoMiss /\ miss["role_assignments"] = NoMiss

(* A read whose turn has not come has no outcome.                          *)
NothingAhead == \A r \in Reads : Turn[r] >= Turn[pc] => miss[r] = NoMiss

(* What is listed as unavailable failed for a license or a permission.     *)
ListedFailed ==
  \A r \in DOMAIN Capability :
    Capability[r] \in unavailable => miss[r].code \in {"not_licensed", "permission_denied"}

ValuesInv ==
  IInv /\ HoldersRead /\ NothingAhead /\ NoValueFromAFailedRead /\ ListedFailed

LEMMA FieldGroups ==
  /\ Coverage \notin UserFields \cup RegistrationFields \cup SignInActivityFields
       \cup SecurityDefaultsFields \cup ConditionalAccessFields \cup PrivilegedFields
       \cup AppFields \cup CredentialFields \cup SecureScoreFields
       \cup DirectoryActivityFields \cup SignInMonitoringFields
  /\ {Coverage} \subseteq Fields
BY DEF Fields, UserFields, RegistrationFields, SignInActivityFields,
       SecurityDefaultsFields, ConditionalAccessFields, Coverage, PrivilegedFields,
       SuperAdminCount, InactivePrivileged, PrivilegedCounts, PrivilegedMFAFields,
       EligibilityFields, AppFields, CredentialFields, SecureScoreFields,
       DirectoryActivityFields, SignInMonitoringFields, RiskySignIns,
       AppliedPolicyFields

(* The reads of each group of fields.                                      *)
LEMMA SourcesOf ==
  ASSUME NEW f \in Fields
  PROVE  /\ f \in UserFields => Sources(f) = {"users"}
         /\ f \in RegistrationFields => Sources(f) = {"users", "registrations"}
         /\ f \in SignInActivityFields => Sources(f) = {"sign_in_activity"}
         /\ f \in SecurityDefaultsFields => Sources(f) = {"security_defaults"}
         /\ f \in ConditionalAccessFields => Sources(f) = {"conditional_access"}
         /\ f = Coverage => Sources(f) = {"users", "conditional_access", "security_defaults"}
         /\ f \in {SuperAdminCount} \cup PrivilegedCounts =>
              Sources(f) = {"users", "role_assignments"}
         /\ f \in PrivilegedMFAFields =>
              Sources(f) = {"users", "role_assignments", "registrations"}
         /\ f = InactivePrivileged =>
              Sources(f) = {"users", "role_assignments", "sign_in_activity"}
         /\ f \in EligibilityFields =>
              Sources(f) = {"users", "role_assignments", "role_eligibility"}
         /\ f \in AppFields => Sources(f) = {"service_principals"}
         /\ f \in CredentialFields => Sources(f) = {"service_principals", "applications"}
         /\ f \in SecureScoreFields => Sources(f) = {"secure_scores"}
         /\ f \in DirectoryActivityFields => Sources(f) = {"directory_audits"}
         /\ f \in SignInMonitoringFields => Sources(f) = {"sign_ins"}
BY DEF Sources, Fields, UserFields, RegistrationFields, SignInActivityFields,
       SecurityDefaultsFields, ConditionalAccessFields, Coverage, PrivilegedFields,
       SuperAdminCount, InactivePrivileged, PrivilegedCounts, PrivilegedMFAFields,
       EligibilityFields, AppFields, CredentialFields, SecureScoreFields,
       DirectoryActivityFields, SignInMonitoringFields, RiskySignIns,
       AppliedPolicyFields

(* The reads a field is taken from come no later than the field is final.  *)
LEMMA SourcesComeFirst ==
  ASSUME NEW f \in Fields, NEW r \in Sources(f)
  PROVE  r \in Reads /\ Turn[r] \in Nat /\ Turn[r] <= SettledAt(f)
<1>1. \/ f \in UserFields \/ f \in RegistrationFields \/ f \in SignInActivityFields
      \/ f \in SecurityDefaultsFields \/ f \in ConditionalAccessFields
      \/ f = Coverage \/ f \in {SuperAdminCount} \cup PrivilegedCounts
      \/ f \in PrivilegedMFAFields \/ f = InactivePrivileged
      \/ f \in EligibilityFields \/ f \in AppFields \/ f \in CredentialFields
      \/ f \in SecureScoreFields \/ f \in DirectoryActivityFields
      \/ f \in SignInMonitoringFields
  BY DEF Fields, PrivilegedFields
<1>2. r \in Reads
  BY <1>1, SourcesOf DEF Reads
<1>3. f \in {SuperAdminCount, InactivePrivileged} \cup PrivilegedCounts \cup PrivilegedMFAFields
        => f \in PrivilegedFields \ EligibilityFields
  BY DEF PrivilegedFields, EligibilityFields, SuperAdminCount, InactivePrivileged,
         PrivilegedCounts, PrivilegedMFAFields
<1>4. Turn[r] \in Nat /\ Turn[r] <= SettledAt(f)
  BY <1>1, <1>3, SourcesOf, Schedule, Turns
<1>5. QED  BY <1>2, <1>4

(* A field that was written before keeps its footing: the read that comes  *)
(* in now is none it is taken from.                                        *)
LEMMA EarlierStaysFounded ==
  ASSUME ValuesInv, NEW r \in Reads, NEW x, Receive(r, x), NEW f \in written \cap Fields
  PROVE  Founded(f)'
<1>1. Due(f) /\ Founded(f)
  BY DEF ValuesInv, IInv, EveryNullIsExplained, Accounted, NoValueFromAFailedRead, Founded
<1>2. pc = r /\ Turn[r] > SettledAt(f)
  BY <1>1 DEF Due, Receive
<1>3. miss \in [Reads -> Miss] /\ miss' = [miss EXCEPT ![r] = classify(r, x)]
      /\ tenant' = tenant
  BY DEF ValuesInv, IInv, TypeOK, Receive
<1>4. ASSUME NEW s \in Sources(f)
      PROVE  miss'[s] = miss[s]
  BY <1>2, <1>3, SourcesComeFirst, Schedule
<1>5. f = Coverage => /\ miss'["conditional_access"] = miss["conditional_access"]
                      /\ miss'["security_defaults"] = miss["security_defaults"]
  BY <1>4, SourcesOf
<1>6. QED  BY <1>1, <1>3, <1>4, <1>5 DEF Founded, Sources

(* What each handler writes, it takes from lists that were read.           *)
NewlyFounded(values) == \A f \in values \cap Fields : Founded(f)'

LEMMA NotCoverage ==
  ASSUME NEW f, f # Coverage, \A r \in Sources(f) : miss'[r] = NoMiss
  PROVE  Founded(f)'
BY DEF Founded, Sources, Coverage

LEMMA SignInActivityFounded ==
  ASSUME ValuesInv, NEW x, ReadSignInActivity(x)
  PROVE  \E values : written' = written \cup values /\ NewlyFounded(values)
<1> DEFINE usersMiss  == miss["users"]
           why        == firstMissing(usersMiss, miss["registrations"])
           signInMiss == miss'["sign_in_activity"]
           metrics == IF why = NoMiss THEN computeRegistrationMetrics ELSE {}
           values == UserValues(usersMiss) \cup metrics
                       \cup InactivityValues(signInMiss)
<1>1. Receive("sign_in_activity", x) /\ written' = written \cup values
  BY DEF ReadSignInActivity, Record
<1>2. /\ miss'["users"] = usersMiss
      /\ miss'["registrations"] = miss["registrations"]
  BY <1>1 DEF Receive, ValuesInv, IInv, TypeOK, Reads
<1>3. ASSUME NEW f \in values \cap Fields
      PROVE  Founded(f)'
  <2>1. CASE f \in UserValues(usersMiss)
    <3>1. f \in UserFields /\ usersMiss = NoMiss
      BY <2>1, FieldsAreNotCounts
         DEF UserValues, PercentInt, UserFields, UnexportedCounts
    <3>2. QED  BY <1>2, <3>1, SourcesOf, FieldGroups, NotCoverage
  <2>2. CASE f \in metrics
    <3>1. f \in RegistrationFields /\ why = NoMiss
      BY <2>2, FieldsAreNotCounts
         DEF computeRegistrationMetrics, PercentInt, RegistrationFields, UnexportedCounts
    <3>2. usersMiss = NoMiss /\ miss["registrations"] = NoMiss
      BY <3>1 DEF firstMissing
    <3>3. QED  BY <1>2, <3>1, <3>2, SourcesOf, FieldGroups, NotCoverage
  <2>3. CASE f \in InactivityValues(signInMiss)
    <3>1. f \in SignInActivityFields /\ signInMiss = NoMiss
      BY <2>3, FieldsAreNotCounts
         DEF InactivityValues, PercentInt, SignInActivityFields, UnexportedCounts
    <3>2. QED  BY <3>1, SourcesOf, FieldGroups, NotCoverage
  <2>4. QED  BY <2>1, <2>2, <2>3
<1> HIDE DEF values
<1>4. QED  BY <1>1, <1>3 DEF NewlyFounded

(* The coverage may rest on the security defaults alone.                   *)
LEMMA CoverageFounded ==
  ASSUME ValuesInv, NEW x, ReadSecurityDefaults(x),
         Coverage \in collectPolicy(miss["conditional_access"], miss["users"],
                                    miss'["security_defaults"])[1]
  PROVE  Founded(Coverage)'
<1> DEFINE ca == miss["conditional_access"]
           users == miss["users"]
           defaults == miss'["security_defaults"]
<1>1. Receive("security_defaults", x)
  BY DEF ReadSecurityDefaults
<1>2. miss'["conditional_access"] = ca /\ miss'["users"] = users /\ tenant' = tenant
  BY <1>1 DEF Receive, ValuesInv, IInv, TypeOK, Reads
<1>3. tenant.policies \in Nat /\ tenant.coverageUnknown \in BOOLEAN
  BY TenantSizes DEF TenantFacts, ValuesInv, IInv
<1>4. Coverage \notin ConditionalAccessFields
  BY FieldGroups
<1>5. CASE ca = NoMiss
  <2>1. Coverage \in CoverageWithPolicies(users, defaults)[1]
    BY <1>4, <1>5 DEF collectPolicy
  <2>2. users = NoMiss /\ (defaults = NoMiss \/ tenant.policies > 0)
    BY <1>3, <2>1 DEF CoverageWithPolicies, CoverageByDefaults
  <2>3. QED  BY <1>2, <1>5, <2>2, SourcesOf, FieldGroups DEF Founded
<1>6. CASE ca # NoMiss
  <2>1. Coverage \in CoverageWithoutPolicies(ca, users, defaults)[1]
    BY <1>6 DEF collectPolicy
  <2>2. defaults = NoMiss /\ (ca.code = "not_licensed" \/ tenant.defaultsOn)
    BY <2>1 DEF CoverageWithoutPolicies, CoverageByDefaults
  <2>3. QED  BY <1>2, <1>6, <2>2 DEF Founded
<1>7. QED  BY <1>5, <1>6

LEMMA SecurityDefaultsFounded ==
  ASSUME ValuesInv, NEW x, ReadSecurityDefaults(x)
  PROVE  \E values : written' = written \cup values /\ NewlyFounded(values)
<1> DEFINE ca == miss["conditional_access"]
           users == miss["users"]
           defaults == miss'["security_defaults"]
           policy == collectPolicy(ca, users, defaults)
           on == IF defaults = NoMiss THEN SecurityDefaultsFields ELSE {}
           values == policy[1] \cup on
<1>1. Receive("security_defaults", x) /\ written' = written \cup values
  BY DEF ReadSecurityDefaults, Record
<1>2. miss'["conditional_access"] = ca
  BY <1>1 DEF Receive, ValuesInv, IInv, TypeOK, Reads
<1>3. {"users", "conditional_access"} \subseteq Reads
  BY DEF Reads
<1>4. ca \in Miss /\ users \in Miss /\ defaults \in Miss
  BY <1>1, <1>3, ReceiveTypeOK DEF ValuesInv, IInv, TypeOK, Reads
<1>5. policy[1] \subseteq (IF ca = NoMiss THEN ConditionalAccessFields ELSE {})
                            \cup {Coverage} \cup UnexportedCounts
  <2>1. CASE ca = NoMiss
    BY <1>4, <2>1, CoverageWithPoliciesSettles
       DEF collectPolicy, CoverageOutcome, ValuesInv, IInv
  <2>2. CASE ca # NoMiss
    BY <1>4, <2>2, CoverageWithoutPoliciesSettles DEF collectPolicy, CoverageOutcome
  <2>3. QED  BY <2>1, <2>2
<1> HIDE DEF policy
<1>6. ASSUME NEW f \in values \cap Fields
      PROVE  Founded(f)'
  <2>1. CASE f = Coverage
    <3>1. Coverage \in policy[1]
      BY <2>1, <1>6, FieldGroups
    <3>2. QED  BY <2>1, <3>1, CoverageFounded DEF policy
  <2>2. CASE f # Coverage /\ f \in on
    BY <2>2, SourcesOf, NotCoverage
  <2>3. CASE f # Coverage /\ f \notin on
    <3>1. f \in ConditionalAccessFields /\ ca = NoMiss
      BY <1>5, <1>6, <2>3, FieldsAreNotCounts
    <3>2. QED  BY <1>2, <2>3, <3>1, SourcesOf, NotCoverage
  <2>4. QED  BY <2>1, <2>2, <2>3
<1> HIDE DEF values
<1>7. QED  BY <1>1, <1>6 DEF NewlyFounded

(* A reason that is none comes of two that are none.                       *)
LEMMA NothingMissing ==
  ASSUME NEW a, NEW b, firstMissing(a, b) = NoMiss
  PROVE  a = NoMiss /\ b = NoMiss
BY DEF firstMissing

(* A read changes no outcome but its own.                                  *)
LEMMA OtherReadsKept ==
  ASSUME TypeOK, NEW r \in Reads, NEW x, Receive(r, x)
  PROVE  /\ miss'[r] = classify(r, x)
         /\ \A s \in Reads \ {r} : miss'[s] = miss[s]
BY DEF TypeOK, Receive

LEMMA QuietReadFounded ==
  ASSUME Record({}, {})
  PROVE  \E values : written' = written \cup values /\ NewlyFounded(values)
<1>1. written' = written \cup {}
  BY DEF Record
<1>2. NewlyFounded({})
  BY DEF NewlyFounded
<1>3. QED  BY <1>1, <1>2

LEMMA RoleAssignmentsFounded ==
  ASSUME ValuesInv, NEW x, ReadRoleAssignments(x)
  PROVE  \E values : written' = written \cup values /\ NewlyFounded(values)
<1> DEFINE membersUnread == IF tenant.groupHeld
                            THEN notRead("group_role_members") ELSE NoMiss
           globalAdminsUnread == IF tenant.groupHeldGlobalAdmin
                                 THEN membersUnread ELSE NoMiss
           mfaWhy      == firstMissing(miss["registrations"], membersUnread)
           inactiveWhy == firstMissing(miss["sign_in_activity"], membersUnread)
           admins == IF globalAdminsUnread = NoMiss THEN {SuperAdminCount} ELSE {}
           counts == IF membersUnread = NoMiss THEN PrivilegedCounts ELSE {}
           mfa == IF mfaWhy = NoMiss
                  THEN {"PrivilegedAccess.mfaRegisteredCount"}
                         \cup UNION {PercentInt(f, tenant.privileged) :
                                       f \in PrivilegedMFAFields}
                  ELSE {}
           inactive == IF inactiveWhy = NoMiss
                       THEN PercentInt(InactivePrivileged, tenant.privileged) ELSE {}
           values == admins \cup counts \cup mfa \cup inactive
<1>1. Receive("role_assignments", x) /\ written' = written \cup values
  BY DEF ReadRoleAssignments, Record
<1>2. miss'["role_assignments"] = NoMiss /\ miss["users"] = NoMiss
  BY NothingMissing DEF ReadRoleAssignments
<1>3. \A s \in {"users", "registrations", "sign_in_activity"} : miss'[s] = miss[s]
  BY <1>1, OtherReadsKept DEF ValuesInv, IInv, Reads
<1>4. ASSUME NEW f \in values \cap Fields
      PROVE  Founded(f)'
  <2>1. CASE f \in admins \cup counts
    <3>1. f \in {SuperAdminCount} \cup PrivilegedCounts /\ f # Coverage
      BY <2>1, FieldGroups DEF PrivilegedFields
    <3>2. QED  BY <1>2, <1>3, <3>1, SourcesOf, NotCoverage
  <2>2. CASE f \in mfa
    <3>1. f \in PrivilegedMFAFields /\ mfaWhy = NoMiss
      BY <2>2, FieldsAreNotCounts
         DEF PercentInt, PrivilegedMFAFields, UnexportedCounts
    <3>2. miss["registrations"] = NoMiss /\ f # Coverage
      BY <3>1, NothingMissing, FieldGroups DEF PrivilegedFields
    <3>3. QED  BY <1>2, <1>3, <3>1, <3>2, SourcesOf, NotCoverage
  <2>3. CASE f \in inactive
    <3>1. f = InactivePrivileged /\ inactiveWhy = NoMiss
      BY <2>3 DEF PercentInt
    <3>2. miss["sign_in_activity"] = NoMiss /\ f # Coverage
      BY <3>1, NothingMissing, FieldGroups DEF PrivilegedFields
    <3>3. QED  BY <1>2, <1>3, <3>1, <3>2, SourcesOf, NotCoverage
  <2>4. QED  BY <2>1, <2>2, <2>3
<1> HIDE DEF values
<1>5. QED  BY <1>1, <1>4 DEF NewlyFounded

LEMMA RoleEligibilityFounded ==
  ASSUME ValuesInv, NEW x, ReadRoleEligibility(x)
  PROVE  \E values : written' = written \cup values /\ NewlyFounded(values)
<1> DEFINE why == miss'["role_eligibility"]
           values == IF why = NoMiss
                     THEN {"/privileged_access/standing_assignment_count"}
                            \cup PercentInt("/privileged_access/pim_eligible_pct",
                                            tenant.eligible + tenant.standing)
                     ELSE {}
<1>1. Receive("role_eligibility", x) /\ written' = written \cup values
  BY DEF ReadRoleEligibility, Record
<1>2. miss["users"] = NoMiss /\ miss["role_assignments"] = NoMiss
  BY <1>1 DEF ValuesInv, HoldersRead, Receive
<1>3. \A s \in {"users", "role_assignments"} : miss'[s] = miss[s]
  BY <1>1, OtherReadsKept DEF ValuesInv, IInv, Reads
<1>4. ASSUME NEW f \in values \cap Fields
      PROVE  Founded(f)'
  <2>1. f \in EligibilityFields /\ why = NoMiss
    BY <1>4 DEF EligibilityFields, PercentInt
  <2>2. f # Coverage
    BY <2>1, FieldGroups DEF PrivilegedFields
  <2>3. QED  BY <1>2, <1>3, <2>1, <2>2, SourcesOf, NotCoverage
<1> HIDE DEF values
<1>5. QED  BY <1>1, <1>4 DEF NewlyFounded

LEMMA ApplicationsFounded ==
  ASSUME ValuesInv, NEW x, ReadApplications(x)
  PROVE  \E values : written' = written \cup values /\ NewlyFounded(values)
<1> DEFINE appsMiss == miss["service_principals"]
           why      == firstMissing(appsMiss, miss'["applications"])
           apps == IF appsMiss = NoMiss
                   THEN {"/apps/enabled_enterprise_apps_count"}
                          \cup PercentInt("/apps/assignment_required_pct", tenant.apps)
                          \cup PercentInt("/posture/sso_coverage", tenant.apps)
                   ELSE {}
           creds == IF why = NoMiss
                    THEN (CredentialFields \ {"/apps/password_credentials_pct"})
                           \cup PercentInt("/apps/password_credentials_pct",
                                           tenant.credentials)
                    ELSE {}
           values == apps \cup creds
<1>1. Receive("applications", x) /\ written' = written \cup values
  BY DEF ReadApplications, Record
<1>2. miss'["service_principals"] = appsMiss
  BY <1>1, OtherReadsKept DEF ValuesInv, IInv, Reads
<1>3. ASSUME NEW f \in values \cap Fields
      PROVE  Founded(f)'
  <2>1. CASE f \in apps
    <3>1. f \in AppFields /\ appsMiss = NoMiss
      BY <2>1 DEF AppFields, PercentInt
    <3>2. QED  BY <1>2, <3>1, SourcesOf, NotCoverage, FieldGroups
  <2>2. CASE f \in creds
    <3>1. f \in CredentialFields /\ why = NoMiss
      BY <2>2 DEF CredentialFields, PercentInt
    <3>2. appsMiss = NoMiss /\ miss'["applications"] = NoMiss
      BY <3>1, NothingMissing
    <3>3. QED  BY <1>2, <3>1, <3>2, SourcesOf, NotCoverage, FieldGroups
  <2>3. QED  BY <2>1, <2>2
<1> HIDE DEF values
<1>4. QED  BY <1>1, <1>3 DEF NewlyFounded

LEMMA SecureScoresFounded ==
  ASSUME NEW x, ReadSecureScores(x)
  PROVE  \E values : written' = written \cup values /\ NewlyFounded(values)
<1> DEFINE why == miss'["secure_scores"]
           values == IF why = NoMiss THEN SecureScoreFields ELSE {}
<1>1. written' = written \cup values
  BY DEF ReadSecureScores, Record
<1>2. ASSUME NEW f \in values \cap Fields
      PROVE  Founded(f)'
  BY <1>2, SourcesOf, NotCoverage, FieldGroups
<1> HIDE DEF values
<1>3. QED  BY <1>1, <1>2 DEF NewlyFounded

LEMMA DirectoryAuditsFounded ==
  ASSUME NEW x, ReadDirectoryAudits(x)
  PROVE  \E values : written' = written \cup values /\ NewlyFounded(values)
<1> DEFINE why == miss'["directory_audits"]
           values == IF why = NoMiss THEN DirectoryActivityFields ELSE {}
<1>1. written' = written \cup values
  BY DEF ReadDirectoryAudits, Record
<1>2. ASSUME NEW f \in values \cap Fields
      PROVE  Founded(f)'
  BY <1>2, SourcesOf, NotCoverage, FieldGroups
<1> HIDE DEF values
<1>3. QED  BY <1>1, <1>2 DEF NewlyFounded

LEMMA SignInsFounded ==
  ASSUME NEW x, ReadSignIns(x)
  PROVE  \E values : written' = written \cup values /\ NewlyFounded(values)
<1> DEFINE why     == miss'["sign_ins"]
           risky   == IF why = NoMiss /\ tenant.unrated
                      THEN unlicensed("sign_ins") ELSE why
           applied == IF why = NoMiss /\ tenant.policiesOmitted
                      THEN failed("sign_ins", "permission_denied") ELSE why
           values == (IF why = NoMiss THEN {"/sign_in_monitoring/sign_ins_count"} ELSE {})
                       \cup (IF risky = NoMiss THEN {RiskySignIns} ELSE {})
                       \cup (IF applied = NoMiss THEN AppliedPolicyFields ELSE {})
<1>1. written' = written \cup values
  BY DEF ReadSignIns, Record
<1>2. risky = NoMiss \/ applied = NoMiss => why = NoMiss
  BY DEF unlicensed, failed, NoMiss
<1>3. ASSUME NEW f \in values \cap Fields
      PROVE  Founded(f)'
  <2>1. f \in SignInMonitoringFields /\ why = NoMiss
    BY <1>2, <1>3 DEF SignInMonitoringFields
  <2>2. QED  BY <2>1, SourcesOf, NotCoverage, FieldGroups
<1> HIDE DEF values
<1>4. QED  BY <1>1, <1>3 DEF NewlyFounded

-----------------------------------------------------------------------------
(* One handler, in the terms of the invariant: it reads r, moves on to a   *)
(* later turn, and what it writes is founded.                              *)
Founds(r, x) ==
  /\ r \in Reads /\ Receive(r, x)
  /\ pc' \in Reads \cup {"collected"} /\ Turn[pc'] > Turn[r]
  /\ pc' = "role_eligibility" => miss'["users"] = NoMiss /\ miss'["role_assignments"] = NoMiss
  /\ \E values : written' = written \cup values /\ NewlyFounded(values)

LEMMA HandlersFound ==
  ASSUME ValuesInv, NEW x, Handle(x)
  PROVE  \E r : Founds(r, x)
<1>1. CASE ReadUsers(x)
  <2>1. Founds("users", x)
    BY <1>1, Turns, QuietReadFounded DEF Founds, ReadUsers, Reads
  <2>2. QED  BY <2>1
<1>2. CASE ReadRegistrations(x)
  <2>1. Founds("registrations", x)
    BY <1>2, Turns, QuietReadFounded DEF Founds, ReadRegistrations, Reads
  <2>2. QED  BY <2>1
<1>3. CASE ReadSignInActivity(x)
  <2>1. Receive("sign_in_activity", x) /\ pc' = "conditional_access"
    BY <1>3 DEF ReadSignInActivity
  <2>2. Founds("sign_in_activity", x)
    BY <1>3, <2>1, Turns, SignInActivityFounded DEF Founds, Reads
  <2>3. QED  BY <2>2
<1>4. CASE ReadConditionalAccess(x)
  <2>1. Founds("conditional_access", x)
    BY <1>4, Turns, QuietReadFounded DEF Founds, ReadConditionalAccess, Reads
  <2>2. QED  BY <2>1
<1>5. CASE ReadSecurityDefaults(x)
  <2>1. Receive("security_defaults", x) /\ pc' = "role_assignments"
    BY <1>5 DEF ReadSecurityDefaults
  <2>2. Founds("security_defaults", x)
    BY <1>5, <2>1, Turns, SecurityDefaultsFounded DEF Founds, Reads
  <2>3. QED  BY <2>2
<1>6. CASE LeaveOutPrivilegedAccess(x)
  <2>1. Receive("role_assignments", x) /\ pc' = "service_principals"
    BY <1>6 DEF LeaveOutPrivilegedAccess
  <2>2. written' = written \cup {} /\ NewlyFounded({})
    BY <1>6 DEF LeaveOutPrivilegedAccess, Record, NewlyFounded
  <2>3. Founds("role_assignments", x)
    BY <2>1, <2>2, Turns DEF Founds, Reads
  <2>4. QED  BY <2>3
<1>7. CASE ReadRoleAssignments(x)
  <2>1. Receive("role_assignments", x) /\ pc' = "role_eligibility"
    BY <1>7 DEF ReadRoleAssignments
  <2>2. miss'["role_assignments"] = NoMiss /\ miss["users"] = NoMiss
    BY <1>7, NothingMissing DEF ReadRoleAssignments
  <2>3. miss'["users"] = miss["users"]
    BY <2>1, OtherReadsKept DEF ValuesInv, IInv, Reads
  <2>4. Founds("role_assignments", x)
    BY <1>7, <2>1, <2>2, <2>3, Turns, RoleAssignmentsFounded DEF Founds, Reads
  <2>5. QED  BY <2>4
<1>8. CASE ReadRoleEligibility(x)
  <2>1. Receive("role_eligibility", x) /\ pc' = "service_principals"
    BY <1>8 DEF ReadRoleEligibility
  <2>2. Founds("role_eligibility", x)
    BY <1>8, <2>1, Turns, RoleEligibilityFounded DEF Founds, Reads
  <2>3. QED  BY <2>2
<1>9. CASE ReadServicePrincipals(x)
  <2>1. Founds("service_principals", x)
    BY <1>9, Turns, QuietReadFounded DEF Founds, ReadServicePrincipals, Reads
  <2>2. QED  BY <2>1
<1>10. CASE ReadApplications(x)
  <2>1. Receive("applications", x) /\ pc' = "secure_scores"
    BY <1>10 DEF ReadApplications
  <2>2. Founds("applications", x)
    BY <1>10, <2>1, Turns, ApplicationsFounded DEF Founds, Reads
  <2>3. QED  BY <2>2
<1>11. CASE ReadSecureScores(x)
  <2>1. Receive("secure_scores", x) /\ pc' \in {"directory_audits", "collected"}
    BY <1>11 DEF ReadSecureScores, afterSecureScores
  <2>2. Founds("secure_scores", x)
    BY <1>11, <2>1, Turns, SecureScoresFounded DEF Founds, Reads
  <2>3. QED  BY <2>2
<1>12. CASE ReadDirectoryAudits(x)
  <2>1. Receive("directory_audits", x) /\ pc' = "sign_ins"
    BY <1>12 DEF ReadDirectoryAudits
  <2>2. Founds("directory_audits", x)
    BY <1>12, <2>1, Turns, DirectoryAuditsFounded DEF Founds, Reads
  <2>3. QED  BY <2>2
<1>13. CASE ReadSignIns(x)
  <2>1. Receive("sign_ins", x) /\ pc' = "collected"
    BY <1>13 DEF ReadSignIns
  <2>2. Founds("sign_ins", x)
    BY <1>13, <2>1, Turns, SignInsFounded DEF Founds, Reads
  <2>3. QED  BY <2>2
<1>14. QED
  BY <1>1, <1>2, <1>3, <1>4, <1>5, <1>6, <1>7, <1>8, <1>9, <1>10, <1>11,
     <1>12, <1>13 DEF Handle

(* No two reads are listed under one name.                                 *)
LEMMA CapabilitiesDiffer ==
  ASSUME NEW r \in DOMAIN Capability, NEW s \in DOMAIN Capability,
         Capability[r] = Capability[s]
  PROVE  r = s
BY DEF Capability, Reads

LEMMA InitValuesInv == Init => ValuesInv
<1> SUFFICES ASSUME Init
             PROVE  ValuesInv
  OBVIOUS
<1>1. IInv
  BY InitIInv
<1>2. HoldersRead /\ NothingAhead /\ NoValueFromAFailedRead /\ ListedFailed
  BY DEF Init, HoldersRead, NothingAhead, NoValueFromAFailedRead, ListedFailed
<1>3. QED  BY <1>1, <1>2 DEF ValuesInv

LEMMA HandlerKeepsValues ==
  ASSUME ValuesInv, NEW x, NEW r, Founds(r, x)
  PROVE  /\ HoldersRead' /\ NothingAhead'
         /\ NoValueFromAFailedRead' /\ ListedFailed'
<1>1. /\ r \in Reads /\ Receive(r, x) /\ pc = r /\ TypeOK
      /\ pc' \in Reads \cup {"collected"} /\ Turn[pc'] > Turn[r]
  BY DEF Founds, Receive, ValuesInv, IInv
<1>2. /\ miss'[r] = classify(r, x)
      /\ \A s \in Reads \ {r} : miss'[s] = miss[s]
  BY <1>1, OtherReadsKept
<1>3. HoldersRead'
  BY DEF Founds, HoldersRead
<1>4. NothingAhead'
  <2>1. ASSUME NEW s \in Reads, Turn[s] >= Turn[pc']
        PROVE  miss'[s] = NoMiss
    <3>1. \A t \in Reads \cup {"collected"} : Turn[t] \in Nat
      BY Turns DEF Reads
    <3>2. Turn[s] > Turn[r]
      BY <1>1, <2>1, <3>1
    <3>3. s # r /\ Turn[s] >= Turn[pc]
      BY <1>1, <3>1, <3>2
    <3>4. QED  BY <1>2, <3>3 DEF ValuesInv, NothingAhead
  <2>2. QED  BY <2>1 DEF NothingAhead
<1>5. NoValueFromAFailedRead'
  <2>1. PICK values : written' = written \cup values /\ NewlyFounded(values)
    BY DEF Founds
  <2>2. ASSUME NEW f \in written' \cap Fields
        PROVE  Founded(f)'
    <3>1. CASE f \in written
      BY <1>1, <2>2, <3>1, EarlierStaysFounded
    <3>2. CASE f \in values
      BY <2>2, <3>2, <2>1 DEF NewlyFounded
    <3>3. QED  BY <2>1, <2>2, <3>1, <3>2
  <2>3. QED  BY <2>2 DEF NoValueFromAFailedRead, Founded, Sources
<1>6. ListedFailed'
  <2>1. ASSUME NEW s \in DOMAIN Capability, Capability[s] \in unavailable'
        PROVE  miss'[s].code \in {"not_licensed", "permission_denied"}
    <3>1. CASE Capability[s] \in unavailable
      <4>1. miss[s].code \in {"not_licensed", "permission_denied"}
        BY <2>1, <3>1 DEF ValuesInv, ListedFailed
      <4>2. s \in Reads /\ miss[s] # NoMiss
        BY <4>1 DEF Capability, NoMiss
      <4>3. s # r
        BY <1>1, <4>2, Turns DEF ValuesInv, NothingAhead, Reads
      <4>4. QED  BY <1>2, <4>1, <4>2, <4>3
    <3>2. CASE Capability[s] \notin unavailable
      <4>1. /\ marksCapability(r, classify(r, x))
            /\ unavailable' = unavailable \cup {Capability[r]}
        BY <1>1, <2>1, <3>2 DEF Receive
      <4>2. r \in DOMAIN Capability
        BY <1>1, <4>1 DEF marksCapability, Capability
      <4>3. s = r
        BY <2>1, <3>2, <4>1, <4>2, CapabilitiesDiffer
      <4>4. QED  BY <1>2, <4>1, <4>3 DEF marksCapability
    <3>3. QED  BY <3>1, <3>2
  <2>2. QED  BY <2>1 DEF ListedFailed, Capability
<1>7. QED  BY <1>3, <1>4, <1>5, <1>6

LEMMA NextValuesInv == ValuesInv /\ [Next]_vars => ValuesInv'
<1> SUFFICES ASSUME ValuesInv, [Next]_vars
             PROVE  ValuesInv'
  OBVIOUS
<1>1. IInv'
  BY NextIInv DEF ValuesInv
<1>2. HoldersRead' /\ NothingAhead' /\ NoValueFromAFailedRead' /\ ListedFailed'
  <2>1. CASE Next
    <3>1. PICK x \in Responses : Handle(x)
      BY <2>1 DEF Next
    <3>2. PICK r : Founds(r, x)
      BY <3>1, HandlersFound
    <3>3. QED  BY <3>2, HandlerKeepsValues
  <2>2. CASE UNCHANGED vars
    BY <2>2 DEF vars, ValuesInv, HoldersRead, NothingAhead,
                NoValueFromAFailedRead, ListedFailed, Sources
  <2>3. QED  BY <2>1, <2>2
<1>3. QED  BY <1>1, <1>2 DEF ValuesInv

(* No value of the Entra artifact is taken from a list that was not read,  *)
(* whichever of the twelve reads fail and however.  The MFA coverage is    *)
(* the exception the policy handler argues for.                            *)
THEOREM ValuesAreRead == Spec => []NoValueFromAFailedRead
<1>1. ValuesInv => NoValueFromAFailedRead
  BY DEF ValuesInv
<1>2. QED  BY <1>1, InitValuesInv, NextValuesInv, PTL DEF Spec

(* What capabilities_unavailable lists did fail, for a license or a        *)
(* permission, and the artifact holds nothing taken from it.               *)
THEOREM UnavailableReallyIs == Spec => []UnavailableIsUnavailable
<1>1. ASSUME ValuesInv
      PROVE  UnavailableIsUnavailable
  <2>1. ASSUME NEW r \in DOMAIN Capability, Capability[r] \in unavailable
        PROVE  /\ miss[r].code \in {"not_licensed", "permission_denied"}
               /\ \A f \in (written \cap Fields) \ {Coverage} : r \notin Sources(f)
    <3>1. miss[r].code \in {"not_licensed", "permission_denied"}
      BY <1>1, <2>1 DEF ValuesInv, ListedFailed
    <3>2. miss[r] # NoMiss
      BY <3>1 DEF NoMiss
    <3>3. ASSUME NEW f \in (written \cap Fields) \ {Coverage}
          PROVE  r \notin Sources(f)
      BY <1>1, <3>2 DEF ValuesInv, NoValueFromAFailedRead
    <3>4. QED  BY <3>1, <3>3
  <2>2. QED  BY <2>1 DEF UnavailableIsUnavailable
<1>2. QED  BY <1>1, InitValuesInv, NextValuesInv, PTL DEF Spec

-----------------------------------------------------------------------------
(* The causes of the gaps.  Named is the part of GapsNameTheirCause that   *)
(* is about one gap.                                                       *)
Named(g) ==
  CASE g.why.about = "group_role_members" ->
         tenant.groupHeld /\ g.at \in PrivilegedFields \ EligibilityFields
    [] g.why.about = "policy_group_or_role_members" ->
         tenant.coverageUnknown /\ g.at = Coverage
    [] OTHER -> /\ g.why.about \in Sources(g.at)
                /\ miss[g.why.about] = g.why \/ SignInGap(g)

(* The outcome of a read is about that read.                               *)
OutcomesNamed == \A r \in Reads : miss[r] # NoMiss => miss[r].about = r

CausesInv == ValuesInv /\ OutcomesNamed /\ GapsNameTheirCause

(* What a handler of read r leaves out among some fields: their turn is    *)
(* not over before, each has a cause, and no field has two.                *)
LeavesOut(r, fields, left) ==
  /\ fields \subseteq Fields
  /\ \A f \in fields : SettledAt(f) >= Turn[r]
  /\ \A g \in left : g.at \in fields /\ Named(g)'
  /\ \A g, h \in left : h.at = g.at => h.why = g.why

LEMMA BothLeaveOut ==
  ASSUME NEW r, NEW F, NEW G, NEW A, NEW B,
         LeavesOut(r, F, A), LeavesOut(r, G, B), F \cap G = {}
  PROVE  LeavesOut(r, F \cup G, A \cup B)
BY DEF LeavesOut

LEMMA OneReason ==
  ASSUME NEW r, NEW why, NEW fields \in SUBSET Fields,
         \A f \in fields : SettledAt(f) >= Turn[r],
         why # NoMiss => \A f \in fields : Named([at |-> f, why |-> why])'
  PROVE  LeavesOut(r, fields, leaveOut(why, fields))
<1>1. ASSUME NEW g \in leaveOut(why, fields)
      PROVE  g.at \in fields /\ g.why = why /\ Named(g)'
  <2>1. why # NoMiss
    BY <1>1 DEF leaveOut
  <2>2. PICK f \in fields : g = [at |-> f, why |-> why]
    BY <1>1, <2>1 DEF leaveOut
  <2>3. QED  BY <2>1, <2>2
<1>2. QED  BY <1>1 DEF LeavesOut

(* A reason that is the outcome of a read the value is taken from.         *)
LEMMA ReadIsCause ==
  ASSUME OutcomesNamed', NEW s \in Reads, NEW why, why = miss'[s], why # NoMiss,
         NEW f, s \in Sources(f)
  PROVE  Named([at |-> f, why |-> why])'
<1>1. why.about = s /\ s \notin Unread
  BY DEF OutcomesNamed, Reads, Unread
<1>2. s \in Sources(f)'
  BY DEF Sources
<1>3. QED  BY <1>1, <1>2 DEF Named, Unread

LEMMA OneRead ==
  ASSUME OutcomesNamed', NEW r, NEW s \in Reads, NEW fields \in SUBSET Fields,
         \A f \in fields : SettledAt(f) >= Turn[r] /\ s \in Sources(f)
  PROVE  LeavesOut(r, fields, leaveOut(miss'[s], fields))
<1>1. PICK why : why = miss'[s]
  OBVIOUS
<1>2. LeavesOut(r, fields, leaveOut(why, fields))
  BY <1>1, OneReason, ReadIsCause
<1>3. QED  BY <1>1, <1>2

LEMMA FirstOfTwo ==
  ASSUME NEW a, NEW b
  PROVE  firstMissing(a, b) = a \/ firstMissing(a, b) = b
BY DEF firstMissing

(* The fields of each group, and the turn they are settled at.             *)
LEMMA FieldsOfTurns ==
  /\ UserFields \cup RegistrationFields \cup SignInActivityFields \subseteq Fields
  /\ SecurityDefaultsFields \cup ConditionalAccessFields \cup {Coverage} \subseteq Fields
  /\ PrivilegedFields \subseteq Fields /\ EligibilityFields \subseteq PrivilegedFields
  /\ AppFields \cup CredentialFields \cup SecureScoreFields \subseteq Fields
  /\ DirectoryActivityFields \cup SignInMonitoringFields \subseteq Fields
  /\ \A f \in PrivilegedFields : SettledAt(f) >= 6
BY Schedule DEF Fields, PrivilegedFields

LEMMA SignInActivityCauses ==
  ASSUME ValuesInv, OutcomesNamed', NEW x, ReadSignInActivity(x)
  PROVE  \E fields, left : gaps' = gaps \cup left /\ LeavesOut("sign_in_activity", fields, left)
<1> DEFINE usersMiss  == miss["users"]
           why        == firstMissing(usersMiss, miss["registrations"])
           signInMiss == miss'["sign_in_activity"]
           A == leaveOut(usersMiss, UserFields)
           B == leaveOut(why, RegistrationFields)
           C == leaveOut(signInMiss, SignInActivityFields)
<1>1. Receive("sign_in_activity", x) /\ gaps' = gaps \cup ((A \cup B) \cup C)
  BY DEF ReadSignInActivity, Record
<1>2. miss'["users"] = usersMiss /\ miss'["registrations"] = miss["registrations"]
  BY <1>1, OtherReadsKept DEF ValuesInv, IInv, Reads
<1>3. {"users", "registrations", "sign_in_activity"} \subseteq Reads
  BY DEF Reads
<1>4. \A f \in UserFields \cup RegistrationFields \cup SignInActivityFields :
        f \in Fields /\ SettledAt(f) >= Turn["sign_in_activity"]
  BY FieldsOfTurns, Schedule, Turns
<1>5. LeavesOut("sign_in_activity", UserFields, A)
  BY <1>2, <1>3, <1>4, SourcesOf, OneRead
<1>6. LeavesOut("sign_in_activity", RegistrationFields, B)
  <2>1. why = miss'["users"] \/ why = miss'["registrations"]
    BY <1>2, FirstOfTwo
  <2>2. QED  BY <1>3, <1>4, <2>1, SourcesOf, OneRead
<1>7. LeavesOut("sign_in_activity", SignInActivityFields, C)
  BY <1>3, <1>4, SourcesOf, OneRead
<1>8. /\ UserFields \cap RegistrationFields = {}
      /\ (UserFields \cup RegistrationFields) \cap SignInActivityFields = {}
  BY DEF UserFields, RegistrationFields, SignInActivityFields
<1> HIDE DEF A, B, C
<1>9. LeavesOut("sign_in_activity", UserFields \cup RegistrationFields, A \cup B)
  BY <1>5, <1>6, <1>8, BothLeaveOut
<1>10. LeavesOut("sign_in_activity",
         (UserFields \cup RegistrationFields) \cup SignInActivityFields, (A \cup B) \cup C)
  BY <1>7, <1>8, <1>9, BothLeaveOut
<1>11. QED  BY <1>1, <1>10

(* Whatever the policies and the defaults come to, the coverage has one    *)
(* reason at most.                                                         *)
LEMMA CoverageReason ==
  ASSUME TypeOK, NEW ca \in Miss, NEW users \in Miss, NEW defaults \in Miss
  PROVE  \E why :
           /\ collectPolicy(ca, users, defaults)[2] =
                leaveOut(ca, ConditionalAccessFields) \cup leaveOut(why, {Coverage})
           /\ \/ why \in {NoMiss, users, ca, defaults}
              \/ why = notRead("policy_group_or_role_members") /\ tenant.coverageUnknown
<1> DEFINE hidden == notRead("policy_group_or_role_members")
           policy == collectPolicy(ca, users, defaults)[2]
<1>1. tenant.policies \in Nat /\ tenant.coverageUnknown \in BOOLEAN
  BY TenantSizes DEF TenantFacts
<1>2. \A fields : leaveOut(NoMiss, fields) = {}
  BY DEF leaveOut
<1>3. \A values : CoverageByDefaults(values, defaults)[2] = leaveOut(defaults, {Coverage})
  BY DEF CoverageByDefaults
<1>4. CASE ca = NoMiss
  <2> DEFINE c == CoverageWithPolicies(users, defaults)
  <2>1. policy = leaveOut(ca, ConditionalAccessFields) \cup c[2]
    BY <1>2, <1>4 DEF collectPolicy
  <2>2. \/ c[2] = leaveOut(users, {Coverage})
        \/ c[2] = leaveOut(defaults, {Coverage})
        \/ c[2] = leaveOut(hidden, {Coverage}) /\ tenant.coverageUnknown
        \/ c[2] = leaveOut(NoMiss, {Coverage})
    BY <1>1, <1>2, <1>3 DEF CoverageWithPolicies
  <2> HIDE DEF policy, c, hidden
  <2>3. QED  BY <2>1, <2>2 DEF policy, hidden
<1>5. CASE ca # NoMiss
  <2> DEFINE c == CoverageWithoutPolicies(ca, users, defaults)
  <2>1. policy = leaveOut(ca, ConditionalAccessFields) \cup c[2]
    BY <1>5 DEF collectPolicy
  <2>2. \/ c[2] = leaveOut(defaults, {Coverage})
        \/ c[2] = leaveOut(ca, {Coverage})
        \/ c[2] = leaveOut(NoMiss, {Coverage})
    BY <1>2, <1>3 DEF CoverageWithoutPolicies
  <2> HIDE DEF policy, c
  <2>3. QED  BY <2>1, <2>2 DEF policy
<1>6. QED  BY <1>4, <1>5

LEMMA SecurityDefaultsCauses ==
  ASSUME ValuesInv, OutcomesNamed', NEW x, ReadSecurityDefaults(x)
  PROVE  \E fields, left : gaps' = gaps \cup left /\ LeavesOut("security_defaults", fields, left)
<1> DEFINE ca == miss["conditional_access"]
           users == miss["users"]
           defaults == miss'["security_defaults"]
           B == leaveOut(ca, ConditionalAccessFields)
           C == leaveOut(defaults, SecurityDefaultsFields)
<1>1. /\ Receive("security_defaults", x)
      /\ gaps' = gaps \cup (collectPolicy(ca, users, defaults)[2] \cup C)
  BY DEF ReadSecurityDefaults, Record
<1>2. miss'["users"] = users /\ miss'["conditional_access"] = ca /\ tenant' = tenant
  BY <1>1, OtherReadsKept DEF ValuesInv, IInv, Reads, Receive
<1>3. {"users", "conditional_access", "security_defaults"} \subseteq Reads
  BY DEF Reads
<1>4. ca \in Miss /\ users \in Miss /\ defaults \in Miss /\ TypeOK
  BY <1>1, <1>3, ReceiveTypeOK DEF ValuesInv, IInv, TypeOK
<1>5. PICK why :
        /\ collectPolicy(ca, users, defaults)[2] = B \cup leaveOut(why, {Coverage})
        /\ \/ why \in {NoMiss, users, ca, defaults}
           \/ why = notRead("policy_group_or_role_members") /\ tenant.coverageUnknown
  BY <1>4, CoverageReason
<1>6. \A f \in SecurityDefaultsFields \cup ConditionalAccessFields \cup {Coverage} :
        f \in Fields /\ SettledAt(f) >= Turn["security_defaults"]
  BY FieldsOfTurns, Schedule, Turns
<1>7. LeavesOut("security_defaults", {Coverage}, leaveOut(why, {Coverage}))
  <2>1. ASSUME why # NoMiss
        PROVE  Named([at |-> Coverage, why |-> why])'
    <3>1. CASE why \in {users, ca, defaults}
      <4>1. Sources(Coverage) = {"users", "conditional_access", "security_defaults"}
        BY <1>6, SourcesOf
      <4>2. QED  BY <1>2, <1>3, <2>1, <3>1, <4>1, ReadIsCause
    <3>2. CASE why = notRead("policy_group_or_role_members") /\ tenant.coverageUnknown
      BY <1>2, <3>2 DEF Named, notRead
    <3>3. QED  BY <1>5, <2>1, <3>1, <3>2
  <2>2. QED  BY <1>6, <2>1, OneReason
<1>8. LeavesOut("security_defaults", ConditionalAccessFields, B)
  BY <1>2, <1>3, <1>6, SourcesOf, OneRead
<1>9. LeavesOut("security_defaults", SecurityDefaultsFields, C)
  <2>1. \A f \in SecurityDefaultsFields : "security_defaults" \in Sources(f)
    BY <1>6, SourcesOf
  <2>2. QED  BY <1>3, <1>6, <2>1, OneRead
<1>10. /\ ConditionalAccessFields \cap {Coverage} = {}
       /\ (ConditionalAccessFields \cup {Coverage}) \cap SecurityDefaultsFields = {}
  BY DEF ConditionalAccessFields, Coverage, SecurityDefaultsFields
<1> HIDE DEF B, C
<1>11. LeavesOut("security_defaults", ConditionalAccessFields \cup {Coverage},
                 B \cup leaveOut(why, {Coverage}))
  BY <1>7, <1>8, <1>10, BothLeaveOut
<1>12. LeavesOut("security_defaults",
         (ConditionalAccessFields \cup {Coverage}) \cup SecurityDefaultsFields,
         (B \cup leaveOut(why, {Coverage})) \cup C)
  BY <1>9, <1>10, <1>11, BothLeaveOut
<1>13. QED  BY <1>1, <1>5, <1>12

LEMMA NoPrivilegedAccessCauses ==
  ASSUME ValuesInv, OutcomesNamed', NEW x, LeaveOutPrivilegedAccess(x)
  PROVE  \E fields, left : gaps' = gaps \cup left /\ LeavesOut("role_assignments", fields, left)
<1> DEFINE why == firstMissing(miss'["role_assignments"], miss["users"])
<1>1. Receive("role_assignments", x) /\ gaps' = gaps \cup leaveOut(why, PrivilegedFields)
  BY DEF LeaveOutPrivilegedAccess, Record
<1>2. miss'["users"] = miss["users"] /\ {"users", "role_assignments"} \subseteq Reads
  BY <1>1, OtherReadsKept DEF ValuesInv, IInv, Reads
<1>3. why = miss'["users"] \/ why = miss'["role_assignments"]
  BY <1>2, FirstOfTwo
<1>4. ASSUME NEW f \in PrivilegedFields
      PROVE  f \in Fields /\ SettledAt(f) >= Turn["role_assignments"]
               /\ {"users", "role_assignments"} \subseteq Sources(f)
  <2>1. f \in Fields /\ SettledAt(f) >= Turn["role_assignments"]
    BY FieldsOfTurns, Turns
  <2>2. \/ f \in {SuperAdminCount} \cup PrivilegedCounts \/ f = InactivePrivileged
        \/ f \in PrivilegedMFAFields \/ f \in EligibilityFields
    BY DEF PrivilegedFields
  <2>3. {"users", "role_assignments"} \subseteq Sources(f)
    BY <2>1, <2>2, SourcesOf
  <2>4. QED  BY <2>1, <2>3
<1>5. LeavesOut("role_assignments", PrivilegedFields, leaveOut(why, PrivilegedFields))
  BY <1>2, <1>3, <1>4, OneRead
<1>6. QED  BY <1>1, <1>5

LEMMA RoleAssignmentsCauses ==
  ASSUME ValuesInv, OutcomesNamed', NEW x, ReadRoleAssignments(x)
  PROVE  \E fields, left : gaps' = gaps \cup left /\ LeavesOut("role_assignments", fields, left)
<1> DEFINE membersUnread == IF tenant.groupHeld
                            THEN notRead("group_role_members") ELSE NoMiss
           globalAdminsUnread == IF tenant.groupHeldGlobalAdmin
                                 THEN membersUnread ELSE NoMiss
           mfaWhy      == firstMissing(miss["registrations"], membersUnread)
           inactiveWhy == firstMissing(miss["sign_in_activity"], membersUnread)
           A == leaveOut(globalAdminsUnread, {SuperAdminCount})
           B == leaveOut(membersUnread, PrivilegedCounts)
           C == leaveOut(mfaWhy, PrivilegedMFAFields)
           D == leaveOut(inactiveWhy, {InactivePrivileged})
<1>1. Receive("role_assignments", x) /\ gaps' = gaps \cup (((A \cup B) \cup C) \cup D)
  BY DEF ReadRoleAssignments, Record
<1>2. /\ \A s \in {"registrations", "sign_in_activity"} : miss'[s] = miss[s]
      /\ {"registrations", "sign_in_activity"} \subseteq Reads /\ tenant' = tenant
  BY <1>1, OtherReadsKept DEF ValuesInv, IInv, Reads, Receive
<1>3. \A f \in PrivilegedFields :
        f \in Fields /\ SettledAt(f) >= Turn["role_assignments"]
  BY FieldsOfTurns, Turns
<1>4. /\ {SuperAdminCount} \subseteq PrivilegedFields \ EligibilityFields
      /\ PrivilegedCounts \subseteq PrivilegedFields \ EligibilityFields
      /\ PrivilegedMFAFields \subseteq PrivilegedFields \ EligibilityFields
      /\ {InactivePrivileged} \subseteq PrivilegedFields \ EligibilityFields
  BY DEF PrivilegedFields, EligibilityFields, SuperAdminCount, InactivePrivileged,
         PrivilegedCounts, PrivilegedMFAFields
<1>5. ASSUME NEW fields \in SUBSET (PrivilegedFields \ EligibilityFields),
             NEW why, why \in {membersUnread, NoMiss}
      PROVE  LeavesOut("role_assignments", fields, leaveOut(why, fields))
  <2>1. ASSUME why # NoMiss, NEW f \in fields
        PROVE  Named([at |-> f, why |-> why])'
    <3>1. why = notRead("group_role_members") /\ tenant.groupHeld
      BY <1>5, <2>1
    <3>2. QED  BY <1>2, <3>1 DEF Named, notRead
  <2>2. QED  BY <1>3, <2>1, OneReason
<1>6. LeavesOut("role_assignments", {SuperAdminCount}, A)
  <2>1. globalAdminsUnread \in {membersUnread, NoMiss}
    OBVIOUS
  <2>2. QED  BY <1>4, <1>5, <2>1
<1>7. LeavesOut("role_assignments", PrivilegedCounts, B)
  BY <1>4, <1>5
<1>8. LeavesOut("role_assignments", PrivilegedMFAFields, C)
  <2>1. \A f \in PrivilegedMFAFields : "registrations" \in Sources(f)
    BY <1>3, <1>4, SourcesOf
  <2>2. mfaWhy = miss'["registrations"] \/ mfaWhy = membersUnread
    BY <1>2, FirstOfTwo
  <2>3. CASE mfaWhy = miss'["registrations"]
    BY <1>2, <1>3, <1>4, <2>1, <2>3, OneRead
  <2>4. CASE mfaWhy = membersUnread
    BY <1>4, <1>5, <2>4
  <2>5. QED  BY <2>2, <2>3, <2>4
<1>9. LeavesOut("role_assignments", {InactivePrivileged}, D)
  <2>1. "sign_in_activity" \in Sources(InactivePrivileged)
    BY <1>3, <1>4, SourcesOf
  <2>2. inactiveWhy = miss'["sign_in_activity"] \/ inactiveWhy = membersUnread
    BY <1>2, FirstOfTwo
  <2>3. CASE inactiveWhy = miss'["sign_in_activity"]
    BY <1>2, <1>3, <1>4, <2>1, <2>3, OneRead
  <2>4. CASE inactiveWhy = membersUnread
    BY <1>4, <1>5, <2>4
  <2>5. QED  BY <2>2, <2>3, <2>4
<1>10. /\ {SuperAdminCount} \cap PrivilegedCounts = {}
       /\ ({SuperAdminCount} \cup PrivilegedCounts) \cap PrivilegedMFAFields = {}
       /\ (({SuperAdminCount} \cup PrivilegedCounts) \cup PrivilegedMFAFields)
            \cap {InactivePrivileged} = {}
  BY DEF SuperAdminCount, InactivePrivileged, PrivilegedCounts, PrivilegedMFAFields
<1> HIDE DEF A, B, C, D
<1>11. LeavesOut("role_assignments", {SuperAdminCount} \cup PrivilegedCounts, A \cup B)
  BY <1>6, <1>7, <1>10, BothLeaveOut
<1>12. LeavesOut("role_assignments",
         ({SuperAdminCount} \cup PrivilegedCounts) \cup PrivilegedMFAFields,
         (A \cup B) \cup C)
  BY <1>8, <1>10, <1>11, BothLeaveOut
<1>13. LeavesOut("role_assignments",
         (({SuperAdminCount} \cup PrivilegedCounts) \cup PrivilegedMFAFields)
           \cup {InactivePrivileged}, ((A \cup B) \cup C) \cup D)
  BY <1>9, <1>10, <1>12, BothLeaveOut
<1>14. QED  BY <1>1, <1>13

LEMMA ApplicationsCauses ==
  ASSUME ValuesInv, OutcomesNamed', NEW x, ReadApplications(x)
  PROVE  \E fields, left : gaps' = gaps \cup left /\ LeavesOut("applications", fields, left)
<1> DEFINE appsMiss == miss["service_principals"]
           why      == firstMissing(appsMiss, miss'["applications"])
           A == leaveOut(appsMiss, AppFields)
           B == leaveOut(why, CredentialFields)
<1>1. Receive("applications", x) /\ gaps' = gaps \cup (A \cup B)
  BY DEF ReadApplications, Record
<1>2. /\ miss'["service_principals"] = appsMiss
      /\ {"service_principals", "applications"} \subseteq Reads
  BY <1>1, OtherReadsKept DEF ValuesInv, IInv, Reads
<1>3. \A f \in AppFields \cup CredentialFields :
        f \in Fields /\ SettledAt(f) >= Turn["applications"]
  BY FieldsOfTurns, Schedule, Turns
<1>4. LeavesOut("applications", AppFields, A)
  <2>1. \A f \in AppFields : "service_principals" \in Sources(f)
    BY <1>3, SourcesOf
  <2>2. QED  BY <1>2, <1>3, <2>1, OneRead
<1>5. LeavesOut("applications", CredentialFields, B)
  <2>1. \A f \in CredentialFields : {"service_principals", "applications"} \subseteq Sources(f)
    BY <1>3, SourcesOf
  <2>2. why = miss'["service_principals"] \/ why = miss'["applications"]
    BY <1>2, FirstOfTwo
  <2>3. QED  BY <1>2, <1>3, <2>1, <2>2, OneRead
<1>6. AppFields \cap CredentialFields = {}
  BY DEF AppFields, CredentialFields
<1> HIDE DEF A, B
<1>7. LeavesOut("applications", AppFields \cup CredentialFields, A \cup B)
  BY <1>4, <1>5, <1>6, BothLeaveOut
<1>8. QED  BY <1>1, <1>7

(* The handlers that leave out all of their fields for the one read.       *)
LEMMA WholeReadCauses ==
  ASSUME OutcomesNamed', NEW r \in Reads, NEW fields \in SUBSET Fields,
         \A f \in fields : SettledAt(f) >= Turn[r] /\ r \in Sources(f),
         gaps' = gaps \cup leaveOut(miss'[r], fields)
  PROVE  \E among, left : gaps' = gaps \cup left /\ LeavesOut(r, among, left)
<1>1. LeavesOut(r, fields, leaveOut(miss'[r], fields))
  BY OneRead
<1>2. QED  BY <1>1

LEMMA SignInsCauses ==
  ASSUME ValuesInv, OutcomesNamed', NEW x, ReadSignIns(x)
  PROVE  \E fields, left : gaps' = gaps \cup left /\ LeavesOut("sign_ins", fields, left)
<1> DEFINE why     == miss'["sign_ins"]
           risky   == IF why = NoMiss /\ tenant.unrated
                      THEN unlicensed("sign_ins") ELSE why
           applied == IF why = NoMiss /\ tenant.policiesOmitted
                      THEN failed("sign_ins", "permission_denied") ELSE why
           count == "/sign_in_monitoring/sign_ins_count"
           A == leaveOut(why, {count})
           B == leaveOut(risky, {RiskySignIns})
           C == leaveOut(applied, AppliedPolicyFields)
<1>1. Receive("sign_ins", x) /\ gaps' = gaps \cup ((A \cup B) \cup C)
  BY DEF ReadSignIns, Record
<1>2. "sign_ins" \in Reads /\ tenant' = tenant
  BY <1>1 DEF Reads, Receive
<1>3. ASSUME NEW f \in {count} \cup {RiskySignIns} \cup AppliedPolicyFields
      PROVE  /\ f \in Fields /\ SettledAt(f) >= Turn["sign_ins"]
             /\ Sources(f) = {"sign_ins"}
  <2>1. f \in SignInMonitoringFields
    BY DEF SignInMonitoringFields
  <2>2. QED  BY <2>1, FieldsOfTurns, Schedule, Turns, SourcesOf
<1>4. LeavesOut("sign_ins", {count}, A)
  BY <1>2, <1>3, OneRead
<1>5. LeavesOut("sign_ins", {RiskySignIns}, B)
  <2>1. CASE why = NoMiss /\ tenant.unrated
    <3>1. Named([at |-> RiskySignIns, why |-> unlicensed("sign_ins")])'
      BY <1>2, <1>3, <2>1 DEF Named, SignInGap, unlicensed, Sources
    <3>2. QED  BY <1>3, <2>1, <3>1, OneReason
  <2>2. CASE risky = why
    BY <1>2, <1>3, <2>2, OneRead
  <2>3. QED  BY <2>1, <2>2
<1>6. LeavesOut("sign_ins", AppliedPolicyFields, C)
  <2>1. CASE why = NoMiss /\ tenant.policiesOmitted
    <3>1. ASSUME NEW f \in AppliedPolicyFields
          PROVE  Named([at |-> f, why |-> failed("sign_ins", "permission_denied")])'
      BY <1>2, <1>3, <2>1 DEF Named, SignInGap, failed, Sources
    <3>2. QED  BY <1>3, <2>1, <3>1, OneReason
  <2>2. CASE applied = why
    BY <1>2, <1>3, <2>2, OneRead
  <2>3. QED  BY <2>1, <2>2
<1>7. {count} \cap {RiskySignIns} = {} /\ ({count} \cup {RiskySignIns}) \cap AppliedPolicyFields = {}
  BY DEF RiskySignIns, AppliedPolicyFields
<1> HIDE DEF A, B, C
<1>8. LeavesOut("sign_ins", {count} \cup {RiskySignIns}, A \cup B)
  BY <1>4, <1>5, <1>7, BothLeaveOut
<1>9. LeavesOut("sign_ins", ({count} \cup {RiskySignIns}) \cup AppliedPolicyFields,
                (A \cup B) \cup C)
  BY <1>6, <1>7, <1>8, BothLeaveOut
<1>10. QED  BY <1>1, <1>9

-----------------------------------------------------------------------------
(* One handler, in the terms of the causes.                                *)
LeavesOutForCause(r, x) ==
  /\ r \in Reads /\ Receive(r, x)
  /\ \E fields, left : gaps' = gaps \cup left /\ LeavesOut(r, fields, left)

LEMMA OutcomesStayNamed ==
  ASSUME TypeOK, OutcomesNamed, NEW r \in Reads, NEW x, Receive(r, x)
  PROVE  OutcomesNamed'
<1>1. classify(r, x) # NoMiss => classify(r, x).about = r
  BY DEF classify, failed, unlicensed
<1>2. QED  BY <1>1, OtherReadsKept DEF OutcomesNamed

LEMMA QuietReadCauses ==
  ASSUME NEW r, Record({}, {})
  PROVE  \E fields, left : gaps' = gaps \cup left /\ LeavesOut(r, fields, left)
<1>1. gaps' = gaps \cup {} /\ LeavesOut(r, {}, {})
  BY DEF Record, LeavesOut
<1>2. QED  BY <1>1

LEMMA HandlersHaveCauses ==
  ASSUME CausesInv, NEW x, Handle(x)
  PROVE  \E r : LeavesOutForCause(r, x)
<1>1. ASSUME NEW r \in Reads, Receive(r, x)
      PROVE  OutcomesNamed'
  BY <1>1, OutcomesStayNamed DEF CausesInv, ValuesInv, IInv
<1>2. ValuesInv
  BY DEF CausesInv
<1>3. \A f \in Fields :
        /\ f \in EligibilityFields => SettledAt(f) = 7 /\ "role_eligibility" \in Sources(f)
        /\ f \in SecureScoreFields => SettledAt(f) = 10 /\ "secure_scores" \in Sources(f)
        /\ f \in DirectoryActivityFields =>
             SettledAt(f) = 11 /\ "directory_audits" \in Sources(f)
  BY Schedule, SourcesOf
<1>4. CASE ReadUsers(x)
  <2>1. LeavesOutForCause("users", x)
    BY <1>4, QuietReadCauses DEF LeavesOutForCause, ReadUsers, Reads
  <2>2. QED  BY <2>1
<1>5. CASE ReadRegistrations(x)
  <2>1. LeavesOutForCause("registrations", x)
    BY <1>5, QuietReadCauses DEF LeavesOutForCause, ReadRegistrations, Reads
  <2>2. QED  BY <2>1
<1>6. CASE ReadSignInActivity(x)
  <2>1. "sign_in_activity" \in Reads /\ Receive("sign_in_activity", x)
    BY <1>6 DEF ReadSignInActivity, Reads
  <2>2. LeavesOutForCause("sign_in_activity", x)
    BY <1>1, <1>2, <1>6, <2>1, SignInActivityCauses DEF LeavesOutForCause
  <2>3. QED  BY <2>2
<1>7. CASE ReadConditionalAccess(x)
  <2>1. LeavesOutForCause("conditional_access", x)
    BY <1>7, QuietReadCauses DEF LeavesOutForCause, ReadConditionalAccess, Reads
  <2>2. QED  BY <2>1
<1>8. CASE ReadSecurityDefaults(x)
  <2>1. "security_defaults" \in Reads /\ Receive("security_defaults", x)
    BY <1>8 DEF ReadSecurityDefaults, Reads
  <2>2. LeavesOutForCause("security_defaults", x)
    BY <1>1, <1>2, <1>8, <2>1, SecurityDefaultsCauses DEF LeavesOutForCause
  <2>3. QED  BY <2>2
<1>9. CASE LeaveOutPrivilegedAccess(x)
  <2>1. "role_assignments" \in Reads /\ Receive("role_assignments", x)
    BY <1>9 DEF LeaveOutPrivilegedAccess, Reads
  <2>2. LeavesOutForCause("role_assignments", x)
    BY <1>1, <1>2, <1>9, <2>1, NoPrivilegedAccessCauses DEF LeavesOutForCause
  <2>3. QED  BY <2>2
<1>10. CASE ReadRoleAssignments(x)
  <2>1. "role_assignments" \in Reads /\ Receive("role_assignments", x)
    BY <1>10 DEF ReadRoleAssignments, Reads
  <2>2. LeavesOutForCause("role_assignments", x)
    BY <1>1, <1>2, <1>10, <2>1, RoleAssignmentsCauses DEF LeavesOutForCause
  <2>3. QED  BY <2>2
<1>11. CASE ReadRoleEligibility(x)
  <2>1. /\ "role_eligibility" \in Reads /\ Receive("role_eligibility", x)
        /\ gaps' = gaps \cup leaveOut(miss'["role_eligibility"], EligibilityFields)
    BY <1>11 DEF ReadRoleEligibility, Record, Reads
  <2>2. EligibilityFields \subseteq Fields
        /\ \A f \in EligibilityFields : SettledAt(f) >= Turn["role_eligibility"]
                                           /\ "role_eligibility" \in Sources(f)
    BY <1>3, FieldsOfTurns, Turns
  <2>3. LeavesOutForCause("role_eligibility", x)
    BY <1>1, <2>1, <2>2, WholeReadCauses DEF LeavesOutForCause
  <2>4. QED  BY <2>3
<1>12. CASE ReadServicePrincipals(x)
  <2>1. LeavesOutForCause("service_principals", x)
    BY <1>12, QuietReadCauses DEF LeavesOutForCause, ReadServicePrincipals, Reads
  <2>2. QED  BY <2>1
<1>13. CASE ReadApplications(x)
  <2>1. "applications" \in Reads /\ Receive("applications", x)
    BY <1>13 DEF ReadApplications, Reads
  <2>2. LeavesOutForCause("applications", x)
    BY <1>1, <1>2, <1>13, <2>1, ApplicationsCauses DEF LeavesOutForCause
  <2>3. QED  BY <2>2
<1>14. CASE ReadSecureScores(x)
  <2>1. /\ "secure_scores" \in Reads /\ Receive("secure_scores", x)
        /\ gaps' = gaps \cup leaveOut(miss'["secure_scores"], SecureScoreFields)
    BY <1>14 DEF ReadSecureScores, Record, Reads
  <2>2. SecureScoreFields \subseteq Fields
        /\ \A f \in SecureScoreFields : SettledAt(f) >= Turn["secure_scores"]
                                           /\ "secure_scores" \in Sources(f)
    BY <1>3, FieldsOfTurns, Turns
  <2>3. LeavesOutForCause("secure_scores", x)
    BY <1>1, <2>1, <2>2, WholeReadCauses DEF LeavesOutForCause
  <2>4. QED  BY <2>3
<1>15. CASE ReadDirectoryAudits(x)
  <2>1. /\ "directory_audits" \in Reads /\ Receive("directory_audits", x)
        /\ gaps' = gaps \cup leaveOut(miss'["directory_audits"], DirectoryActivityFields)
    BY <1>15 DEF ReadDirectoryAudits, Record, Reads
  <2>2. DirectoryActivityFields \subseteq Fields
        /\ \A f \in DirectoryActivityFields : SettledAt(f) >= Turn["directory_audits"]
                                                 /\ "directory_audits" \in Sources(f)
    BY <1>3, FieldsOfTurns, Turns
  <2>3. LeavesOutForCause("directory_audits", x)
    BY <1>1, <2>1, <2>2, WholeReadCauses DEF LeavesOutForCause
  <2>4. QED  BY <2>3
<1>16. CASE ReadSignIns(x)
  <2>1. "sign_ins" \in Reads /\ Receive("sign_ins", x)
    BY <1>16 DEF ReadSignIns, Reads
  <2>2. LeavesOutForCause("sign_ins", x)
    BY <1>1, <1>2, <1>16, <2>1, SignInsCauses DEF LeavesOutForCause
  <2>3. QED  BY <2>2
<1>17. QED
  BY <1>4, <1>5, <1>6, <1>7, <1>8, <1>9, <1>10, <1>11, <1>12, <1>13, <1>14,
     <1>15, <1>16 DEF Handle

LEMMA HandlerKeepsCauses ==
  ASSUME CausesInv, NEW x, NEW r, LeavesOutForCause(r, x)
  PROVE  GapsNameTheirCause'
<1>1. /\ r \in Reads /\ Receive(r, x) /\ pc = r /\ TypeOK /\ tenant' = tenant
      /\ EveryNullIsExplained /\ GapsNameTheirCause
  BY DEF LeavesOutForCause, Receive, CausesInv, ValuesInv, IInv
<1>2. \A s \in Reads \ {r} : miss'[s] = miss[s]
  BY <1>1, OtherReadsKept
<1>3. PICK fields, left : gaps' = gaps \cup left /\ LeavesOut(r, fields, left)
  BY DEF LeavesOutForCause
<1>4. ASSUME NEW g \in gaps
      PROVE  /\ g.at \in Fields /\ Turn[r] > SettledAt(g.at)
             /\ Named(g)'
  <2>1. g.at \in Fields
    BY <1>1 DEF TypeOK
  <2>2. Due(g.at)
    BY <1>1, <2>1 DEF EveryNullIsExplained, Accounted, HasGap
  <2>3. Turn[r] > SettledAt(g.at)
    BY <1>1, <2>2 DEF Due
  <2>4. Named(g)
    BY <1>1 DEF GapsNameTheirCause, Named
  <2>5. ASSUME NEW s \in Sources(g.at)
        PROVE  s \in Reads /\ s # r
    <3>1. s \in Reads /\ Turn[s] \in Nat /\ Turn[s] <= SettledAt(g.at)
      BY <2>1, SourcesComeFirst
    <3>2. SettledAt(g.at) \in Nat /\ Turn[r] \in Nat
      BY <1>1, <2>1, Schedule, Turns DEF Reads
    <3>3. QED  BY <2>3, <3>1, <3>2
  <2>6. g.why.about \in Sources(g.at) => miss'[g.why.about] = miss[g.why.about]
    BY <1>2, <2>5
  <2>7. Named(g)'
    BY <1>1, <2>4, <2>6 DEF Named, SignInGap, Sources
  <2>8. QED  BY <2>1, <2>3, <2>7
<1>5. ASSUME NEW g \in gaps', NEW h \in gaps', h.at = g.at
      PROVE  h.why = g.why
  <2>1. ASSUME NEW e \in gaps, NEW n \in left
        PROVE  e.at # n.at
    <3>1. n.at \in fields /\ SettledAt(n.at) >= Turn[r]
      BY <1>3 DEF LeavesOut
    <3>2. e.at \in Fields /\ Turn[r] > SettledAt(e.at)
      BY <1>4
    <3>3. SettledAt(e.at) \in Nat /\ Turn[r] \in Nat
      BY <1>1, <3>2, Schedule, Turns DEF Reads
    <3>4. QED  BY <3>1, <3>2, <3>3
  <2>2. CASE g \in gaps /\ h \in gaps
    BY <1>1, <1>5, <2>2 DEF GapsNameTheirCause
  <2>3. CASE g \in left /\ h \in left
    BY <1>3, <1>5, <2>3 DEF LeavesOut
  <2>4. QED  BY <1>3, <1>5, <2>1, <2>2, <2>3
<1>6. ASSUME NEW g \in gaps'
      PROVE  Named(g)'
  BY <1>3, <1>4, <1>6 DEF LeavesOut
<1>7. QED  BY <1>5, <1>6 DEF GapsNameTheirCause, Named

LEMMA InitCausesInv == Init => CausesInv
<1>1. Init => OutcomesNamed /\ GapsNameTheirCause
  BY DEF Init, OutcomesNamed, GapsNameTheirCause
<1>2. QED  BY <1>1, InitValuesInv DEF CausesInv

LEMMA NextCausesInv == CausesInv /\ [Next]_vars => CausesInv'
<1> SUFFICES ASSUME CausesInv, [Next]_vars
             PROVE  CausesInv'
  OBVIOUS
<1>1. ValuesInv'
  BY NextValuesInv DEF CausesInv
<1>2. CASE Next
  <2>1. PICK x \in Responses : Handle(x)
    BY <1>2 DEF Next
  <2>2. PICK r : LeavesOutForCause(r, x)
    BY <2>1, HandlersHaveCauses
  <2>3. OutcomesNamed'
    BY <2>2, OutcomesStayNamed DEF LeavesOutForCause, CausesInv, ValuesInv, IInv
  <2>4. GapsNameTheirCause'
    BY <2>2, HandlerKeepsCauses
  <2>5. QED  BY <1>1, <2>3, <2>4 DEF CausesInv
<1>3. CASE UNCHANGED vars
  <2>1. OutcomesNamed' /\ GapsNameTheirCause'
    BY <1>3 DEF vars, CausesInv, OutcomesNamed, GapsNameTheirCause, SignInGap, Sources
  <2>2. QED  BY <1>1, <2>1 DEF CausesInv
<1>4. QED  BY <1>2, <1>3

(* Every gap of the Entra artifact gives one reason, that of a read the    *)
(* value is taken from or of something hidden in what was read, whichever  *)
(* reads fail and whatever the tenant holds.                               *)
THEOREM CausesOfGapsAreNamed == Spec => []GapsNameTheirCause
<1>1. CausesInv => GapsNameTheirCause
  BY DEF CausesInv
<1>2. QED  BY <1>1, InitCausesInv, NextCausesInv, PTL DEF Spec
=============================================================================
