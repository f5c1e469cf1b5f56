-------------------------- MODULE IDPPostureProofs --------------------------
(***************************************************************************)
(* That the normalized posture rests on the Entra artifact, and that each  *)
(* value it leaves out has one gap, the one its source has.  The posture   *)
(* is taken from counts that the artifact does not show, so the proof      *)
(* needs what EntraCollect says of its fields said of those counts, and    *)
(* of the values that are null over an empty population: a read that       *)
(* failed leaves a gap there too.                                          *)
(***************************************************************************)
EXTENDS IDPPosture, EntraCollectProofs

(* A value of a read that failed has a gap, also where the value would     *)
(* have been null over an empty population.                                *)
Missed(r) == miss[r] # NoMiss

FailedReadsLeaveGaps ==
  /\ Turn[pc] > 3 =>
       /\ Missed("users") => \A f \in UserFields : HasGap(f)
       /\ Missed("users") \/ Missed("registrations") =>
            \A f \in RegistrationFields : HasGap(f)
       /\ Missed("sign_in_activity") => \A f \in SignInActivityFields : HasGap(f)
  /\ /\ Turn[pc] > 6
     /\ \/ Missed("users") \/ Missed("role_assignments") \/ Missed("registrations")
        \/ tenant.groupHeld
     => \A f \in PrivilegedMFAFields : HasGap(f)
  /\ Turn[pc] > 9 /\ Missed("service_principals") => \A f \in AppFields : HasGap(f)

(* When each of the counts is kept beside its percentage.                  *)
CountsFollowTheReads ==
  /\ Turn[pc] > 3 =>
       /\ "Users.disabledCount" \in written <=> ~Missed("users")
       /\ "Users.inactiveCount" \in written <=> ~Missed("sign_in_activity")
       /\ "Posture.mfaRegisteredCount" \in written <=>
            ~Missed("users") /\ ~Missed("registrations")
  /\ Turn[pc] > 5 =>
       ("Policy.mfaRequiredUserCount" \in written <=>
          ~Missed("users") /\ ~HasGap(Coverage))
  /\ Turn[pc] > 6 =>
       ("PrivilegedAccess.mfaRegisteredCount" \in written <=>
          /\ ~Missed("users") /\ ~Missed("role_assignments") /\ ~Missed("registrations")
          /\ ~tenant.groupHeld)
  /\ Turn[pc] <= 3 => {"Users.disabledCount", "Users.inactiveCount",
                       "Posture.mfaRegisteredCount"} \cap written = {}
  /\ Turn[pc] <= 5 => "Policy.mfaRequiredUserCount" \notin written
  /\ Turn[pc] <= 6 => "PrivilegedAccess.mfaRegisteredCount" \notin written

(* The number of listed members is written whenever they were compared.   *)
Denominator == "/posture/denominator_enabled_member_users"
ListedAreCounted ==
  Turn[pc] > 3 => (Denominator \in written <=> "Posture.mfaRegisteredCount" \in written)

EntraInv == CausesInv /\ FailedReadsLeaveGaps /\ CountsFollowTheReads /\ ListedAreCounted

-----------------------------------------------------------------------------
(* One handler runs at each turn, and every turn is later than the last.   *)
LEMMA HandlerOfTurn ==
  ASSUME TypeOK, NEW x, Handle(x)
  PROVE  /\ pc \in Reads /\ Receive(pc, x)
         /\ pc = "sign_in_activity" => ReadSignInActivity(x)
         /\ pc = "security_defaults" => ReadSecurityDefaults(x)
         /\ pc = "role_assignments" =>
              LeaveOutPrivilegedAccess(x) \/ ReadRoleAssignments(x)
         /\ pc = "applications" => ReadApplications(x)
BY DEF Handle, ReadUsers, ReadRegistrations, ReadSignInActivity,
       ReadConditionalAccess, ReadSecurityDefaults, LeaveOutPrivilegedAccess,
       ReadRoleAssignments, ReadRoleEligibility, ReadServicePrincipals,
       ReadApplications, ReadSecureScores, ReadDirectoryAudits, ReadSignIns,
       Receive, Reads

LEMMA TurnsGo ==
  ASSUME TypeOK, NEW x, Handle(x)
  PROVE  /\ Turn[pc] \in Nat /\ Turn[pc'] \in Nat
         /\ Turn[pc] <= 3 <=> Turn[pc'] <= 3 \/ pc = "sign_in_activity"
         /\ Turn[pc] <= 5 <=> Turn[pc'] <= 5 \/ pc = "security_defaults"
         /\ Turn[pc] <= 6 <=> Turn[pc'] <= 6 \/ pc = "role_assignments"
         /\ Turn[pc] <= 9 <=> Turn[pc'] <= 9 \/ pc = "applications"
         /\ pc = "sign_in_activity" => Turn[pc'] > 3
         /\ pc = "security_defaults" => Turn[pc'] > 5
         /\ pc = "role_assignments" => Turn[pc'] > 6
         /\ pc = "applications" => Turn[pc'] > 9
<1>1. pc \in Reads /\ pc' \in Reads \cup {"collected"}
  BY DEF Handle, ReadUsers, ReadRegistrations, ReadSignInActivity,
         ReadConditionalAccess, ReadSecurityDefaults, LeaveOutPrivilegedAccess,
         ReadRoleAssignments, ReadRoleEligibility, ReadServicePrincipals,
         ReadApplications, ReadSecureScores, ReadDirectoryAudits, ReadSignIns,
         afterSecureScores, Receive, Reads
<1>2. \/ pc = "users" /\ pc' = "registrations"
      \/ pc = "registrations" /\ pc' = "sign_in_activity"
      \/ pc = "sign_in_activity" /\ pc' = "conditional_access"
      \/ pc = "conditional_access" /\ pc' = "security_defaults"
      \/ pc = "security_defaults" /\ pc' = "role_assignments"
      \/ pc = "role_assignments" /\ pc' \in {"role_eligibility", "service_principals"}
      \/ pc = "role_eligibility" /\ pc' = "service_principals"
      \/ pc = "service_principals" /\ pc' = "applications"
      \/ pc = "applications" /\ pc' = "secure_scores"
      \/ pc = "secure_scores" /\ pc' \in {"directory_audits", "collected"}
      \/ pc = "directory_audits" /\ pc' = "sign_ins"
      \/ pc = "sign_ins" /\ pc' = "collected"
  BY DEF Handle, ReadUsers, ReadRegistrations, ReadSignInActivity,
         ReadConditionalAccess, ReadSecurityDefaults, LeaveOutPrivilegedAccess,
         ReadRoleAssignments, ReadRoleEligibility, ReadServicePrincipals,
         ReadApplications, ReadSecureScores, ReadDirectoryAudits, ReadSignIns,
         afterSecureScores, Receive
<1> QED
  BY <1>2, Turns

(* What a step leaves as it is.                                            *)
LEMMA StepKeeps ==
  ASSUME TypeOK, InternalReads, NEW x, Handle(x)
  PROVE  /\ tenant' = tenant /\ level' = level
         /\ \A r \in Reads : r # pc => Missed(r)' = Missed(r)
         /\ \A f : HasGap(f) => HasGap(f)'
         /\ \A f \in Fields : Due(f) => /\ HasGap(f)' <=> HasGap(f)
                                        /\ f \in written' <=> f \in written
<1>1. pc \in Reads /\ Receive(pc, x)
  BY HandlerOfTurn
<1>2. PICK r, fields : SettlesOnTime(r, x, fields)
  BY HandlersSettleOnTime
<1>3. PICK values \in SUBSET (Fields \cup UnexportedCounts), left \in SUBSET Gap :
        Record(values, left) /\ Settles(fields, values, left)
  BY <1>2 DEF SettlesOnTime, HandlerSettles
<1>4. \A f : HasGap(f)' <=> HasGap(f) \/ GapAt(left, f)
  BY <1>3 DEF Record, HasGap, GapAt
<1>5. \A f \in Fields : Due(f) => ~GapAt(left, f) /\ (f \in written' <=> f \in written)
  BY <1>2, <1>3 DEF SettlesOnTime, Settles, Record
<1>6. \A s \in Reads : s # pc => Missed(s)' = Missed(s)
  BY <1>1, OtherReadsKept DEF Missed
<1>7. tenant' = tenant /\ level' = level
  BY <1>1 DEF Receive
<1> QED
  BY <1>4, <1>5, <1>6, <1>7
-----------------------------------------------------------------------------
(* The handlers that leave out the values of a failed read.                *)
LEMMA LeftOutHere ==
  ASSUME NEW why, NEW fields, leaveOut(why, fields) \subseteq gaps', why # NoMiss
  PROVE  \A f \in fields : HasGap(f)'
<1> SUFFICES ASSUME NEW f \in fields PROVE HasGap(f)'
  OBVIOUS
<1>1. GapAt(leaveOut(why, fields), f)
  BY LeaveOutAt
<1> QED
  BY <1>1 DEF GapAt, HasGap

LEMMA UsersLeaveGaps ==
  ASSUME TypeOK, NEW x, ReadSignInActivity(x)
  PROVE  /\ Missed("users")' => \A f \in UserFields : HasGap(f)'
         /\ Missed("users")' \/ Missed("registrations")' =>
              \A f \in RegistrationFields : HasGap(f)'
         /\ Missed("sign_in_activity")' => \A f \in SignInActivityFields : HasGap(f)'
<1> DEFINE usersMiss  == miss["users"]
           why        == firstMissing(usersMiss, miss["registrations"])
           signInMiss == miss'["sign_in_activity"]
<1>1. /\ leaveOut(usersMiss, UserFields) \subseteq gaps'
      /\ leaveOut(why, RegistrationFields) \subseteq gaps'
      /\ leaveOut(signInMiss, SignInActivityFields) \subseteq gaps'
      /\ Receive("sign_in_activity", x)
  BY DEF ReadSignInActivity, Record
<1>2. /\ miss'["users"] = miss["users"]
      /\ miss'["registrations"] = miss["registrations"]
  BY <1>1, OtherReadsKept DEF Reads
<1>3. Missed("users")' \/ Missed("registrations")' => why # NoMiss
  BY <1>2 DEF Missed, firstMissing
<1> HIDE DEF why, signInMiss
<1>4. Missed("sign_in_activity")' => signInMiss # NoMiss
  BY DEF Missed, signInMiss
<1> QED
  BY <1>1, <1>2, <1>3, <1>4, LeftOutHere DEF Missed

LEMMA AssignmentsLeaveGaps ==
  ASSUME TypeOK, NEW x, LeaveOutPrivilegedAccess(x) \/ ReadRoleAssignments(x),
         \/ Missed("users")' \/ Missed("role_assignments")' \/ Missed("registrations")'
         \/ tenant'.groupHeld
  PROVE  \A f \in PrivilegedMFAFields : HasGap(f)'
<1>1. Receive("role_assignments", x)
  BY DEF LeaveOutPrivilegedAccess, ReadRoleAssignments
<1>2. /\ miss'["users"] = miss["users"]
      /\ miss'["registrations"] = miss["registrations"] /\ tenant' = tenant
  BY <1>1, OtherReadsKept DEF Reads, Receive
<1>3. CASE LeaveOutPrivilegedAccess(x)
  <2> DEFINE why == firstMissing(miss'["role_assignments"], miss["users"])
  <2>1. why # NoMiss /\ leaveOut(why, PrivilegedFields) \subseteq gaps'
    BY <1>3 DEF LeaveOutPrivilegedAccess, Record
  <2>2. PrivilegedMFAFields \subseteq PrivilegedFields
    BY DEF PrivilegedFields
  <2> HIDE DEF why
  <2> QED
    BY <2>1, <2>2, LeftOutHere
<1>4. CASE ReadRoleAssignments(x)
  <2> DEFINE membersUnread == IF tenant.groupHeld
                              THEN notRead("group_role_members") ELSE NoMiss
             why == firstMissing(miss["registrations"], membersUnread)
  <2>1. /\ leaveOut(why, PrivilegedMFAFields) \subseteq gaps'
        /\ firstMissing(miss'["role_assignments"], miss["users"]) = NoMiss
    BY <1>4 DEF ReadRoleAssignments, Record
  <2>2. ~Missed("role_assignments")' /\ ~Missed("users")'
    BY <1>2, <2>1, NothingMissing DEF Missed
  <2>3. Missed("registrations")' \/ tenant.groupHeld
    BY <1>2, <2>2
  <2>4. notRead("group_role_members") # NoMiss
    BY DEF notRead, NoMiss
  <2>5. why # NoMiss
    BY <1>2, <2>3, <2>4 DEF firstMissing, Missed
  <2> HIDE DEF why
  <2> QED
    BY <2>1, <2>5, LeftOutHere
<1> QED
  BY <1>3, <1>4

LEMMA ApplicationsLeaveGaps ==
  ASSUME TypeOK, NEW x, ReadApplications(x), Missed("service_principals")'
  PROVE  \A f \in AppFields : HasGap(f)'
<1>1. /\ Receive("applications", x)
      /\ leaveOut(miss["service_principals"], AppFields) \subseteq gaps'
  BY DEF ReadApplications, Record
<1>2. miss'["service_principals"] = miss["service_principals"]
  BY <1>1, OtherReadsKept DEF Reads
<1> QED
  BY <1>1, <1>2, LeftOutHere DEF Missed

LEMMA FailedReadsStay ==
  ASSUME TypeOK, InternalReads, FailedReadsLeaveGaps, NEW x, Handle(x)
  PROVE  FailedReadsLeaveGaps'
<1>1. /\ pc \in Reads /\ tenant' = tenant
      /\ \A r \in Reads : r # pc => Missed(r)' = Missed(r)
      /\ \A f : HasGap(f) => HasGap(f)'
  BY HandlerOfTurn, StepKeeps
<1>2. ASSUME Turn[pc'] > 3
      PROVE  /\ Missed("users")' => \A f \in UserFields : HasGap(f)'
             /\ Missed("users")' \/ Missed("registrations")' =>
                  \A f \in RegistrationFields : HasGap(f)'
             /\ Missed("sign_in_activity")' => \A f \in SignInActivityFields : HasGap(f)'
  <2>1. CASE pc = "sign_in_activity"
    BY <2>1, HandlerOfTurn, UsersLeaveGaps
  <2>2. CASE pc # "sign_in_activity"
    <3>1. Turn[pc] > 3
      BY <1>2, <2>2, TurnsGo
    <3>2. pc \notin {"users", "registrations", "sign_in_activity"}
      BY <3>1, Turns
    <3>3. /\ Missed("users")' = Missed("users")
          /\ Missed("registrations")' = Missed("registrations")
          /\ Missed("sign_in_activity")' = Missed("sign_in_activity")
      BY <1>1, <3>2 DEF Reads
    <3> QED
      BY <1>1, <3>1, <3>3 DEF FailedReadsLeaveGaps
  <2> QED
    BY <2>1, <2>2
<1>3. ASSUME Turn[pc'] > 6,
             \/ Missed("users")' \/ Missed("role_assignments")' \/ Missed("registrations")'
             \/ tenant'.groupHeld
      PROVE  \A f \in PrivilegedMFAFields : HasGap(f)'
  <2>1. CASE pc = "role_assignments"
    BY <1>3, <2>1, HandlerOfTurn, AssignmentsLeaveGaps
  <2>2. CASE pc # "role_assignments"
    <3>1. Turn[pc] > 6
      BY <1>3, <2>2, TurnsGo
    <3>2. pc \notin {"users", "registrations", "role_assignments"}
      BY <3>1, Turns
    <3>3. /\ Missed("users")' = Missed("users")
          /\ Missed("registrations")' = Missed("registrations")
          /\ Missed("role_assignments")' = Missed("role_assignments")
      BY <1>1, <3>2 DEF Reads
    <3> QED
      BY <1>1, <1>3, <3>1, <3>3 DEF FailedReadsLeaveGaps
  <2> QED
    BY <2>1, <2>2
<1>4. ASSUME Turn[pc'] > 9, Missed("service_principals")'
      PROVE  \A f \in AppFields : HasGap(f)'
  <2>1. CASE pc = "applications"
    BY <1>4, <2>1, HandlerOfTurn, ApplicationsLeaveGaps
  <2>2. CASE pc # "applications"
    <3>1. Turn[pc] > 9
      BY <1>4, <2>2, TurnsGo
    <3>2. pc # "service_principals"
      BY <3>1, Turns
    <3>3. Missed("service_principals")' = Missed("service_principals")
      BY <1>1, <3>2 DEF Reads
    <3> QED
      BY <1>1, <1>4, <3>1, <3>3 DEF FailedReadsLeaveGaps
  <2> QED
    BY <2>1, <2>2
<1> QED
  BY <1>2, <1>3, <1>4 DEF FailedReadsLeaveGaps

-----------------------------------------------------------------------------
(* The counts beside the percentages: each is of one turn, and is kept     *)
(* when the reads behind it gave a list.                                   *)
UserCounts == {"Users.disabledCount", "Users.inactiveCount", "Posture.mfaRegisteredCount"}
CoverageCount == "Policy.mfaRequiredUserCount"
HoldersCount == "PrivilegedAccess.mfaRegisteredCount"

LEMMA CountsOfUsers ==
  ASSUME TypeOK, NEW x, ReadSignInActivity(x), UserCounts \cap written = {}
  PROVE  /\ "Users.disabledCount" \in written' <=> ~Missed("users")'
         /\ "Users.inactiveCount" \in written' <=> ~Missed("sign_in_activity")'
         /\ "Posture.mfaRegisteredCount" \in written' <=>
              ~Missed("users")' /\ ~Missed("registrations")'
         /\ \A c \in UnexportedCounts \ UserCounts : c \in written' <=> c \in written
<1> DEFINE why == firstMissing(miss["users"], miss["registrations"])
<1>1. /\ Receive("sign_in_activity", x)
      /\ written' = written \cup UserValues(miss["users"])
                      \cup (IF why = NoMiss THEN computeRegistrationMetrics ELSE {})
                      \cup InactivityValues(miss'["sign_in_activity"])
  BY DEF ReadSignInActivity, Record
<1>2. /\ miss'["users"] = miss["users"]
      /\ miss'["registrations"] = miss["registrations"]
  BY <1>1, OtherReadsKept DEF Reads
<1>3. why = NoMiss <=> ~Missed("users")' /\ ~Missed("registrations")'
  BY <1>2 DEF Missed, firstMissing
<1>4. UserValues(miss["users"]) \cap UnexportedCounts =
        IF Missed("users")' THEN {} ELSE {"Users.disabledCount"}
  BY <1>2 DEF UserValues, PercentInt, Missed, UnexportedCounts
<1>5. computeRegistrationMetrics \cap UnexportedCounts = {"Posture.mfaRegisteredCount"}
  BY DEF computeRegistrationMetrics, PercentInt, RegistrationFields, UnexportedCounts
<1>6. InactivityValues(miss'["sign_in_activity"]) \cap UnexportedCounts =
        IF Missed("sign_in_activity")' THEN {} ELSE {"Users.inactiveCount"}
  BY DEF InactivityValues, PercentInt, Missed, UnexportedCounts
<1>7. UserCounts \subseteq UnexportedCounts
  BY DEF UserCounts, UnexportedCounts
<1> HIDE DEF why
<1> QED
  BY <1>1, <1>3, <1>4, <1>5, <1>6, <1>7 DEF UserCounts

(* The count behind the coverage is kept when the users were read and the  *)
(* coverage has no gap.                                                    *)
LEMMA CountOfCoverage ==
  ASSUME TypeOK, NEW x, ReadSecurityDefaults(x),
         CoverageCount \notin written, ~HasGap(Coverage)
  PROVE  /\ CoverageCount \in written' <=> ~Missed("users")' /\ ~HasGap(Coverage)'
         /\ \A c \in UnexportedCounts \ {CoverageCount} : c \in written' <=> c \in written
<1> DEFINE defaultsMiss == miss'["security_defaults"]
           caMiss == miss["conditional_access"]
           usersMiss == miss["users"]
           policy == collectPolicy(caMiss, usersMiss, defaultsMiss)
<1>1. /\ Receive("security_defaults", x)
      /\ written' = written \cup (policy[1] \cup (IF defaultsMiss = NoMiss
                                  THEN SecurityDefaultsFields ELSE {}))
      /\ gaps' = gaps \cup (policy[2] \cup leaveOut(defaultsMiss, SecurityDefaultsFields))
  BY DEF ReadSecurityDefaults, Record
<1>2. miss'["users"] = usersMiss
  BY <1>1, OtherReadsKept DEF Reads
<1>3. /\ CoverageCount \notin SecurityDefaultsFields \cup ConditionalAccessFields
      /\ Coverage \notin SecurityDefaultsFields \cup ConditionalAccessFields
      /\ CoverageCount # Coverage
  BY DEF SecurityDefaultsFields, ConditionalAccessFields, Coverage, CoverageCount
<1>4. /\ CoverageCount \in written' <=> CoverageCount \in policy[1]
      /\ HasGap(Coverage)' <=> GapAt(policy[2], Coverage)
  <2>1. HasGap(Coverage)' <=> GapAt(gaps', Coverage)
    BY DEF HasGap, GapAt
  <2>2. GapAt(gaps', Coverage) <=>
          \/ GapAt(gaps, Coverage) \/ GapAt(policy[2], Coverage)
          \/ GapAt(leaveOut(defaultsMiss, SecurityDefaultsFields), Coverage)
    <3> DEFINE left == leaveOut(defaultsMiss, SecurityDefaultsFields)
    <3> HIDE DEF left, policy, defaultsMiss
    <3>1. gaps' = gaps \cup (policy[2] \cup left)
      BY <1>1 DEF left
    <3>2. GapAt(policy[2] \cup left, Coverage) <=>
            GapAt(policy[2], Coverage) \/ GapAt(left, Coverage)
      BY GapAtUnion
    <3>3. GapAt(gaps \cup (policy[2] \cup left), Coverage) <=>
            GapAt(gaps, Coverage) \/ GapAt(policy[2] \cup left, Coverage)
      BY GapAtUnion
    <3> QED
      BY <3>1, <3>2, <3>3 DEF left
  <2>3. ~GapAt(leaveOut(defaultsMiss, SecurityDefaultsFields), Coverage)
    BY <1>3, LeaveOutAt
  <2>4. ~GapAt(gaps, Coverage)
    BY DEF HasGap, GapAt
  <2> HIDE DEF policy, defaultsMiss
  <2> QED
    BY <1>1, <1>3, <2>1, <2>2, <2>3, <2>4
<1>5. \A why : GapAt(leaveOut(why, {Coverage}), Coverage) <=> why # NoMiss
  BY LeaveOutAt
<1>6. ~GapAt({}, Coverage)
  BY DEF GapAt
<1>7. policy[1] \cap UnexportedCounts \subseteq {CoverageCount}
  BY <1>3, <1>6 DEF collectPolicy, CoverageWithPolicies, CoverageWithoutPolicies,
     CoverageByDefaults, PercentInt, ConditionalAccessFields, UnexportedCounts, Coverage,
     CoverageCount
<1>8. \A c \in UnexportedCounts \ {CoverageCount} : c \in written' <=> c \in written
  BY <1>1, <1>7 DEF SecurityDefaultsFields, UnexportedCounts
<1>9. CASE caMiss = NoMiss
  <2> DEFINE coverage == CoverageWithPolicies(usersMiss, defaultsMiss)
  <2>1. policy = <<ConditionalAccessFields \cup coverage[1], coverage[2]>>
    BY <1>9 DEF collectPolicy
  <2>2. CoverageCount \in coverage[1] <=> usersMiss = NoMiss /\ ~GapAt(coverage[2], Coverage)
    BY <1>3, <1>5, <1>6
       DEF CoverageWithPolicies, CoverageByDefaults, PercentInt, notRead, NoMiss,
           CoverageCount
  <2> HIDE DEF coverage
  <2> QED
    BY <1>2, <1>3, <1>4, <1>8, <2>1, <2>2 DEF Missed
<1>10. CASE caMiss # NoMiss
  <2> DEFINE coverage == CoverageWithoutPolicies(caMiss, usersMiss, defaultsMiss)
  <2>1. policy = <<coverage[1], leaveOut(caMiss, ConditionalAccessFields) \cup coverage[2]>>
    BY <1>10 DEF collectPolicy
  <2>2. CoverageCount \in coverage[1] <=> usersMiss = NoMiss /\ ~GapAt(coverage[2], Coverage)
    BY <1>3, <1>5, <1>6, <1>10
       DEF CoverageWithoutPolicies, CoverageByDefaults, CoverageCount
  <2>3. GapAt(policy[2], Coverage) <=> GapAt(coverage[2], Coverage)
    <3>1. policy[2] = leaveOut(caMiss, ConditionalAccessFields) \cup coverage[2]
      BY <2>1
    <3>2. ~GapAt(leaveOut(caMiss, ConditionalAccessFields), Coverage)
      BY <1>3, LeaveOutAt
    <3> QED
      BY <3>1, <3>2, GapAtUnion, Zenon
  <2> HIDE DEF coverage
  <2> QED
    BY <1>2, <1>4, <1>8, <2>1, <2>2, <2>3 DEF Missed
<1> QED
  BY <1>9, <1>10, <1>8

LEMMA CountOfHolders ==
  ASSUME TypeOK, NEW x, LeaveOutPrivilegedAccess(x) \/ ReadRoleAssignments(x),
         HoldersCount \notin written
  PROVE  /\ HoldersCount \in written' <=>
              /\ ~Missed("users")' /\ ~Missed("role_assignments")'
              /\ ~Missed("registrations")' /\ ~tenant'.groupHeld
         /\ \A c \in UnexportedCounts \ {HoldersCount} : c \in written' <=> c \in written
<1>1. Receive("role_assignments", x)
  BY DEF LeaveOutPrivilegedAccess, ReadRoleAssignments
<1>2. /\ miss'["users"] = miss["users"]
      /\ miss'["registrations"] = miss["registrations"] /\ tenant' = tenant
  BY <1>1, OtherReadsKept DEF Reads, Receive
<1>3. CASE LeaveOutPrivilegedAccess(x)
  BY <1>2, <1>3 DEF LeaveOutPrivilegedAccess, Record, Missed, firstMissing
<1>4. CASE ReadRoleAssignments(x)
  <2> DEFINE membersUnread == IF tenant.groupHeld
                              THEN notRead("group_role_members") ELSE NoMiss
             mfaWhy == firstMissing(miss["registrations"], membersUnread)
  <2>1. ~Missed("users")' /\ ~Missed("role_assignments")'
    BY <1>2, <1>4, NothingMissing DEF ReadRoleAssignments, Missed
  <2>2. mfaWhy = NoMiss <=> ~Missed("registrations")' /\ ~tenant.groupHeld
    BY <1>2 DEF firstMissing, notRead, NoMiss, Missed
  <2>3. /\ HoldersCount \notin PrivilegedCounts /\ HoldersCount # SuperAdminCount
        /\ HoldersCount # InactivePrivileged /\ HoldersCount \notin PrivilegedMFAFields
    BY DEF PrivilegedCounts, SuperAdminCount, InactivePrivileged, PrivilegedMFAFields,
           HoldersCount
  <2>4. HoldersCount \in written' <=> mfaWhy = NoMiss
    BY <1>4, <2>3 DEF ReadRoleAssignments, Record, PercentInt, HoldersCount
  <2>5. \A c \in UnexportedCounts \ {HoldersCount} : c \in written' <=> c \in written
    BY <1>4 DEF ReadRoleAssignments, Record, PercentInt, PrivilegedCounts, SuperAdminCount,
       InactivePrivileged, PrivilegedMFAFields, UnexportedCounts, HoldersCount
  <2> QED
    BY <1>2, <2>1, <2>2, <2>4, <2>5
<1> QED
  BY <1>3, <1>4

(* Every other handler leaves the counts alone.                            *)
LEMMA CountsStay ==
  ASSUME TypeOK, NEW x, Handle(x),
         pc \notin {"sign_in_activity", "security_defaults", "role_assignments"}
  PROVE  \A c \in UnexportedCounts : c \in written' <=> c \in written
<1>1. CASE \/ ReadUsers(x) \/ ReadRegistrations(x)
           \/ ReadConditionalAccess(x) \/ ReadServicePrincipals(x)
  BY <1>1 DEF ReadUsers, ReadRegistrations, ReadConditionalAccess,
              ReadServicePrincipals, Record
<1>2. CASE ReadRoleEligibility(x)
  BY <1>2 DEF ReadRoleEligibility, Record, PercentInt, UnexportedCounts
<1>3. CASE ReadApplications(x)
  BY <1>3 DEF ReadApplications, Record, PercentInt, CredentialFields, UnexportedCounts
<1>4. CASE ReadSecureScores(x) \/ ReadDirectoryAudits(x)
  BY <1>4 DEF ReadSecureScores, ReadDirectoryAudits, Record, SecureScoreFields,
              DirectoryActivityFields, UnexportedCounts
<1>5. CASE ReadSignIns(x)
  BY <1>5 DEF ReadSignIns, Record, RiskySignIns, AppliedPolicyFields, UnexportedCounts
<1>6. /\ ~ReadSignInActivity(x) /\ ~ReadSecurityDefaults(x)
      /\ ~LeaveOutPrivilegedAccess(x) /\ ~ReadRoleAssignments(x)
  BY DEF ReadSignInActivity, ReadSecurityDefaults, LeaveOutPrivilegedAccess,
         ReadRoleAssignments, Receive
<1> QED
  BY <1>1, <1>2, <1>3, <1>4, <1>5, <1>6 DEF Handle

LEMMA CountsFollow ==
  ASSUME IInv, NothingAhead, CountsFollowTheReads, NEW x, Handle(x)
  PROVE  CountsFollowTheReads'
<1> USE DEF UserCounts, CoverageCount, HoldersCount
<1>1. /\ pc \in Reads /\ tenant' = tenant
      /\ \A r \in Reads : r # pc => Missed(r)' = Missed(r)
      /\ \A f \in Fields : Due(f) => (HasGap(f)' <=> HasGap(f))
  BY HandlerOfTurn, StepKeeps DEF IInv
<1>2. /\ Coverage \in Fields
      /\ Due(Coverage) <=> Turn[pc] > 5
      /\ ~Due(Coverage) => ~HasGap(Coverage)
  <2>1. Coverage \in Fields /\ SettledAt(Coverage) = 5 /\ InScope(Coverage)
    BY CoverageIsField, Schedule
       DEF InScope, InternalFields, DirectoryActivityFields, SignInMonitoringFields,
           RiskySignIns, AppliedPolicyFields, Coverage
  <2> QED
    BY <2>1 DEF Due, IInv, EveryNullIsExplained, Accounted
<1>3. UnexportedCounts = UserCounts \cup {CoverageCount, HoldersCount}
  BY DEF UnexportedCounts
<1>4. TypeOK /\ Turn[pc] \in Nat /\ Turn[pc'] \in Nat
  BY TurnsGo DEF IInv
<1>5. CASE pc = "sign_in_activity"
  <2>1. Turn[pc] = 3 /\ Turn[pc'] > 3 /\ Turn[pc'] <= 5 /\ Turn[pc'] <= 6
    BY <1>5, <1>4, TurnsGo, Turns
  <2>2. UserCounts \cap written = {}
    BY <2>1 DEF CountsFollowTheReads
  <2>3. ReadSignInActivity(x)
    BY <1>4, <1>5, HandlerOfTurn
  <2>4. CoverageCount \notin written' /\ HoldersCount \notin written'
    BY <1>3, <1>4, <2>1, <2>2, <2>3, CountsOfUsers DEF CountsFollowTheReads
  <2> QED
    BY <1>4, <2>1, <2>2, <2>3, <2>4, CountsOfUsers DEF CountsFollowTheReads
<1>6. ASSUME pc # "sign_in_activity", \A c \in UserCounts : c \in written' <=> c \in written
      PROVE  /\ Turn[pc'] > 3 =>
                  /\ "Users.disabledCount" \in written' <=> ~Missed("users")'
                  /\ "Users.inactiveCount" \in written' <=> ~Missed("sign_in_activity")'
                  /\ "Posture.mfaRegisteredCount" \in written' <=>
                       ~Missed("users")' /\ ~Missed("registrations")'
             /\ Turn[pc'] <= 3 => UserCounts \cap written' = {}
  <2>1. Turn[pc'] <= 3 <=> Turn[pc] <= 3
    BY <1>4, <1>6, TurnsGo
  <2>2. CASE Turn[pc] > 3
    <3>1. pc \notin {"users", "registrations", "sign_in_activity"}
      BY <2>2, Turns
    <3>2. /\ Missed("users")' = Missed("users")
          /\ Missed("registrations")' = Missed("registrations")
          /\ Missed("sign_in_activity")' = Missed("sign_in_activity")
      BY <1>1, <3>1 DEF Reads
    <3> QED
      BY <1>4, <1>6, <2>1, <2>2, <3>2 DEF CountsFollowTheReads
  <2>3. CASE Turn[pc] <= 3
    BY <1>4, <1>6, <2>1, <2>3 DEF CountsFollowTheReads
  <2> QED
    BY <1>4, <2>2, <2>3
<1>7. ASSUME pc # "security_defaults", CoverageCount \in written' <=> CoverageCount \in written
      PROVE  /\ Turn[pc'] > 5 =>
                  (CoverageCount \in written' <=> ~Missed("users")' /\ ~HasGap(Coverage)')
             /\ Turn[pc'] <= 5 => CoverageCount \notin written'
  <2>1. Turn[pc'] <= 5 <=> Turn[pc] <= 5
    BY <1>4, <1>7, TurnsGo
  <2>2. CASE Turn[pc] > 5
    <3>1. pc # "users"
      BY <2>2, Turns
    <3>2. Missed("users")' = Missed("users") /\ (HasGap(Coverage)' <=> HasGap(Coverage))
      BY <1>1, <1>2, <2>2, <3>1 DEF Reads
    <3> QED
      BY <1>4, <1>7, <2>1, <2>2, <3>2 DEF CountsFollowTheReads
  <2>3. CASE Turn[pc] <= 5
    BY <1>4, <1>7, <2>1, <2>3 DEF CountsFollowTheReads
  <2> QED
    BY <1>4, <2>2, <2>3
<1>8. ASSUME pc # "role_assignments", HoldersCount \in written' <=> HoldersCount \in written
      PROVE  /\ Turn[pc'] > 6 =>
                  (HoldersCount \in written' <=>
                     /\ ~Missed("users")' /\ ~Missed("role_assignments")'
                     /\ ~Missed("registrations")' /\ ~tenant'.groupHeld)
             /\ Turn[pc'] <= 6 => HoldersCount \notin written'
  <2>1. Turn[pc'] <= 6 <=> Turn[pc] <= 6
    BY <1>4, <1>8, TurnsGo
  <2>2. CASE Turn[pc] > 6
    <3>1. pc \notin {"users", "registrations", "role_assignments"}
      BY <2>2, Turns
    <3>2. /\ Missed("users")' = Missed("users")
          /\ Missed("registrations")' = Missed("registrations")
          /\ Missed("role_assignments")' = Missed("role_assignments")
      BY <1>1, <3>1 DEF Reads
    <3> QED
      BY <1>1, <1>4, <1>8, <2>1, <2>2, <3>2 DEF CountsFollowTheReads
  <2>3. CASE Turn[pc] <= 6
    BY <1>4, <1>8, <2>1, <2>3 DEF CountsFollowTheReads
  <2> QED
    BY <1>4, <2>2, <2>3
<1>9. CASE pc = "security_defaults"
  <2>1. Turn[pc] = 5 /\ Turn[pc'] > 5
    BY <1>9, <1>4, TurnsGo, Turns
  <2>2. CoverageCount \notin written /\ ~HasGap(Coverage)
    BY <1>2, <2>1 DEF CountsFollowTheReads
  <2>3. ReadSecurityDefaults(x)
    BY <1>4, <1>9, HandlerOfTurn
  <2>4. /\ CoverageCount \in written' <=> ~Missed("users")' /\ ~HasGap(Coverage)'
        /\ \A c \in UserCounts \cup {HoldersCount} : c \in written' <=> c \in written
    BY <1>3, <1>4, <2>2, <2>3, CountOfCoverage
  <2> QED
    BY <1>4, <1>6, <1>8, <1>9, <2>1, <2>4 DEF CountsFollowTheReads
<1>10. CASE pc = "role_assignments"
  <2>1. Turn[pc] = 6 /\ Turn[pc'] > 6
    BY <1>10, <1>4, TurnsGo, Turns
  <2>2. HoldersCount \notin written
    BY <2>1 DEF CountsFollowTheReads
  <2>3. LeaveOutPrivilegedAccess(x) \/ ReadRoleAssignments(x)
    BY <1>4, <1>10, HandlerOfTurn
  <2>4. /\ HoldersCount \in written' <=>
             /\ ~Missed("users")' /\ ~Missed("role_assignments")'
             /\ ~Missed("registrations")' /\ ~tenant'.groupHeld
        /\ \A c \in UserCounts \cup {CoverageCount} : c \in written' <=> c \in written
    BY <1>3, <1>4, <2>2, <2>3, CountOfHolders
  <2> QED
    BY <1>4, <1>6, <1>7, <1>10, <2>1, <2>4 DEF CountsFollowTheReads
<1>11. CASE pc \notin {"sign_in_activity", "security_defaults", "role_assignments"}
  <2>1. \A c \in UnexportedCounts : c \in written' <=> c \in written
    BY <1>4, <1>11, CountsStay
  <2> QED
    BY <1>3, <1>4, <1>6, <1>7, <1>8, <1>11, <2>1 DEF CountsFollowTheReads
<1> QED
  BY <1>5, <1>9, <1>10, <1>11

-----------------------------------------------------------------------------
LEMMA ListedFollow ==
  ASSUME IInv, CountsFollowTheReads, ListedAreCounted, NEW x, Handle(x)
  PROVE  ListedAreCounted'
<1>1. TypeOK /\ Turn[pc] \in Nat /\ Turn[pc'] \in Nat
  BY TurnsGo DEF IInv
<1>2. /\ Denominator \in Fields /\ Denominator \in RegistrationFields
      /\ Due(Denominator) <=> Turn[pc] > 3
      /\ ~Due(Denominator) => Denominator \notin written
  <2>1. Denominator \in RegistrationFields /\ Denominator \in Fields
    BY DEF Denominator, RegistrationFields, Fields
  <2>2. SettledAt(Denominator) = 3 /\ InScope(Denominator)
    BY <2>1, Schedule
       DEF InScope, InternalFields, DirectoryActivityFields, SignInMonitoringFields,
           RiskySignIns, AppliedPolicyFields, Denominator
  <2> QED
    BY <2>1, <2>2 DEF Due, IInv, EveryNullIsExplained, Accounted
<1>3. CASE pc = "sign_in_activity"
  <2>1. ReadSignInActivity(x) /\ Turn[pc] = 3
    BY <1>1, <1>3, HandlerOfTurn, Turns
  <2>2. Denominator \notin written /\ "Posture.mfaRegisteredCount" \notin written
    BY <1>1, <1>2, <2>1 DEF CountsFollowTheReads
  <2> QED
    BY <2>1, <2>2
       DEF ReadSignInActivity, Record, UserValues, InactivityValues, PercentInt,
           computeRegistrationMetrics, RegistrationFields, Denominator, ListedAreCounted
<1>4. CASE pc # "sign_in_activity" /\ Turn[pc] > 3
  <2>1. Denominator \in written' <=> Denominator \in written
    BY <1>1, <1>2, <1>4, StepKeeps DEF IInv
  <2>2. "Posture.mfaRegisteredCount" \in written' <=> "Posture.mfaRegisteredCount" \in written
    <3>1. "Posture.mfaRegisteredCount" \notin Fields
      BY FieldsAreNotCounts DEF UnexportedCounts
    <3>2. "Posture.mfaRegisteredCount" \in UnexportedCounts \ {CoverageCount, HoldersCount}
      BY DEF UnexportedCounts, CoverageCount, HoldersCount
    <3>3. CASE pc = "security_defaults"
      <4>1. Turn[pc] = 5
        BY <3>3, Turns
      <4>2. CoverageCount \notin written /\ ~HasGap(Coverage)
        <5>1. Coverage \in Fields /\ SettledAt(Coverage) = 5
          BY CoverageIsField, Schedule
        <5>2. ~Due(Coverage)
          BY <4>1, <5>1 DEF Due
        <5> QED
          BY <4>1, <5>1, <5>2
             DEF CountsFollowTheReads, CoverageCount, IInv, EveryNullIsExplained, Accounted
      <4> QED
        BY <1>1, <3>2, <3>3, <4>2, HandlerOfTurn, CountOfCoverage
    <3>4. CASE pc = "role_assignments"
      <4>1. Turn[pc] = 6
        BY <3>4, Turns
      <4>2. HoldersCount \notin written
        BY <4>1 DEF CountsFollowTheReads, HoldersCount
      <4> QED
        BY <1>1, <3>2, <3>4, <4>2, HandlerOfTurn, CountOfHolders
    <3>5. CASE pc \notin {"security_defaults", "role_assignments"}
      BY <1>1, <1>4, <3>2, <3>5, CountsStay
    <3> QED
      BY <3>3, <3>4, <3>5
  <2> QED
    BY <1>4, <2>1, <2>2 DEF ListedAreCounted
<1>5. CASE pc # "sign_in_activity" /\ Turn[pc] <= 3
  BY <1>1, <1>5, TurnsGo DEF ListedAreCounted
<1> QED
  BY <1>1, <1>3, <1>4, <1>5

LEMMA InitEntraInv == Init => EntraInv
<1> SUFFICES ASSUME Init PROVE EntraInv
  OBVIOUS
<1>1. Turn[pc] = 1 /\ written = {}
  BY Turns DEF Init
<1>2. FailedReadsLeaveGaps /\ CountsFollowTheReads /\ ListedAreCounted
  BY <1>1 DEF FailedReadsLeaveGaps, CountsFollowTheReads, ListedAreCounted
<1> QED
  BY <1>2, InitCausesInv DEF EntraInv

LEMMA NextEntraInv == EntraInv /\ [Next]_vars => EntraInv'
<1> SUFFICES ASSUME EntraInv, [Next]_vars PROVE EntraInv'
  OBVIOUS
<1>1. CausesInv'
  BY NextCausesInv DEF EntraInv
<1>2. CASE Next
  <2>1. PICK x \in Responses : Handle(x)
    BY <1>2 DEF Next
  <2>2. FailedReadsLeaveGaps' /\ CountsFollowTheReads' /\ ListedAreCounted'
    BY <2>1, FailedReadsStay, CountsFollow, ListedFollow DEF EntraInv, CausesInv, ValuesInv, IInv
  <2> QED
    BY <1>1, <2>2 DEF EntraInv
<1>3. CASE UNCHANGED vars
  <2>1. FailedReadsLeaveGaps' /\ CountsFollowTheReads' /\ ListedAreCounted'
    BY <1>3 DEF EntraInv, vars, FailedReadsLeaveGaps, CountsFollowTheReads, ListedAreCounted,
                Missed, HasGap
  <2> QED
    BY <1>1, <2>1 DEF EntraInv
<1> QED
  BY <1>2, <1>3

-----------------------------------------------------------------------------
(* What the artifact holds when the reads are over, in terms of the reads. *)
LEMMA GapHasCause ==
  ASSUME EntraInv, NEW f \in Fields, HasGap(f), f \notin SignInMonitoringFields,
         f # Coverage
  PROVE  \/ \E r \in Sources(f) : Missed(r)
         \/ tenant.groupHeld /\ f \in PrivilegedFields \ EligibilityFields
<1>1. PICK g \in gaps : g.at = f
  BY DEF HasGap
<1>2. g.why # NoMiss
  BY <1>1 DEF EntraInv, CausesInv, ValuesInv, IInv, TypeOK
<1>3. ~SignInGap(g)
  BY <1>1 DEF SignInGap, SignInMonitoringFields
<1> QED
  BY <1>1, <1>2, <1>3 DEF EntraInv, CausesInv, GapsNameTheirCause, Missed

LEMMA FieldsAtTheEnd ==
  ASSUME EntraInv, pc = "collected", NEW f \in Fields \ InternalFields
  PROVE  IF f \in written THEN ~HasGap(f) ELSE HasGap(f) \/ EmptyPopulation(f)
<1>1. SettledAt(f) <= 10 /\ SettledAt(f) \in Nat
  BY Schedule, FieldGroups DEF InternalFields
<1>2. Due(f)
  BY <1>1, Turns DEF Due, InScope
<1> QED
  BY <1>2 DEF EntraInv, CausesInv, ValuesInv, IInv, EveryNullIsExplained, Accounted

LEMMA GapsAtTheEnd ==
  ASSUME EntraInv, pc = "collected"
  PROVE  /\ \A f \in UserFields : HasGap(f) <=> Missed("users")
         /\ \A f \in RegistrationFields :
              HasGap(f) <=> Missed("users") \/ Missed("registrations")
         /\ \A f \in SignInActivityFields : HasGap(f) <=> Missed("sign_in_activity")
         /\ \A f \in PrivilegedMFAFields :
              HasGap(f) <=> \/ Missed("users") \/ Missed("role_assignments")
                            \/ Missed("registrations") \/ tenant.groupHeld
         /\ \A f \in AppFields : HasGap(f) <=> Missed("service_principals")
         /\ \A f \in {SuperAdminCount} \cup PrivilegedCounts :
              HasGap(f) => \/ Missed("users") \/ Missed("role_assignments")
                           \/ tenant.groupHeld
<1>1. Turn[pc] > 3 /\ Turn[pc] > 6 /\ Turn[pc] > 9
  BY Turns
<1>2. /\ Missed("users") => \A f \in UserFields : HasGap(f)
      /\ Missed("users") \/ Missed("registrations") =>
           \A f \in RegistrationFields : HasGap(f)
      /\ Missed("sign_in_activity") => \A f \in SignInActivityFields : HasGap(f)
      /\ \/ Missed("users") \/ Missed("role_assignments") \/ Missed("registrations")
         \/ tenant.groupHeld
         => \A f \in PrivilegedMFAFields : HasGap(f)
      /\ Missed("service_principals") => \A f \in AppFields : HasGap(f)
  BY <1>1 DEF EntraInv, FailedReadsLeaveGaps
<1>3. ASSUME NEW f \in UserFields \cup RegistrationFields \cup SignInActivityFields
                         \cup AppFields \cup PrivilegedMFAFields
                         \cup {SuperAdminCount} \cup PrivilegedCounts,
             HasGap(f)
      PROVE  /\ f \in Fields
             /\ \/ \E r \in Sources(f) : Missed(r)
                \/ tenant.groupHeld /\ f \in PrivilegedFields
  <2>1. f \in Fields /\ f # Coverage /\ f \notin SignInMonitoringFields
    BY DEF Fields, PrivilegedFields, UserFields, RegistrationFields, SignInActivityFields,
           AppFields, PrivilegedMFAFields, SuperAdminCount, PrivilegedCounts, Coverage,
           SignInMonitoringFields, RiskySignIns, AppliedPolicyFields
  <2> QED
    BY <1>3, <2>1, GapHasCause
<1>4. (UserFields \cup RegistrationFields \cup SignInActivityFields \cup AppFields)
        \cap PrivilegedFields = {}
  BY DEF PrivilegedFields, UserFields, RegistrationFields, SignInActivityFields,
         AppFields, PrivilegedMFAFields, SuperAdminCount, PrivilegedCounts,
         InactivePrivileged, EligibilityFields
<1> QED
  BY <1>2, <1>3, <1>4, SourcesOf

(* A value that could not be null over an empty population is written, or  *)
(* has a gap.                                                              *)
LEMMA ValuesAtTheEnd ==
  ASSUME EntraInv, pc = "collected"
  PROVE  /\ MembersCount \in written <=> ~Missed("users")
         /\ "/users/total_count" \in written <=> ~Missed("users")
         /\ "/apps/enabled_enterprise_apps_count" \in written <=>
              ~Missed("service_principals")
         /\ \A f \in {SuperAdminCount, PrivilegedCount, "/policy/mfa_required",
                      "/policy/legacy_auth_blocked"} :
              f \in written <=> ~HasGap(f)
         /\ HasGap(SuperAdminCount) \/ HasGap(PrivilegedCount) =>
              \/ Missed("users") \/ Missed("role_assignments") \/ tenant.groupHeld
         /\ Missed("users") => SuperAdminCount \notin written
         /\ "Users.disabledCount" \in written <=> ~Missed("users")
         /\ "Users.inactiveCount" \in written <=> ~Missed("sign_in_activity")
         /\ "Posture.mfaRegisteredCount" \in written <=>
              ~Missed("users") /\ ~Missed("registrations")
         /\ Denominator \in written <=> ~Missed("users") /\ ~Missed("registrations")
         /\ "Policy.mfaRequiredUserCount" \in written <=>
              ~Missed("users") /\ ~HasGap(Coverage)
         /\ "PrivilegedAccess.mfaRegisteredCount" \in written <=>
              /\ ~Missed("users") /\ ~Missed("role_assignments")
              /\ ~Missed("registrations") /\ ~tenant.groupHeld
<1> DEFINE whole == {MembersCount, "/users/total_count",
                     "/apps/enabled_enterprise_apps_count", SuperAdminCount,
                     PrivilegedCount, "/policy/mfa_required",
                     "/policy/legacy_auth_blocked"}
<1>1. ASSUME NEW f \in whole
      PROVE  f \in written <=> ~HasGap(f)
  <2>1. f \in Fields \ InternalFields
    BY DEF Fields, UserFields, AppFields, PrivilegedFields, PrivilegedCounts,
           ConditionalAccessFields, MembersCount, PrivilegedCount, InternalFields,
           DirectoryActivityFields, SignInMonitoringFields, RiskySignIns,
           AppliedPolicyFields, SuperAdminCount
  <2>2. ~EmptyPopulation(f)
    BY DEF EmptyPopulation, RegistrationFields, MembersCount, SuperAdminCount,
           PrivilegedCount, Coverage, InactivePrivileged, PrivilegedMFAFields
  <2> QED
    BY <2>1, <2>2, FieldsAtTheEnd
<1>2. /\ MembersCount \in UserFields /\ "/users/total_count" \in UserFields
      /\ "/apps/enabled_enterprise_apps_count" \in AppFields
      /\ PrivilegedCount \in PrivilegedCounts
  BY DEF MembersCount, UserFields, AppFields, PrivilegedCount, PrivilegedCounts
<1>3. /\ Turn[pc] > 3 /\ Turn[pc] > 5 /\ Turn[pc] > 6
  BY Turns
<1>4. /\ "Users.disabledCount" \in written <=> ~Missed("users")
      /\ "Users.inactiveCount" \in written <=> ~Missed("sign_in_activity")
      /\ "Posture.mfaRegisteredCount" \in written <=>
           ~Missed("users") /\ ~Missed("registrations")
      /\ Denominator \in written <=> ~Missed("users") /\ ~Missed("registrations")
      /\ "Policy.mfaRequiredUserCount" \in written <=>
           ~Missed("users") /\ ~HasGap(Coverage)
      /\ "PrivilegedAccess.mfaRegisteredCount" \in written <=>
           /\ ~Missed("users") /\ ~Missed("role_assignments")
           /\ ~Missed("registrations") /\ ~tenant.groupHeld
  BY <1>3 DEF EntraInv, CountsFollowTheReads, ListedAreCounted
<1>5. Missed("users") => SuperAdminCount \notin written
  <2>1. /\ SuperAdminCount \in Fields /\ SuperAdminCount # Coverage
    BY DEF Fields, PrivilegedFields, SuperAdminCount, Coverage
  <2>2. "users" \in Sources(SuperAdminCount)
    BY <2>1, SourcesOf
  <2> QED
    BY <2>1, <2>2 DEF EntraInv, CausesInv, ValuesInv, NoValueFromAFailedRead, Missed
<1> HIDE DEF MembersCount, PrivilegedCount
<1> QED
  BY <1>1, <1>2, <1>4, <1>5, GapsAtTheEnd

-----------------------------------------------------------------------------
(* Each normalized value, block by block: where it is written its Entra    *)
(* values are, where it is null a population is empty, and where it is     *)
(* absent one of its Entra values has a gap, or there is none to have.     *)
From(f) == {idpPostureSources[f][i] : i \in DOMAIN idpPostureSources[f]}

RegistrationPcts == {"/user_security/mfa_coverage_pct",
                     "/user_security/mfa_phishing_resistant_pct"}

NoneListed == /\ Read(MembersCount) /\ tenant.members > 0
              /\ Read(Denominator) /\ tenant.listed = 0

FieldRests(f, v) ==
  /\ v \in {"value", "null", "absent"}
  /\ v = "value" =>
       \A s \in From(f) : /\ ~HasGap(s)
                          /\ s \in written \/ (f \in CountFields /\ EmptyPopulation(s))
  /\ v = "null" => Population(f)[1] \in written /\ Population(f)[2] = 0
  /\ v = "absent" => \/ f \in CountFields /\ ~audit
                     \/ f \in RegistrationPcts /\ NoneListed
                     \/ \E s \in From(f) : HasGap(s)
  /\ NoneListed /\ f \in RegistrationPcts =>
       v = "absent" /\ \A s \in From(f) : ~HasGap(s)

LEMMA OneSource ==
  ASSUME NEW f, NEW a, idpPostureSources[f] = <<a>>
  PROVE  From(f) = {a}
<1>1. DOMAIN <<a>> = {1} /\ <<a>>[1] = a
  OBVIOUS
<1> QED
  BY <1>1 DEF From

LEMMA TwoSources ==
  ASSUME NEW f, NEW a, NEW b, idpPostureSources[f] = <<a, b>>
  PROVE  From(f) = {a, b}
<1>1. DOMAIN <<a, b>> = {1, 2} /\ <<a, b>>[1] = a /\ <<a, b>>[2] = b
  OBVIOUS
<1> QED
  BY <1>1 DEF From

(* What each value is taken from, and what it is a share of.               *)
LEMMA SourcesOfPosture ==
  ASSUME NEW f \in MappedFields
  PROVE  /\ f \in {"/user_security/users_present", "/user_security/user_count"} =>
              idpPostureSources[f] = <<MembersCount>>
         /\ f = "/user_security/mfa_coverage_pct" =>
              idpPostureSources[f] = <<"/posture/mfa_coverage">>
         /\ f = "/user_security/mfa_phishing_resistant_pct" =>
              idpPostureSources[f] = <<"/posture/mfa_phishing_resistant">>
         /\ f = "/user_security/inactive_pct" =>
              idpPostureSources[f] = <<MembersCount, "/users/inactive_pct">>
         /\ f \in {"/app_security/apps_present", "/app_security/app_count"} =>
              idpPostureSources[f] = <<"/apps/enabled_enterprise_apps_count">>
         /\ f \in {"/app_security/sso_app_count", "/app_security/sso_coverage_pct"} =>
              idpPostureSources[f] = <<"/posture/sso_coverage">>
         /\ f \in {"/privileged_access/privileged_users_present", PrivilegedCount} =>
              idpPostureSources[f] = <<PrivilegedCount>>
         /\ f = SuperAdminCount => idpPostureSources[f] = <<SuperAdminCount>>
         /\ f \in {"/privileged_access/privileged_mfa_user_count", MFAPct} =>
              idpPostureSources[f] = <<MFAPct>>
         /\ f \in {"/privileged_access/privileged_phishing_resistant_user_count",
                    PhishingPct} => idpPostureSources[f] = <<PhishingPct>>
         /\ f \in {"/lifecycle/accounts_present", "/lifecycle/account_count"} =>
              idpPostureSources[f] = <<"/users/total_count">>
         /\ f \in {"/lifecycle/suspended_account_count", "/lifecycle/suspended_pct"} =>
              idpPostureSources[f] = <<"/users/disabled_pct">>
         /\ f \in {"/policy/mfa_required_user_count", Coverage} =>
              idpPostureSources[f] = <<MembersCount, Coverage>>
         /\ f \in {"/policy/mfa_required", "/policy/legacy_auth_blocked"} =>
              idpPostureSources[f] = <<f>>
BY DEF idpPostureSources, MembersCount, PrivilegedCount, SuperAdminCount, MFAPct,
       PhishingPct, Coverage

LEMMA PopulationsOfPosture ==
  ASSUME NEW f
  PROVE  /\ f \in RegistrationPcts \cup {Coverage} =>
              Population(f) = <<MembersCount, tenant.members>>
         /\ f = "/user_security/inactive_pct" =>
              Population(f) = <<"Users.inactiveCount", tenant.active>>
         /\ f \in {MFAPct, PhishingPct} =>
              Population(f) = <<PrivilegedCount, tenant.privileged>>
         /\ f \in {"/lifecycle/suspended_pct", "/lifecycle/archived_pct"} =>
              Population(f) = <<"/users/total_count", tenant.users>>
         /\ f \in {"/app_security/sso_coverage_pct",
                    "/app_security/provisioning_enabled_pct",
                    "/app_security/deprovisioning_enabled_pct"} =>
              Population(f) = <<"/apps/enabled_enterprise_apps_count", tenant.apps>>
BY DEF Population, RegistrationPcts, Coverage, MFAPct, PhishingPct

LEMMA UserSecurityRests ==
  ASSUME EntraInv, pc = "collected", NEW f \in UserSecurityFields
  PROVE  FieldRests(f, UserSecurity(f))
<1>1. tenant.members \in Nat /\ tenant.listed \in Nat /\ tenant.active \in Nat
  BY TenantSizes DEF EntraInv, CausesInv, ValuesInv, IInv, TenantFacts
<1> f \in MappedFields
  BY DEF MappedFields
<1>2. CASE f \in {"/user_security/users_present", "/user_security/user_count"}
  <2>1. idpPostureSources[f] = <<MembersCount>>
    BY <1>2, SourcesOfPosture
  <2>2. From(f) = {MembersCount}
    BY <2>1, OneSource
  <2>3. MembersCount \in written <=> ~HasGap(MembersCount)
    BY ValuesAtTheEnd, GapsAtTheEnd DEF MembersCount, UserFields
  <2>4. /\ f \notin RegistrationPcts
        /\ f = "/user_security/user_count" <=> f \in CountFields
    BY <1>2 DEF RegistrationPcts, CountFields, PrivilegedCount, SuperAdminCount
  <2>5. UserSecurity(f) = IF f = "/user_security/user_count" THEN atAudit(Read(MembersCount))
                          ELSE present(Read(MembersCount))
    BY <1>2 DEF UserSecurity
  <2> QED
    BY <2>2, <2>3, <2>4, <2>5 DEF FieldRests, atAudit, present, ValueIf, Read
<1>3. CASE f = "/user_security/inactive_pct"
  <2>1. idpPostureSources[f] = <<MembersCount, "/users/inactive_pct">>
    BY <1>3, SourcesOfPosture
  <2>2. From(f) = {MembersCount, "/users/inactive_pct"}
    BY <2>1, TwoSources
  <2>3. MembersCount \in written <=> ~HasGap(MembersCount)
    BY ValuesAtTheEnd, GapsAtTheEnd DEF MembersCount, UserFields
  <2>4. /\ Read("Users.inactiveCount") <=> ~HasGap("/users/inactive_pct")
        /\ Read("Users.inactiveCount") /\ tenant.active # 0 =>
             "/users/inactive_pct" \in written
    <3>1. /\ "/users/inactive_pct" \in SignInActivityFields
          /\ "/users/inactive_pct" \in Fields \ InternalFields
      BY DEF SignInActivityFields, Fields, InternalFields, DirectoryActivityFields,
             SignInMonitoringFields, RiskySignIns, AppliedPolicyFields
    <3>2. EmptyPopulation("/users/inactive_pct") => tenant.active = 0
      BY DEF EmptyPopulation, RegistrationFields, Coverage, InactivePrivileged,
             PrivilegedMFAFields
    <3> QED
      BY <3>1, <3>2, FieldsAtTheEnd, GapsAtTheEnd, ValuesAtTheEnd DEF Read
  <2>5. f \notin RegistrationPcts
    BY <1>3 DEF RegistrationPcts
  <2>6. Population(f) = <<"Users.inactiveCount", tenant.active>>
    BY <1>3, PopulationsOfPosture
  <2>7. UserSecurity(f) = IF Read(MembersCount)
                          THEN share(Read("Users.inactiveCount"),
                                     Read("Users.inactiveCount"), tenant.active)
                          ELSE "absent"
    BY <1>3 DEF UserSecurity
  <2> QED
    BY <2>2, <2>3, <2>4, <2>5, <2>6, <2>7 DEF FieldRests, share, ValueIf, Read
<1>4. CASE f \in RegistrationPcts
  <2> DEFINE s == IF f = "/user_security/mfa_coverage_pct" THEN "/posture/mfa_coverage"
                  ELSE "/posture/mfa_phishing_resistant"
  <2>1. idpPostureSources[f] = <<s>>
    BY <1>4, SourcesOfPosture DEF RegistrationPcts
  <2>2. From(f) = {s}
    BY <2>1, OneSource
  <2>3. s \in RegistrationFields /\ s \in Fields \ InternalFields
    BY DEF RegistrationFields, Fields, InternalFields, DirectoryActivityFields,
           SignInMonitoringFields, RiskySignIns, AppliedPolicyFields
  <2>4. EmptyPopulation(s) => tenant.listed = 0
    BY DEF EmptyPopulation, Coverage, InactivePrivileged, PrivilegedMFAFields
  <2>5. /\ Read("Posture.mfaRegisteredCount") <=> ~HasGap(s)
        /\ Read(Denominator) <=> ~HasGap(s)
        /\ ~HasGap(s) => Read(MembersCount)
        /\ ~HasGap(s) /\ tenant.listed # 0 => s \in written
    BY <2>3, <2>4, FieldsAtTheEnd, GapsAtTheEnd, ValuesAtTheEnd DEF Read
  <2>6. Population(f) = <<MembersCount, tenant.members>>
    BY <1>4, PopulationsOfPosture
  <2>7. UserSecurity(f) = IF Read(MembersCount)
                          THEN registrationShare(Read("Posture.mfaRegisteredCount"),
                                                 Read(Denominator))
                          ELSE "absent"
    BY <1>4 DEF UserSecurity, RegistrationPcts, Denominator
  <2> HIDE DEF s
  <2>8. Read(MembersCount) \/ HasGap(s)
    BY <2>5
  <2> QED
    BY <1>1, <1>4, <2>2, <2>5, <2>6, <2>7, <2>8
       DEF FieldRests, registrationShare, share, ValueIf, Read, NoneListed
<1> QED
  BY <1>2, <1>3, <1>4 DEF UserSecurityFields, RegistrationPcts

LEMMA AppSecurityRests ==
  ASSUME EntraInv, pc = "collected", NEW f \in AppSecurityFields
  PROVE  FieldRests(f, AppSecurity(f))
<1> f \in MappedFields
  BY DEF MappedFields
<1>1. tenant.apps \in Nat
  BY TenantSizes DEF EntraInv, CausesInv, ValuesInv, IInv, TenantFacts
<1>2. f \notin RegistrationPcts
  BY DEF AppSecurityFields, RegistrationPcts
<1>3. /\ appsRead <=> ~HasGap("/apps/enabled_enterprise_apps_count")
      /\ appsRead <=> "/apps/enabled_enterprise_apps_count" \in written
      /\ appsRead <=> ~HasGap("/posture/sso_coverage")
      /\ appsRead => "/posture/sso_coverage" \in written
                       \/ (EmptyPopulation("/posture/sso_coverage") /\ tenant.apps = 0)
  <2>1. /\ "/posture/sso_coverage" \in AppFields
        /\ "/apps/enabled_enterprise_apps_count" \in AppFields
        /\ "/posture/sso_coverage" \in Fields \ InternalFields
    BY DEF AppFields, Fields, InternalFields, DirectoryActivityFields,
           SignInMonitoringFields, RiskySignIns, AppliedPolicyFields
  <2>2. EmptyPopulation("/posture/sso_coverage") => tenant.apps = 0
    BY DEF EmptyPopulation, RegistrationFields, Coverage, InactivePrivileged,
           PrivilegedMFAFields
  <2> QED
    BY <2>1, <2>2, FieldsAtTheEnd, GapsAtTheEnd, ValuesAtTheEnd DEF appsRead, Read
<1>4. CASE f \in {"/app_security/apps_present", "/app_security/app_count"}
  <2>1. From(f) = {"/apps/enabled_enterprise_apps_count"}
    BY <1>4, SourcesOfPosture, OneSource
  <2>2. f = "/app_security/app_count" => f \in CountFields
    BY DEF CountFields
  <2>3. AppSecurity(f) = IF f = "/app_security/app_count" THEN atAudit(appsRead)
                         ELSE present(appsRead)
    BY <1>4 DEF AppSecurity
  <2> QED
    BY <1>2, <1>3, <2>1, <2>2, <2>3 DEF FieldRests, atAudit, present, ValueIf
<1>5. CASE f \in {"/app_security/sso_app_count", "/app_security/sso_coverage_pct"}
  <2>1. From(f) = {"/posture/sso_coverage"}
    BY <1>5, SourcesOfPosture, OneSource
  <2>2. f = "/app_security/sso_app_count" => f \in CountFields
    BY DEF CountFields
  <2>3. f = "/app_security/sso_app_count" \/
          Population(f) = <<"/apps/enabled_enterprise_apps_count", tenant.apps>>
    BY <1>5, PopulationsOfPosture
  <2>4. AppSecurity(f) = IF f = "/app_security/sso_app_count" THEN atAudit(appsRead)
                         ELSE share(appsRead, appsRead, tenant.apps)
    BY <1>5 DEF AppSecurity
  <2> QED
    BY <1>2, <1>3, <2>1, <2>2, <2>3, <2>4 DEF FieldRests, atAudit, share, ValueIf
<1> QED
  BY <1>4, <1>5 DEF AppSecurityFields

LEMMA PrivilegedAccessRests ==
  ASSUME EntraInv, pc = "collected", NEW f \in IDPPrivilegedFields
  PROVE  FieldRests(f, PrivilegedAccess(f))
<1> f \in MappedFields
  BY DEF MappedFields
<1> DEFINE holders == Read("PrivilegedAccess.mfaRegisteredCount")
<1>1. tenant.privileged \in Nat
  BY TenantSizes DEF EntraInv, CausesInv, ValuesInv, IInv, TenantFacts
<1>2. f \notin RegistrationPcts
  BY DEF IDPPrivilegedFields, RegistrationPcts, PrivilegedCount, SuperAdminCount,
         MFAPct, PhishingPct
<1>3. ASSUME NEW pct \in {MFAPct, PhishingPct}
      PROVE  /\ holders <=> ~HasGap(pct)
             /\ holders => Read(PrivilegedCount)
             /\ holders => pct \in written
                             \/ (EmptyPopulation(pct) /\ tenant.privileged = 0)
  <2>1. /\ pct \in PrivilegedMFAFields /\ PrivilegedCount \in PrivilegedCounts
        /\ pct \in Fields \ InternalFields
    BY DEF Fields, PrivilegedFields, PrivilegedMFAFields, InternalFields,
           DirectoryActivityFields, SignInMonitoringFields, RiskySignIns,
           AppliedPolicyFields, MFAPct, PhishingPct, PrivilegedCount, PrivilegedCounts
  <2>2. EmptyPopulation(pct) => tenant.privileged = 0
    BY DEF EmptyPopulation, RegistrationFields, Coverage, MFAPct, PhishingPct
  <2> QED
    BY <2>1, <2>2, FieldsAtTheEnd, GapsAtTheEnd, ValuesAtTheEnd DEF Read
<1>4. /\ f \in {PrivilegedCount, SuperAdminCount,
                "/privileged_access/privileged_mfa_user_count",
                "/privileged_access/privileged_phishing_resistant_user_count"}
           => f \in CountFields
      /\ MFAPct # PrivilegedCount /\ MFAPct # SuperAdminCount
      /\ PhishingPct # PrivilegedCount /\ PhishingPct # SuperAdminCount
      /\ "/privileged_access/privileged_users_present" \notin
           {PrivilegedCount, SuperAdminCount, MFAPct, PhishingPct}
      /\ {"/privileged_access/privileged_mfa_user_count",
          "/privileged_access/privileged_phishing_resistant_user_count"}
           \cap {PrivilegedCount, SuperAdminCount, MFAPct, PhishingPct} = {}
  BY DEF CountFields, PrivilegedCount, SuperAdminCount, MFAPct, PhishingPct
<1>5. CASE f = "/privileged_access/privileged_users_present"
  <2>1. From(f) = {PrivilegedCount}
    BY <1>5, SourcesOfPosture, OneSource
  <2>2. PrivilegedAccess(f) = present(Read(PrivilegedCount))
    BY <1>4, <1>5 DEF PrivilegedAccess
  <2> QED
    BY <1>2, <2>1, <2>2, ValuesAtTheEnd DEF FieldRests, present, ValueIf, Read
<1>6. CASE f \in {PrivilegedCount, SuperAdminCount}
  <2>1. From(f) = {f}
    BY <1>6, SourcesOfPosture, OneSource
  <2>2. PrivilegedAccess(f) = atAudit(Read(f))
    BY <1>4, <1>6 DEF PrivilegedAccess
  <2> QED
    BY <1>2, <1>4, <1>6, <2>1, <2>2, ValuesAtTheEnd DEF FieldRests, atAudit, ValueIf, Read
<1>7. CASE f \in {MFAPct, PhishingPct}
  <2>1. From(f) = {f}
    BY <1>7, SourcesOfPosture, OneSource
  <2>2. PrivilegedAccess(f) = share(holders, Read(PrivilegedCount), tenant.privileged)
    BY <1>4, <1>7 DEF PrivilegedAccess
  <2>3. Population(f) = <<PrivilegedCount, tenant.privileged>>
    BY <1>7, PopulationsOfPosture
  <2> HIDE DEF holders
  <2> QED
    BY <1>2, <1>3, <1>7, <2>1, <2>2, <2>3 DEF FieldRests, share, ValueIf, Read
<1>8. CASE f \in {"/privileged_access/privileged_mfa_user_count",
                  "/privileged_access/privileged_phishing_resistant_user_count"}
  <2> DEFINE pct == IF f = "/privileged_access/privileged_mfa_user_count" THEN MFAPct
                    ELSE PhishingPct
  <2>1. From(f) = {pct} /\ pct \in {MFAPct, PhishingPct}
    BY <1>8, SourcesOfPosture, OneSource
  <2>2. PrivilegedAccess(f) = atAudit(holders)
    BY <1>4, <1>8 DEF PrivilegedAccess
  <2> HIDE DEF holders, pct
  <2> QED
    BY <1>2, <1>3, <1>4, <1>8, <2>1, <2>2 DEF FieldRests, atAudit, ValueIf
<1> QED
  BY <1>5, <1>6, <1>7, <1>8 DEF IDPPrivilegedFields

LEMMA LifecycleRests ==
  ASSUME EntraInv, pc = "collected", NEW f \in LifecycleFields
  PROVE  FieldRests(f, Lifecycle(f))
<1> f \in MappedFields
  BY DEF MappedFields
<1>1. tenant.users \in Nat
  BY TenantSizes DEF EntraInv, CausesInv, ValuesInv, IInv, TenantFacts
<1>2. f \notin RegistrationPcts
  BY DEF LifecycleFields, RegistrationPcts
<1>3. /\ accountsRead <=> ~HasGap("/users/total_count")
      /\ accountsRead <=> "/users/total_count" \in written
      /\ accountsRead <=> ~HasGap("/users/disabled_pct")
      /\ accountsRead <=> Read("Users.disabledCount")
      /\ accountsRead => "/users/disabled_pct" \in written
                           \/ (EmptyPopulation("/users/disabled_pct") /\ tenant.users = 0)
  <2>1. /\ "/users/disabled_pct" \in UserFields /\ "/users/total_count" \in UserFields
        /\ "/users/disabled_pct" \in Fields \ InternalFields
    BY DEF UserFields, Fields, InternalFields, DirectoryActivityFields,
           SignInMonitoringFields, RiskySignIns, AppliedPolicyFields
  <2>2. EmptyPopulation("/users/disabled_pct") => tenant.users = 0
    BY DEF EmptyPopulation, RegistrationFields, Coverage, InactivePrivileged,
           PrivilegedMFAFields
  <2> QED
    BY <2>1, <2>2, FieldsAtTheEnd, GapsAtTheEnd, ValuesAtTheEnd DEF accountsRead, Read
<1>4. /\ f = "/lifecycle/account_count" => f \in CountFields
      /\ f = "/lifecycle/suspended_account_count" => f \in CountFields
  BY DEF CountFields
<1>5. CASE f \in {"/lifecycle/accounts_present", "/lifecycle/account_count"}
  <2>1. From(f) = {"/users/total_count"}
    BY <1>5, SourcesOfPosture, OneSource
  <2>2. Lifecycle(f) = IF f = "/lifecycle/account_count" THEN atAudit(accountsRead)
                       ELSE present(accountsRead)
    BY <1>5 DEF Lifecycle
  <2> QED
    BY <1>2, <1>3, <1>4, <2>1, <2>2 DEF FieldRests, atAudit, present, ValueIf
<1>6. CASE f = "/lifecycle/suspended_account_count"
  <2>1. From(f) = {"/users/disabled_pct"}
    BY <1>6, SourcesOfPosture, OneSource
  <2>2. Lifecycle(f) = atAudit(Read("Users.disabledCount"))
    BY <1>6 DEF Lifecycle
  <2> QED
    BY <1>2, <1>3, <1>4, <1>6, <2>1, <2>2 DEF FieldRests, atAudit, ValueIf
<1>7. CASE f = "/lifecycle/suspended_pct"
  <2>1. From(f) = {"/users/disabled_pct"}
    BY <1>7, SourcesOfPosture, OneSource
  <2>2. Lifecycle(f) = share(Read("Users.disabledCount"), accountsRead, tenant.users)
    BY <1>7 DEF Lifecycle
  <2>3. Population(f) = <<"/users/total_count", tenant.users>>
    BY <1>7, PopulationsOfPosture
  <2> QED
    BY <1>2, <1>3, <2>1, <2>2, <2>3 DEF FieldRests, share, ValueIf
<1> QED
  BY <1>5, <1>6, <1>7 DEF LifecycleFields

LEMMA PolicyRests ==
  ASSUME EntraInv, pc = "collected", NEW f \in PolicyFields
  PROVE  FieldRests(f, PolicyValue(f))
<1> f \in MappedFields
  BY DEF MappedFields
<1>1. tenant.members \in Nat
  BY TenantSizes DEF EntraInv, CausesInv, ValuesInv, IInv, TenantFacts
<1>2. f \notin RegistrationPcts
  BY DEF PolicyFields, RegistrationPcts
<1>3. MembersCount \in written <=> ~HasGap(MembersCount)
  BY ValuesAtTheEnd, GapsAtTheEnd DEF MembersCount, UserFields
<1>4. CASE f \in {"/policy/mfa_required", "/policy/legacy_auth_blocked"}
  <2>1. From(f) = {f}
    BY <1>4, SourcesOfPosture, OneSource
  <2>2. PolicyValue(f) = ValueIf(Read(f))
    BY <1>4 DEF PolicyValue, Coverage
  <2> QED
    BY <1>2, <1>4, <2>1, <2>2, ValuesAtTheEnd DEF FieldRests, ValueIf, Read
<1>5. CASE f \in {"/policy/mfa_required_user_count", Coverage}
  <2>1. From(f) = {MembersCount, Coverage}
    BY <1>5, SourcesOfPosture, TwoSources
  <2>2. /\ Coverage \in Fields \ InternalFields
        /\ EmptyPopulation(Coverage) => tenant.members = 0
    BY CoverageIsField
       DEF InternalFields, DirectoryActivityFields, SignInMonitoringFields, RiskySignIns,
           AppliedPolicyFields, Coverage, EmptyPopulation, RegistrationFields,
           InactivePrivileged, PrivilegedMFAFields
  <2>3. Coverage \in written \/ HasGap(Coverage)
          \/ (EmptyPopulation(Coverage) /\ tenant.members = 0)
    BY <2>2, FieldsAtTheEnd
  <2>4. Read("Policy.mfaRequiredUserCount") <=> ~HasGap(MembersCount) /\ ~HasGap(Coverage)
    BY <1>3, ValuesAtTheEnd DEF Read
  <2>5. CASE f = "/policy/mfa_required_user_count"
    <3>1. PolicyValue(f) =
            atAudit(Read(MembersCount) /\ Read("Policy.mfaRequiredUserCount"))
      BY <2>5 DEF PolicyValue, Coverage
    <3>2. f \in CountFields
      BY <2>5 DEF CountFields
    <3> QED
      BY <1>2, <1>3, <2>1, <2>3, <2>4, <3>1, <3>2 DEF FieldRests, atAudit, ValueIf, Read
  <2>6. CASE f = Coverage
    <3>1. PolicyValue(f) =
            IF Read(MembersCount)
            THEN share(Read("Policy.mfaRequiredUserCount"), Read(MembersCount),
                       tenant.members)
            ELSE "absent"
      BY <2>6 DEF PolicyValue, Coverage
    <3>2. Population(f) = <<MembersCount, tenant.members>>
      BY <2>6, PopulationsOfPosture
    <3> QED
      BY <1>2, <1>3, <2>1, <2>3, <2>4, <3>1, <3>2 DEF FieldRests, share, ValueIf, Read
  <2> QED
    BY <1>5, <2>5, <2>6
<1> QED
  BY <1>4, <1>5 DEF PolicyFields, Coverage

LEMMA PostureRests ==
  ASSUME EntraInv, pc = "collected", NEW f \in MappedFields
  PROVE  FieldRests(f, ToIDPPosture[f])
<1>1. f \in IDPFields
  BY DEF IDPFields
<1>2. /\ f \in UserSecurityFields => ToIDPPosture[f] = UserSecurity(f)
      /\ f \in AppSecurityFields => ToIDPPosture[f] = AppSecurity(f)
      /\ f \in IDPPrivilegedFields => ToIDPPosture[f] = PrivilegedAccess(f)
      /\ f \in LifecycleFields => ToIDPPosture[f] = Lifecycle(f)
      /\ f \in PolicyFields => ToIDPPosture[f] = PolicyValue(f)
  BY <1>1 DEF ToIDPPosture, UserSecurityFields, AppSecurityFields, IDPPrivilegedFields,
              LifecycleFields, PolicyFields, UnmeasuredFields, PrivilegedCount,
              SuperAdminCount, MFAPct, PhishingPct
<1> QED
  BY <1>2, UserSecurityRests, AppSecurityRests, PrivilegedAccessRests, LifecycleRests,
     PolicyRests DEF MappedFields

LEMMA UnmeasuredRest ==
  ASSUME EntraInv, pc = "collected", NEW f \in UnmeasuredFields
  PROVE  /\ ToIDPPosture[f] \in {"null", "absent"}
         /\ ToIDPPosture[f] = "null" => Population(f)[1] \in written /\ Population(f)[2] = 0
<1>1. f \in IDPFields
  BY DEF IDPFields
<1>2. CASE f = "/lifecycle/archived_pct"
  <2>1. ToIDPPosture[f] = Lifecycle(f)
    BY <1>1, <1>2
       DEF ToIDPPosture, UserSecurityFields, AppSecurityFields, IDPPrivilegedFields,
           UnmeasuredFields, PrivilegedCount, SuperAdminCount, MFAPct, PhishingPct
  <2>2. Lifecycle(f) = nullWhenEmpty(accountsRead, tenant.users)
    BY <1>2 DEF Lifecycle
  <2>3. Population(f) = <<"/users/total_count", tenant.users>>
    BY <1>2, PopulationsOfPosture
  <2> QED
    BY <2>1, <2>2, <2>3 DEF nullWhenEmpty, accountsRead, Read
<1>3. CASE f \in {"/app_security/provisioning_enabled_pct",
                  "/app_security/deprovisioning_enabled_pct"}
  <2>1. ToIDPPosture[f] = AppSecurity(f)
    BY <1>1, <1>3
       DEF ToIDPPosture, UserSecurityFields, AppSecurityFields, IDPPrivilegedFields,
           LifecycleFields, UnmeasuredFields, PrivilegedCount, SuperAdminCount, MFAPct,
           PhishingPct
  <2>2. AppSecurity(f) = nullWhenEmpty(appsRead, tenant.apps)
    BY <1>3 DEF AppSecurity
  <2>3. Population(f) = <<"/apps/enabled_enterprise_apps_count", tenant.apps>>
    BY <1>3, PopulationsOfPosture
  <2> QED
    BY <2>1, <2>2, <2>3 DEF nullWhenEmpty, appsRead, Read
<1> QED
  BY <1>2, <1>3 DEF UnmeasuredFields

-----------------------------------------------------------------------------
(* The gap of a value is that of one of its sources, when one has a gap.   *)
LEMMA GapSourceIsSource ==
  ASSUME NEW f \in MappedFields
  PROVE  /\ GapSource(f) \in From(f)
         /\ (\E s \in From(f) : HasGap(s)) => HasGap(GapSource(f))
         /\ \A s : s \in From(f) <=>
              \E i \in DOMAIN idpPostureSources[f] : s = idpPostureSources[f][i]
<1>1. \A s : s \in From(f) <=>
        \E i \in DOMAIN idpPostureSources[f] : s = idpPostureSources[f][i]
  BY DEF From
<1>2. \/ \E a : idpPostureSources[f] = <<a>>
      \/ \E a, b : idpPostureSources[f] = <<a, b>>
  BY SourcesOfPosture
     DEF MappedFields, UserSecurityFields, AppSecurityFields, IDPPrivilegedFields,
         LifecycleFields, PolicyFields, Coverage
<1>3. CASE \E a : idpPostureSources[f] = <<a>>
  <2>1. PICK a : idpPostureSources[f] = <<a>>
    BY <1>3
  <2>2. From(f) = {a}
    BY <2>1, OneSource
  <2>3. GapSource(f) = a
    BY <2>1 DEF GapSource
  <2> QED
    BY <1>1, <2>2, <2>3
<1>4. CASE \E a, b : idpPostureSources[f] = <<a, b>>
  <2>1. PICK a, b : idpPostureSources[f] = <<a, b>>
    BY <1>4
  <2>2. From(f) = {a, b}
    BY <2>1, TwoSources
  <2>3. GapSource(f) = IF HasGap(a) THEN a ELSE b
    BY <2>1 DEF GapSource
  <2> QED
    BY <1>1, <2>2, <2>3
<1> QED
  BY <1>2, <1>3, <1>4

LEMMA Mirrored ==
  ASSUME NEW g
  PROVE  g \in mirrorIDPPostureGaps <=>
           \E f \in MappedFields : \E h \in gaps :
             h.at = GapSource(f) /\ g = [at |-> f, why |-> h.why]
BY DEF mirrorIDPPostureGaps

LEMMA Marked ==
  ASSUME NEW g
  PROVE  g \in markUnlistedMembers <=>
           /\ NoneListed
           /\ \E f \in RegistrationPcts :
                g = [at |-> f, why |-> failed("registrations", "vendor_error")]
<1>1. failed("registrations", "vendor_error") # NoMiss
  BY DEF failed, NoMiss
<1> QED
  BY <1>1 DEF markUnlistedMembers, NoneListed, RegistrationPcts, leaveOut, Denominator, Read

LEMMA Unsupported ==
  ASSUME NEW g \in markIDPPostureUnsupported
  PROVE  /\ g.at \notin MappedFields
         /\ g = [at |-> g.at, why |-> [code |-> "unsupported", about |-> "entra"]]
<1>1. [code |-> "unsupported", about |-> "entra"] # NoMiss
  BY DEF NoMiss
<1>2. PICK f \in UnsupportedPcts \cup UnsupportedCounts :
        g = [at |-> f, why |-> [code |-> "unsupported", about |-> "entra"]]
  BY <1>1 DEF markIDPPostureUnsupported, leaveOut
<1>3. (UnsupportedPcts \cup UnsupportedCounts) \cap MappedFields = {}
  BY DEF UnsupportedPcts, UnsupportedCounts, MappedFields, UserSecurityFields,
         AppSecurityFields, IDPPrivilegedFields, LifecycleFields, PolicyFields,
         PrivilegedCount, SuperAdminCount, MFAPct, PhishingPct
<1>4. g.at = f
  BY <1>2
<1> QED
  BY <1>2, <1>3, <1>4

-----------------------------------------------------------------------------
(* What is emitted is what the collected artifact gives.                   *)
PostureInv ==
  /\ emitted \in {"pending", "present", "nil"}
  /\ emitted # "pending" => pc = "collected"
  /\ emitted # "present" => posture = [f \in IDPFields |-> "absent"] /\ idpGaps = {}
  /\ emitted = "present" =>
       /\ posture = ToIDPPosture
       /\ idpGaps = markUnlistedMembers \cup markIDPPostureUnsupported
                      \cup mirrorIDPPostureGaps
  /\ emitted = "nil" => PostureIsNil

IDPInv == EntraInv /\ PostureInv

LEMMA InitIDPInv == IDPInit => IDPInv
BY InitEntraInv DEF IDPInit, IDPInv, PostureInv

(* The posture and its gaps are taken from the collected artifact alone.   *)
LEMMA PostureOfCollected ==
  ASSUME UNCHANGED vars
  PROVE  /\ ToIDPPosture' = ToIDPPosture
         /\ PostureIsNil' = PostureIsNil
         /\ markUnlistedMembers' = markUnlistedMembers
         /\ markIDPPostureUnsupported' = markIDPPostureUnsupported
         /\ mirrorIDPPostureGaps' = mirrorIDPPostureGaps
<1>1. ToIDPPosture' = ToIDPPosture
  BY DEF vars, ToIDPPosture, UserSecurity, AppSecurity, PrivilegedAccess, Lifecycle,
         PolicyValue, present, atAudit, ValueIf, audit, share, registrationShare,
         nullWhenEmpty, appsRead, accountsRead, Read
<1>2. PostureIsNil' = PostureIsNil
  BY <1>1 DEF vars, PostureIsNil, appsRead, Read
<1>3. /\ markUnlistedMembers' = markUnlistedMembers
      /\ markIDPPostureUnsupported' = markIDPPostureUnsupported
  BY DEF vars, markUnlistedMembers, markIDPPostureUnsupported, audit, Read
<1>4. mirrorIDPPostureGaps' = mirrorIDPPostureGaps
  BY DEF vars, mirrorIDPPostureGaps, GapSource, HasGap
<1> QED
  BY <1>1, <1>2, <1>3, <1>4

LEMMA NextIDPInv == IDPInv /\ [IDPNext]_idpVars => IDPInv'
<1> SUFFICES ASSUME IDPInv, [IDPNext]_idpVars PROVE IDPInv'
  OBVIOUS
<1>1. EntraInv'
  BY NextEntraInv DEF IDPInv, IDPNext, Collect, EmitPosture, EmitNothing, idpVars
<1>2. CASE Collect
  <2>1. PICK x \in Responses : Handle(x)
    BY <1>2 DEF Collect, Next
  <2>2. pc # "collected"
    BY <2>1, HandlerOfTurn DEF IDPInv, EntraInv, CausesInv, ValuesInv, IInv, Reads
  <2> QED
    BY <1>1, <1>2, <2>2 DEF Collect, IDPInv, PostureInv
<1>3. CASE EmitPosture
  BY <1>1, <1>3, PostureOfCollected DEF EmitPosture, IDPInv, PostureInv, vars
<1>4. CASE EmitNothing
  BY <1>1, <1>4, PostureOfCollected DEF EmitNothing, IDPInv, PostureInv, vars
<1>5. CASE UNCHANGED idpVars
  BY <1>1, <1>5, PostureOfCollected DEF idpVars, IDPInv, PostureInv, vars
<1> QED
  BY <1>2, <1>3, <1>4, <1>5 DEF IDPNext

(* A normalized value is written only when the Entra values it is taken    *)
(* from are, and is null only over a population that was counted and is    *)
(* empty, whichever of the Graph reads fail.                               *)
THEOREM PostureRestsOnTheArtifact == IDPSpec => []PostureRestsOnEntra
<1>1. ASSUME IDPInv
      PROVE  PostureRestsOnEntra
  <2> SUFFICES ASSUME NEW f \in IDPFields
               PROVE  /\ posture[f] = "value" =>
                           /\ f \in MappedFields
                           /\ \A i \in DOMAIN idpPostureSources[f] :
                                \/ idpPostureSources[f][i] \in written
                                \/ f \in CountFields
                                     /\ EmptyPopulation(idpPostureSources[f][i])
                      /\ posture[f] = "null" =>
                           Population(f)[1] \in written /\ Population(f)[2] = 0
    BY DEF PostureRestsOnEntra
  <2>1. CASE emitted # "present"
    BY <1>1, <2>1 DEF IDPInv, PostureInv
  <2>2. CASE emitted = "present" /\ f \in MappedFields
    <3>1. EntraInv /\ pc = "collected" /\ posture = ToIDPPosture
      BY <1>1, <2>2 DEF IDPInv, PostureInv
    <3>2. FieldRests(f, posture[f])
      BY <2>2, <3>1, PostureRests
    <3>3. \A s : s \in From(f) <=>
            \E i \in DOMAIN idpPostureSources[f] : s = idpPostureSources[f][i]
      BY <2>2, GapSourceIsSource
    <3> QED
      BY <2>2, <3>2, <3>3 DEF FieldRests
  <2>3. CASE emitted = "present" /\ f \in UnmeasuredFields
    <3>1. EntraInv /\ pc = "collected" /\ posture = ToIDPPosture
      BY <1>1, <2>3 DEF IDPInv, PostureInv
    <3> QED
      BY <2>3, <3>1, UnmeasuredRest
  <2> QED
    BY <2>1, <2>2, <2>3 DEF IDPFields
<1> QED
  BY <1>1, InitIDPInv, NextIDPInv, PTL DEF IDPSpec

-----------------------------------------------------------------------------
LEMMA AbsentHasGap ==
  ASSUME EntraInv, pc = "collected", NEW f \in MappedFields,
         ToIDPPosture[f] = "absent", ~(f \in CountFields /\ ~audit)
  PROVE  \E g \in markUnlistedMembers \cup markIDPPostureUnsupported
                    \cup mirrorIDPPostureGaps :
           /\ g.at = f
           /\ \/ GapOfSource(f, g)
              \/ g.why = failed("registrations", "vendor_error")
                   /\ tenant.listed = 0 /\ tenant.members > 0
<1>1. FieldRests(f, "absent")
  BY PostureRests
<1>2. CASE f \in RegistrationPcts /\ NoneListed
  <2> DEFINE g == [at |-> f, why |-> failed("registrations", "vendor_error")]
  <2>1. g \in markUnlistedMembers
    BY <1>2, Marked
  <2>2. g.at = f /\ g.why = failed("registrations", "vendor_error")
    OBVIOUS
  <2> QED
    BY <1>2, <2>1, <2>2 DEF NoneListed
<1>3. CASE \E s \in From(f) : HasGap(s)
  <2>1. PICK h \in gaps : h.at = GapSource(f)
    BY <1>3, GapSourceIsSource DEF HasGap
  <2> DEFINE g == [at |-> f, why |-> h.why]
  <2>2. g \in mirrorIDPPostureGaps
    BY <2>1, Mirrored
  <2>3. g.at = f /\ g.why = h.why
    OBVIOUS
  <2>4. \E i \in DOMAIN idpPostureSources[f] : h.at = idpPostureSources[f][i]
    BY <2>1, GapSourceIsSource
  <2>5. GapOfSource(f, g)
    BY <2>3, <2>4 DEF GapOfSource
  <2> HIDE DEF g
  <2> QED
    BY <2>2, <2>3, <2>5
<1> QED
  BY <1>1, <1>2, <1>3 DEF FieldRests

LEMMA GapsOfPosture ==
  ASSUME EntraInv, pc = "collected",
         NEW g \in markUnlistedMembers \cup markIDPPostureUnsupported
                     \cup mirrorIDPPostureGaps
  PROVE  /\ g.at \in MappedFields => ToIDPPosture[g.at] # "value"
         /\ \A h \in markUnlistedMembers \cup markIDPPostureUnsupported
                       \cup mirrorIDPPostureGaps : h.at = g.at => h = g
<1>1. ASSUME NEW n \in mirrorIDPPostureGaps
      PROVE  \E e \in gaps : /\ n.at \in MappedFields /\ e.at = GapSource(n.at)
                             /\ n = [at |-> n.at, why |-> e.why]
  BY Mirrored
<1>2. ASSUME NEW n \in markUnlistedMembers
      PROVE  /\ NoneListed /\ n.at \in RegistrationPcts /\ n.at \in MappedFields
             /\ n = [at |-> n.at, why |-> failed("registrations", "vendor_error")]
  <2>1. /\ NoneListed
        /\ \E f \in RegistrationPcts :
             n = [at |-> f, why |-> failed("registrations", "vendor_error")]
    BY Marked
  <2> QED
    BY <2>1 DEF RegistrationPcts, MappedFields, UserSecurityFields
<1>3. ASSUME NEW n \in mirrorIDPPostureGaps
      PROVE  /\ ToIDPPosture[n.at] # "value"
             /\ ~(NoneListed /\ n.at \in RegistrationPcts)
  <2>1. PICK e \in gaps : n.at \in MappedFields /\ e.at = GapSource(n.at)
    BY <1>1
  <2>2. \E s \in From(n.at) : HasGap(s)
    BY <2>1, GapSourceIsSource DEF HasGap
  <2> QED
    BY <2>1, <2>2, PostureRests DEF FieldRests
<1>4. ASSUME NEW n \in markUnlistedMembers
      PROVE  ToIDPPosture[n.at] # "value"
  BY <1>2, PostureRests DEF FieldRests
<1>5. g.at \in MappedFields => ToIDPPosture[g.at] # "value"
  BY <1>3, <1>4, Unsupported
<1>6. ASSUME NEW h \in markUnlistedMembers \cup markIDPPostureUnsupported
                         \cup mirrorIDPPostureGaps, h.at = g.at
      PROVE  h = g
  <2>1. CASE g.at \notin MappedFields
    <3>1. g \in markIDPPostureUnsupported /\ h \in markIDPPostureUnsupported
      BY <1>1, <1>2, <1>6, <2>1
    <3> QED
      BY <1>6, <3>1, Unsupported
  <2>2. CASE g.at \in MappedFields
    <3>1. /\ g \in markUnlistedMembers \cup mirrorIDPPostureGaps
          /\ h \in markUnlistedMembers \cup mirrorIDPPostureGaps
      BY <1>6, <2>2, Unsupported
    <3>2. CASE g \in markUnlistedMembers
      <4>1. h \in markUnlistedMembers
        BY <1>2, <1>3, <1>6, <3>1, <3>2
      <4> QED
        BY <1>2, <1>6, <3>2, <4>1
    <3>3. CASE g \in mirrorIDPPostureGaps
      <4>1. h \in mirrorIDPPostureGaps
        BY <1>2, <1>3, <1>6, <3>1, <3>3
      <4>2. PICK e \in gaps : e.at = GapSource(g.at) /\ g = [at |-> g.at, why |-> e.why]
        BY <1>1, <3>3
      <4>3. PICK d \in gaps : d.at = GapSource(g.at) /\ h = [at |-> g.at, why |-> d.why]
        BY <1>1, <1>6, <4>1
      <4>4. d.why = e.why
        BY <4>2, <4>3 DEF EntraInv, CausesInv, GapsNameTheirCause
      <4> QED
        BY <4>2, <4>3, <4>4
    <3> QED
      BY <3>1, <3>2, <3>3
  <2> QED
    BY <2>1, <2>2
<1> QED
  BY <1>5, <1>6

LEMMA NilHadNothing ==
  ASSUME EntraInv, pc = "collected", PostureIsNil, NEW f \in MappedFields
  PROVE  \E s \in From(f) : s \notin written
<1>1. /\ ToIDPPosture["/user_security/users_present"] = "absent"
      /\ ToIDPPosture["/policy/mfa_required"] = "absent"
      /\ ToIDPPosture["/policy/legacy_auth_blocked"] = "absent"
      /\ ToIDPPosture["/privileged_access/privileged_users_present"] = "absent"
      /\ ~appsRead
  BY DEF PostureIsNil, IDPFields, MappedFields, UserSecurityFields, PolicyFields,
         IDPPrivilegedFields
<1>2. ASSUME NEW p \in MappedFields \ CountFields, NEW s, From(p) = {s},
             ToIDPPosture[p] = "absent", p \notin RegistrationPcts
      PROVE  HasGap(s)
  BY <1>2, PostureRests DEF FieldRests
<1>3. HasGap(MembersCount) /\ HasGap("/policy/mfa_required")
      /\ HasGap("/policy/legacy_auth_blocked") /\ HasGap(PrivilegedCount)
  <2>1. {"/user_security/users_present", "/policy/mfa_required",
         "/policy/legacy_auth_blocked", "/privileged_access/privileged_users_present"}
          \subseteq (MappedFields \ CountFields) \ RegistrationPcts
    BY DEF MappedFields, UserSecurityFields, PolicyFields, IDPPrivilegedFields, CountFields,
           RegistrationPcts, PrivilegedCount, SuperAdminCount
  <2>2. /\ From("/user_security/users_present") = {MembersCount}
        /\ From("/policy/mfa_required") = {"/policy/mfa_required"}
        /\ From("/policy/legacy_auth_blocked") = {"/policy/legacy_auth_blocked"}
        /\ From("/privileged_access/privileged_users_present") = {PrivilegedCount}
    BY <2>1, SourcesOfPosture, OneSource
  <2> QED
    BY <1>1, <1>2, <2>1, <2>2
<1>4. Missed("users") /\ Missed("service_principals")
  BY <1>1, <1>3, GapsAtTheEnd, ValuesAtTheEnd DEF MembersCount, UserFields, appsRead, Read
<1>5. ASSUME NEW s \in UserFields \cup RegistrationFields \cup PrivilegedMFAFields
                         \cup AppFields
      PROVE  s \notin written
  <2>1. s \in Fields \ InternalFields
    BY DEF Fields, UserFields, RegistrationFields, PrivilegedMFAFields, AppFields,
           PrivilegedFields, InternalFields, DirectoryActivityFields,
           SignInMonitoringFields, RiskySignIns, AppliedPolicyFields
  <2>2. HasGap(s)
    BY <1>4, GapsAtTheEnd
  <2> QED
    BY <2>1, <2>2, FieldsAtTheEnd
<1>6. /\ SuperAdminCount \notin written /\ PrivilegedCount \notin written
      /\ "/policy/mfa_required" \notin written /\ "/policy/legacy_auth_blocked" \notin written
  BY <1>3, <1>4, ValuesAtTheEnd
<1>7. /\ {MembersCount, "/users/total_count", "/users/disabled_pct"} \subseteq UserFields
      /\ {"/posture/mfa_coverage", "/posture/mfa_phishing_resistant"}
           \subseteq RegistrationFields
      /\ {MFAPct, PhishingPct} \subseteq PrivilegedMFAFields
      /\ {"/apps/enabled_enterprise_apps_count", "/posture/sso_coverage"} \subseteq AppFields
  BY DEF UserFields, RegistrationFields, PrivilegedMFAFields, AppFields, MembersCount,
         MFAPct, PhishingPct
<1> DEFINE missing == UserFields \cup RegistrationFields \cup PrivilegedMFAFields
                        \cup AppFields
                        \cup {SuperAdminCount, PrivilegedCount, "/policy/mfa_required",
                              "/policy/legacy_auth_blocked"}
<1>8. \A s \in missing : s \notin written
  BY <1>5, <1>6
<1>9. \/ \E a \in missing : idpPostureSources[f] = <<a>>
      \/ \E a \in missing : \E b : idpPostureSources[f] = <<a, b>>
  <2> HIDE DEF missing
  <2>1. {MembersCount, "/users/total_count", "/users/disabled_pct", "/posture/mfa_coverage",
         "/posture/mfa_phishing_resistant", MFAPct, PhishingPct,
         "/apps/enabled_enterprise_apps_count", "/posture/sso_coverage", SuperAdminCount,
         PrivilegedCount, "/policy/mfa_required", "/policy/legacy_auth_blocked"}
           \subseteq missing
    BY <1>7 DEF missing
  <2> QED
    BY <2>1, SourcesOfPosture
       DEF MappedFields, UserSecurityFields, AppSecurityFields, IDPPrivilegedFields,
           LifecycleFields, PolicyFields, Coverage
<1> HIDE DEF missing
<1> QED
  BY <1>8, <1>9, OneSource, TwoSources

(* Each value the emitted posture leaves out has exactly one gap, the one  *)
(* of its first source with a gap or that of the members the report does   *)
(* not list; a value has none; and the artifact is nil only when nothing   *)
(* in it could have been taken from Entra's.                               *)
THEOREM AbsentValuesAreExplained == IDPSpec => []AbsentHasTheSameGap
<1>1. ASSUME IDPInv
      PROVE  AbsentHasTheSameGap
  <2>1. CASE emitted = "present"
    <3>1. /\ EntraInv /\ pc = "collected" /\ posture = ToIDPPosture
          /\ idpGaps = markUnlistedMembers \cup markIDPPostureUnsupported
                         \cup mirrorIDPPostureGaps
      BY <1>1, <2>1 DEF IDPInv, PostureInv
    <3> QED
      BY <2>1, <3>1, AbsentHasGap, GapsOfPosture DEF AbsentHasTheSameGap
  <2>2. CASE emitted = "nil"
    <3>1. EntraInv /\ pc = "collected" /\ PostureIsNil /\ idpGaps = {}
      BY <1>1, <2>2 DEF IDPInv, PostureInv
    <3>2. ASSUME NEW f \in MappedFields
          PROVE  \E i \in DOMAIN idpPostureSources[f] : idpPostureSources[f][i] \notin written
      BY <3>1, NilHadNothing DEF From
    <3> QED
      BY <2>2, <3>1, <3>2 DEF AbsentHasTheSameGap
  <2>3. CASE emitted = "pending"
    BY <1>1, <2>3 DEF IDPInv, PostureInv, AbsentHasTheSameGap
  <2> QED
    BY <1>1, <2>1, <2>2, <2>3 DEF IDPInv, PostureInv
<1> QED
  BY <1>1, InitIDPInv, NextIDPInv, PTL DEF IDPSpec
=============================================================================
