----------------------------- MODULE IDPPosture -----------------------------
(***************************************************************************)
(* The normalized identity posture, taken from the Entra artifact when its *)
(* collection is over: which values are written, null or absent, and the   *)
(* gaps that explain the absent ones.                                      *)
(***************************************************************************)
EXTENDS EntraCollect, Sequences

VARIABLES
  posture,   \* each normalized value: "absent", "null" or "value"
  emitted,   \* "pending", then whether the artifact is "present" or "nil"
  idpGaps    \* the gaps recorded at the normalized artifact's fields

idpVars == <<vars, posture, emitted, idpGaps>>

-----------------------------------------------------------------------------
(* Each normalized value, with the Entra values it is taken from.          *)
MembersCount == "/users/enabled_member_users_count"
PrivilegedCount == "/privileged_access/privileged_users_count"
MFAPct == "/privileged_access/privileged_mfa_coverage_pct"
PhishingPct == "/privileged_access/privileged_phishing_resistant_pct"

UserSecurityFields ==
  {"/user_security/users_present", "/user_security/user_count",
   "/user_security/mfa_coverage_pct", "/user_security/mfa_phishing_resistant_pct",
   "/user_security/inactive_pct"}
AppSecurityFields ==
  {"/app_security/apps_present", "/app_security/app_count",
   "/app_security/sso_app_count", "/app_security/sso_coverage_pct"}
IDPPrivilegedFields ==
  {"/privileged_access/privileged_users_present", PrivilegedCount,
   SuperAdminCount, "/privileged_access/privileged_mfa_user_count",
   "/privileged_access/privileged_phishing_resistant_user_count",
   MFAPct, PhishingPct}
LifecycleFields ==
  {"/lifecycle/accounts_present", "/lifecycle/account_count",
   "/lifecycle/suspended_account_count", "/lifecycle/suspended_pct"}
PolicyFields ==
  {"/policy/mfa_required", "/policy/mfa_required_user_count",
   "/policy/mfa_required_coverage_pct", "/policy/legacy_auth_blocked"}

(* Values the collector does not measure: null over an empty population.   *)
UnmeasuredFields ==
  {"/app_security/provisioning_enabled_pct",
   "/app_security/deprovisioning_enabled_pct", "/lifecycle/archived_pct"}

(* Values Entra has no data for, the counts from the audit level only.     *)
UnsupportedPcts ==
  {"/user_security/locked_out_pct",
   "/user_security/password_policy_noncompliant_pct",
   "/user_security/weak_password_pct"}
UnsupportedCounts ==
  {"/user_security/locked_out_user_count",
   "/user_security/password_policy_noncompliant_user_count",
   "/user_security/weak_password_user_count"}

MappedFields == UserSecurityFields \cup AppSecurityFields
                  \cup IDPPrivilegedFields \cup LifecycleFields \cup PolicyFields
IDPFields == MappedFields \cup UnmeasuredFields

idpPostureSources ==
  [f \in MappedFields |->
     CASE f \in {"/user_security/users_present", "/user_security/user_count"} ->
            <<MembersCount>>
       [] f = "/user_security/mfa_coverage_pct" -> <<"/posture/mfa_coverage">>
       [] f = "/user_security/mfa_phishing_resistant_pct" ->
            <<"/posture/mfa_phishing_resistant">>
       [] f = "/user_security/inactive_pct" ->
            <<MembersCount, "/users/inactive_pct">>
       [] f \in {"/app_security/apps_present", "/app_security/app_count"} ->
            <<"/apps/enabled_enterprise_apps_count">>
       [] f \in {"/app_security/sso_app_count", "/app_security/sso_coverage_pct"} ->
            <<"/posture/sso_coverage">>
       [] f \in {"/privileged_access/privileged_users_present", PrivilegedCount} ->
            <<PrivilegedCount>>
       [] f = SuperAdminCount -> <<SuperAdminCount>>
       [] f \in {"/privileged_access/privileged_mfa_user_count", MFAPct} -> <<MFAPct>>
       [] f \in {"/privileged_access/privileged_phishing_resistant_user_count",
                 PhishingPct} -> <<PhishingPct>>
       [] f \in {"/lifecycle/accounts_present", "/lifecycle/account_count"} ->
            <<"/users/total_count">>
       [] f \in {"/lifecycle/suspended_account_count", "/lifecycle/suspended_pct"} ->
            <<"/users/disabled_pct">>
       [] f \in {"/policy/mfa_required_user_count", Coverage} ->
            <<MembersCount, Coverage>>
       [] OTHER -> <<f>>]

(* The counts, which only the audit level writes.                          *)
CountFields ==
  {"/user_security/user_count", "/app_security/app_count",
   "/app_security/sso_app_count", PrivilegedCount, SuperAdminCount,
   "/privileged_access/privileged_mfa_user_count",
   "/privileged_access/privileged_phishing_resistant_user_count",
   "/lifecycle/account_count", "/lifecycle/suspended_account_count",
   "/policy/mfa_required_user_count"}

-----------------------------------------------------------------------------
audit == level # "trust"

Read(f) == f \in written
ValueIf(b) == IF b THEN "value" ELSE "absent"
atAudit(b) == ValueIf(audit /\ b)

(* present and a count behind it are nil together.                         *)
present(b) == ValueIf(b)

(* Mutant: a total that was not counted is zero.                           *)
shareOfUncounted(countRead, totalRead, total) ==
  IF total = 0 \/ ~totalRead THEN "null" ELSE ValueIf(countRead)

share(countRead, totalRead, total) ==
  IF totalRead /\ total = 0 THEN "null" ELSE ValueIf(countRead /\ totalRead)

registrationShare(countRead, listedRead) ==
  IF tenant.members = 0 THEN "null"
  ELSE IF listedRead /\ tenant.listed = 0 THEN "absent"
  ELSE share(countRead, listedRead, tenant.listed)

nullWhenEmpty(totalRead, total) ==
  IF totalRead /\ total = 0 THEN "null" ELSE "absent"

(* The value at each field, block by block.  The enabled members decide    *)
(* the user percentages and the policy coverage, so both are absent when   *)
(* the members were not counted.                                           *)
UserSecurity(f) ==
  CASE f = "/user_security/users_present" -> present(Read(MembersCount))
    [] f = "/user_security/user_count"    -> atAudit(Read(MembersCount))
    [] f = "/user_security/inactive_pct" /\ Read(MembersCount) ->
         share(Read("Users.inactiveCount"), Read("Users.inactiveCount"),
               tenant.active)
    [] f \in {"/user_security/mfa_coverage_pct",
              "/user_security/mfa_phishing_resistant_pct"} /\ Read(MembersCount) ->
         registrationShare(Read("Posture.mfaRegisteredCount"),
                           Read("/posture/denominator_enabled_member_users"))
    [] OTHER -> "absent"

appsRead == Read("/apps/enabled_enterprise_apps_count")

AppSecurity(f) ==
  CASE f = "/app_security/apps_present" -> present(appsRead)
    [] f \in {"/app_security/app_count", "/app_security/sso_app_count"} ->
         atAudit(appsRead)
    [] f = "/app_security/sso_coverage_pct" -> share(appsRead, appsRead, tenant.apps)
    [] OTHER -> nullWhenEmpty(appsRead, tenant.apps)

PrivilegedAccess(f) ==
  CASE f = "/privileged_access/privileged_users_present" ->
         present(Read(PrivilegedCount))
    [] f \in {PrivilegedCount, SuperAdminCount} -> atAudit(Read(f))
    [] f \in {MFAPct, PhishingPct} ->
         share(Read("PrivilegedAccess.mfaRegisteredCount"), Read(PrivilegedCount),
               tenant.privileged)
    [] OTHER -> atAudit(Read("PrivilegedAccess.mfaRegisteredCount"))

accountsRead == Read("/users/total_count")

Lifecycle(f) ==
  CASE f = "/lifecycle/accounts_present" -> present(accountsRead)
    [] f = "/lifecycle/account_count"    -> atAudit(accountsRead)
    [] f = "/lifecycle/suspended_account_count" -> atAudit(Read("Users.disabledCount"))
    [] f = "/lifecycle/suspended_pct" ->
         share(Read("Users.disabledCount"), accountsRead, tenant.users)
    [] OTHER -> nullWhenEmpty(accountsRead, tenant.users)

PolicyValue(f) ==
  CASE f \in {"/policy/mfa_required", "/policy/legacy_auth_blocked"} ->
         ValueIf(Read(f))
    [] f = "/policy/mfa_required_user_count" ->
         atAudit(Read(MembersCount) /\ Read("Policy.mfaRequiredUserCount"))
    [] f = Coverage /\ Read(MembersCount) ->
         share(Read("Policy.mfaRequiredUserCount"), Read(MembersCount),
               tenant.members)
    [] OTHER -> "absent"

ToIDPPosture ==
  [f \in IDPFields |->
     CASE f \in UserSecurityFields  -> UserSecurity(f)
       [] f \in AppSecurityFields
                \cup (UnmeasuredFields \ {"/lifecycle/archived_pct"}) -> AppSecurity(f)
       [] f \in IDPPrivilegedFields -> PrivilegedAccess(f)
       [] f \in LifecycleFields \cup {"/lifecycle/archived_pct"} -> Lifecycle(f)
       [] OTHER                     -> PolicyValue(f)]

(* Mutant: a posture without users or accounts is nil.                     *)
PostureIsNilWithoutUsers == ~Read(MembersCount)

(* The artifact is nil when each of its blocks would be empty.  The app    *)
(* and privileged access blocks are written whenever Entra's own are.      *)
PostureIsNil ==
  /\ \A f \in IDPFields : ToIDPPosture[f] = "absent"
  /\ ~appsRead
  /\ firstMissing(miss["role_assignments"], miss["users"]) # NoMiss

-----------------------------------------------------------------------------
(* The gaps of a written artifact.  None of the tenant's enabled members   *)
(* is in the registration report: their registration is unknown.           *)
markUnlistedMembers ==
  IF /\ Read(MembersCount) /\ tenant.members > 0
     /\ Read("/posture/denominator_enabled_member_users") /\ tenant.listed = 0
  THEN leaveOut(failed("registrations", "vendor_error"),
                {"/user_security/mfa_coverage_pct",
                 "/user_security/mfa_phishing_resistant_pct"})
  ELSE {}

markIDPPostureUnsupported ==
  leaveOut([code |-> "unsupported", about |-> "entra"],
           UnsupportedPcts \cup (IF audit THEN UnsupportedCounts ELSE {}))

(* Mutant: only the source closest to the value is asked.                  *)
LastSource(f) == idpPostureSources[f][Len(idpPostureSources[f])]

(* Mirror: the first source with a gap gives the gap.                      *)
GapSource(f) == LET sources == idpPostureSources[f] IN
  IF HasGap(sources[1]) THEN sources[1] ELSE sources[Len(sources)]

(* Mutant: each source with a gap gives one.                               *)
mirrorEverySource ==
  UNION {{[at |-> f, why |-> g.why] :
            g \in {h \in gaps : \E i \in DOMAIN idpPostureSources[f] :
                                h.at = idpPostureSources[f][i]}} :
           f \in MappedFields}

mirrorIDPPostureGaps ==
  UNION {{[at |-> f, why |-> g.why] : g \in {h \in gaps : h.at = GapSource(f)}} :
           f \in MappedFields}

IDPInit ==
  /\ Init
  /\ posture = [f \in IDPFields |-> "absent"]
  /\ emitted = "pending"
  /\ idpGaps = {}

Collect == Next /\ UNCHANGED <<posture, emitted, idpGaps>>

EmitPosture ==
  /\ pc = "collected" /\ emitted = "pending"
  /\ ~PostureIsNil
  /\ emitted' = "present"
  /\ posture' = ToIDPPosture
  /\ idpGaps' = markUnlistedMembers \cup markIDPPostureUnsupported
                  \cup mirrorIDPPostureGaps
  /\ UNCHANGED vars

EmitNothing ==
  /\ pc = "collected" /\ emitted = "pending"
  /\ PostureIsNil
  /\ emitted' = "nil"
  /\ UNCHANGED <<vars, posture, idpGaps>>

IDPNext == Collect \/ EmitPosture \/ EmitNothing

IDPSpec == IDPInit /\ [][IDPNext]_idpVars /\ WF_idpVars(IDPNext)

-----------------------------------------------------------------------------
(* The population of a normalized percentage, and whether it was counted.  *)
Population(f) ==
  CASE f \in {"/user_security/mfa_coverage_pct",
              "/user_security/mfa_phishing_resistant_pct", Coverage} ->
         <<MembersCount, tenant.members>>
    [] f = "/user_security/inactive_pct" -> <<"Users.inactiveCount", tenant.active>>
    [] f \in {MFAPct, PhishingPct} -> <<PrivilegedCount, tenant.privileged>>
    [] f \in {"/lifecycle/suspended_pct", "/lifecycle/archived_pct"} ->
         <<"/users/total_count", tenant.users>>
    [] OTHER -> <<"/apps/enabled_enterprise_apps_count", tenant.apps>>

(* A normalized value is written only when each Entra value it is taken    *)
(* from is, and is null only over a population that was counted and is     *)
(* empty.  The counts behind the percentages are kept apart from them, and *)
(* could be read where the percentage was not.                             *)
PostureRestsOnEntra ==
  \A f \in IDPFields :
    /\ posture[f] = "value" =>
         /\ f \in MappedFields
         /\ \A i \in DOMAIN idpPostureSources[f] :
              \/ idpPostureSources[f][i] \in written
              \/ f \in CountFields /\ EmptyPopulation(idpPostureSources[f][i])
    /\ posture[f] = "null" =>
         Population(f)[1] \in written /\ Population(f)[2] = 0

(* A value the emitted posture leaves out has one gap, and no value that   *)
(* stands has any: the very one its Entra source has, where two sources, a *)
(* mirror and a mark of its own could each give one, or the vendor_error   *)
(* of members the report does not list.  Counts below the audit level have *)
(* none, nor have the values the collector does not measure.  The artifact *)
(* is nil only when nothing in it could have been taken from Entra's.      *)
GapOfSource(f, g) ==
  \E h \in gaps : /\ h.why = g.why
                  /\ \E i \in DOMAIN idpPostureSources[f] :
                       h.at = idpPostureSources[f][i]
AbsentHasTheSameGap ==
  /\ emitted = "present" =>
       \A f \in MappedFields : posture[f] = "absent" =>
         \/ f \in CountFields /\ ~audit
         \/ \E g \in idpGaps :
              /\ g.at = f
              /\ \/ GapOfSource(f, g)
                 \/ g.why = failed("registrations", "vendor_error")
                      /\ tenant.listed = 0 /\ tenant.members > 0
  /\ \A g \in idpGaps :
       /\ g.at \in MappedFields => posture[g.at] # "value"
       /\ \A h \in idpGaps : h.at = g.at => h = g
  /\ emitted = "nil" =>
       \A f \in MappedFields : \E i \in DOMAIN idpPostureSources[f] :
                                idpPostureSources[f][i] \notin written

(* The artifact's comment: a value the Entra artifact left out is absent   *)
(* here too, with the same gap.  The shares are null, and so present, over *)
(* an empty population even where their own count was left out.            *)
LeftOutValuesAreAbsent ==
  \A f \in MappedFields :
    (\E i \in DOMAIN idpPostureSources[f] : HasGap(idpPostureSources[f][i]))
      => posture[f] = "absent"
=============================================================================
