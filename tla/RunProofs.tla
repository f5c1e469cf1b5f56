------------------------------ MODULE RunProofs ------------------------------
(***************************************************************************)
(* What holds of a whole run.  The Entra collection is one phase of it, so *)
(* what is proved of that collection holds here as well.                   *)
(***************************************************************************)
EXTENDS Run, EntraCollectProofs, FiniteSetTheorems

Phases == {"graph_token", "arm_token", "organization", "entra", "azure", "finish"} \cup Ended

(* The iam block of a run that is done is what Entra gives.                *)
IAMFields == (IF MFACoverage \in written THEN {"mfa_coverage_pct"} ELSE {})
               \cup (IF rootMFAMiss = NoMiss THEN IAMRoot ELSE {})
IAMGaps ==
  UNION {At(i, IAMRoot, rootMFAMiss)
           \cup UNION {At(i, {"mfa_coverage_pct"}, w) : w \in mirror(MFACoverage)} :
           i \in DOMAIN estates}

IAMTaken == phase = "done" => /\ iam = [i \in DOMAIN estates |-> IAMFields]
                              /\ iamGaps = IAMGaps

IAMInv == CausesInv /\ phase \in Phases /\ IAMTaken

-----------------------------------------------------------------------------
(* Every step of a run is a step of the Entra collection, or leaves it.    *)
LEMMA RunStepsEntra == RunNext \/ UNCHANGED runVars => [Next]_vars
<1>1. signIn \/ collectAzure \/ finish \/ UNCHANGED runVars => UNCHANGED vars
  <2>1. UNCHANGED entraVars /\ UNCHANGED level => UNCHANGED vars
    BY DEF entraVars, vars
  <2>2. Azure!Next => UNCHANGED level
    <3>1. \A a, b, c : Azure!Done(a, b, c) => UNCHANGED level
      BY DEF Azure!Done, Azure!Settle
    <3>2. Azure!SubscriptionFound => UNCHANGED level
      BY <3>1 DEF Azure!SubscriptionFound
    <3>3. Azure!SubscriptionUnreadable => UNCHANGED level
      BY <3>1 DEF Azure!SubscriptionUnreadable, Azure!Settle
    <3>4. Azure!CollectDefender => UNCHANGED level
      BY <3>1 DEF Azure!CollectDefender
    <3>5. Azure!CollectRBAC => UNCHANGED level
      BY <3>1 DEF Azure!CollectRBAC, Azure!OneList
    <3>6. Azure!CollectPolicy => UNCHANGED level
      BY <3>1 DEF Azure!CollectPolicy
    <3>7. Azure!CollectStorage => UNCHANGED level
      BY <3>1 DEF Azure!CollectStorage, Azure!OneList
    <3>8. Azure!CollectKeyVault => UNCHANGED level
      BY <3>1 DEF Azure!CollectKeyVault, Azure!OneList
    <3>9. Azure!ServersUnread => UNCHANGED level
      BY <3>1 DEF Azure!ServersUnread
    <3>10. Azure!CollectSQL => UNCHANGED level
      BY <3>1 DEF Azure!CollectSQL
    <3>11. Azure!CollectCompute => UNCHANGED level
      BY <3>1 DEF Azure!CollectCompute
    <3>12. Azure!VaultsUnread => UNCHANGED level
      BY <3>1 DEF Azure!VaultsUnread
    <3>13. Azure!NoVaults => UNCHANGED level
      BY <3>1 DEF Azure!NoVaults
    <3>14. Azure!CollectBackup => UNCHANGED level
      BY <3>1 DEF Azure!CollectBackup
    <3>15. Azure!CollectNetwork => UNCHANGED level
      BY <3>1 DEF Azure!CollectNetwork
    <3>16. Azure!CollectLogging => UNCHANGED level
      BY <3>1 DEF Azure!CollectLogging
    <3>17. Azure!CollectInventory => UNCHANGED level
      BY <3>1 DEF Azure!CollectInventory, Azure!OneList
    <3>18. Azure!SkipInventory => UNCHANGED level
      BY <3>1 DEF Azure!SkipInventory
    <3> QED
      BY <3>2, <3>3, <3>4, <3>5, <3>6, <3>7, <3>8, <3>9, <3>10, <3>11, <3>12, <3>13, <3>14, <3>15, <3>16, <3>17, <3>18 DEF Azure!Next
  <2> QED
    BY <2>1, <2>2 DEF signIn, collectAzure, finish, runVars
<1>2. collectEntra => Next
  BY DEF collectEntra
<1> QED
  BY <1>1, <1>2 DEF RunNext

LEMMA InitIAMInv == RunInit => IAMInv
BY InitCausesInv DEF RunInit, IAMInv, Phases, Ended, IAMTaken

(* A run that is done takes no step.                                       *)
LEMMA DoneIsDone ==
  ASSUME RunNext
  PROVE  phase # "done" /\ (phase' = "done" => finish) /\ (phase \in Phases => phase' \in Phases)
<1>1. CASE signIn
  BY <1>1 DEF signIn, Phases, Ended
<1>2. CASE collectEntra
  BY <1>2 DEF collectEntra, Phases, Ended
<1>3. CASE collectAzure
  BY <1>3 DEF collectAzure, Phases, Ended
<1>4. CASE finish
  BY <1>4 DEF finish, Phases, Ended
<1> QED
  BY <1>1, <1>2, <1>3, <1>4 DEF RunNext

LEMMA IAMStays ==
  ASSUME UNCHANGED vars, estates' = estates
  PROVE  /\ IAMFields' = IAMFields
         /\ IAMGaps' = IAMGaps
BY DEF vars, IAMFields, IAMGaps, rootMFAMiss, noPrivilegedAccess, globalAdminsMFAUnread,
       mirror, At

LEMMA NextIAMInv == IAMInv /\ [RunNext]_runVars => IAMInv'
<1> SUFFICES ASSUME IAMInv, [RunNext]_runVars PROVE IAMInv'
  OBVIOUS
<1>1. CausesInv'
  BY RunStepsEntra, NextCausesInv DEF IAMInv
<1>2. CASE RunNext
  <2>1. CASE phase' = "done"
    <3>1. finish
      BY <1>2, <2>1, DoneIsDone
    <3>2. UNCHANGED vars /\ estates' = estates
      BY <3>1 DEF finish, entraVars, azureVars, vars
    <3>3. iam' = [i \in DOMAIN estates |-> IAMFields] /\ iamGaps' = IAMGaps
      BY <3>1 DEF finish, addDeprecatedIAM, IAMFields, IAMGaps
    <3> QED
      BY <1>1, <1>2, <3>2, <3>3, DoneIsDone, IAMStays DEF IAMInv, IAMTaken
  <2>2. CASE phase' # "done"
    BY <1>1, <1>2, <2>2, DoneIsDone DEF IAMInv, IAMTaken
  <2> QED
    BY <2>1, <2>2
<1>3. CASE UNCHANGED runVars
  <2>1. /\ UNCHANGED vars /\ estates' = estates /\ phase' = phase
        /\ iam' = iam /\ iamGaps' = iamGaps
    BY <1>3 DEF runVars, entraVars, azureVars, outVars, vars
  <2> QED
    BY <1>1, <2>1, IAMStays DEF IAMInv, IAMTaken
<1> QED
  BY <1>2, <1>3

-----------------------------------------------------------------------------
(* Why the Global Administrators' MFA is not known.                        *)
LEMMA RootMFAMiss ==
  ASSUME CausesInv
  PROVE  /\ rootMFAMiss = NoMiss <=>
              /\ \A r \in {"users", "role_assignments", "registrations"} : miss[r] = NoMiss
              /\ ~tenant.groupHeldGlobalAdmin
         /\ rootMFAMiss # NoMiss =>
              IF rootMFAMiss.about \in Reads THEN miss[rootMFAMiss.about] # NoMiss
              ELSE tenant.groupHeldGlobalAdmin
<1>1. notRead("group_role_members") # NoMiss
  BY DEF notRead, NoMiss
<1>2. notRead("group_role_members").about \notin Reads
  BY DEF notRead, Reads
<1>3. /\ {"users", "role_assignments", "registrations"} \subseteq Reads
      /\ \A r \in Reads : miss[r] # NoMiss => miss[r].about = r
  BY DEF CausesInv, OutcomesNamed, Reads
<1>4. \/ rootMFAMiss = NoMiss
      \/ \E r \in {"users", "role_assignments", "registrations"} :
           rootMFAMiss = miss[r] /\ miss[r] # NoMiss
      \/ rootMFAMiss = notRead("group_role_members") /\ tenant.groupHeldGlobalAdmin
  BY DEF rootMFAMiss, noPrivilegedAccess, globalAdminsMFAUnread, firstMissing
<1>5. rootMFAMiss = NoMiss <=>
        /\ \A r \in {"users", "role_assignments", "registrations"} : miss[r] = NoMiss
        /\ ~tenant.groupHeldGlobalAdmin
  BY <1>1 DEF rootMFAMiss, noPrivilegedAccess, globalAdminsMFAUnread, firstMissing
<1> QED
  BY <1>2, <1>3, <1>4, <1>5

LEMMA AtAccount ==
  ASSUME NEW i, NEW fields, NEW why, NEW g
  PROVE  g \in At(i, fields, why) <=>
           why # NoMiss /\ \E f \in fields : g = [account |-> i, at |-> f, why |-> why]
BY DEF At

(* The iam block of each account stands, or has the gaps, that Entra's     *)
(* reads say.                                                              *)
THEOREM IAMFollows == RunSpec => []IAMFollowsEntra
<1>1. ASSUME IAMInv
      PROVE  IAMFollowsEntra
  <2> DEFINE whys(i, f) == {g.why : g \in {h \in iamGaps : h.account = i /\ h.at = f}}
             known == /\ \A r \in {"users", "role_assignments", "registrations"} :
                           miss[r] = NoMiss
                      /\ ~tenant.groupHeldGlobalAdmin
  <2> SUFFICES ASSUME phase = "done", NEW i \in DOMAIN estates
               PROVE  /\ "mfa_coverage_pct" \in iam[i] <=> MFACoverage \in written
                      /\ whys(i, "mfa_coverage_pct")
                           = {g.why : g \in {h \in gaps : h.at = MFACoverage}}
                      /\ IF known
                         THEN IAMRoot \subseteq iam[i] /\ \A f \in IAMRoot : whys(i, f) = {}
                         ELSE /\ IAMRoot \cap iam[i] = {}
                              /\ \A f \in IAMRoot :
                                   /\ Cardinality(whys(i, f)) = 1
                                   /\ \A w \in whys(i, f) :
                                        IF w.about \in Reads THEN miss[w.about] # NoMiss
                                        ELSE tenant.groupHeldGlobalAdmin
    BY DEF IAMFollowsEntra
  <2>1. iam[i] = IAMFields /\ iamGaps = IAMGaps
    BY <1>1 DEF IAMInv, IAMTaken
  <2>2. "mfa_coverage_pct" \notin IAMRoot
    BY DEF IAMRoot
  <2>3. \A w \in mirror(MFACoverage) : w # NoMiss
    BY <1>1 DEF IAMInv, CausesInv, ValuesInv, IInv, TypeOK, mirror
  <2>4. \A g : g \in iamGaps <=>
          \E j \in DOMAIN estates :
            \/ rootMFAMiss # NoMiss
                 /\ \E f \in IAMRoot : g = [account |-> j, at |-> f, why |-> rootMFAMiss]
            \/ \E w \in mirror(MFACoverage) :
                 g = [account |-> j, at |-> "mfa_coverage_pct", why |-> w]
    <3>1. \A g, j : g \in At(j, IAMRoot, rootMFAMiss) <=>
            rootMFAMiss # NoMiss
              /\ \E f \in IAMRoot : g = [account |-> j, at |-> f, why |-> rootMFAMiss]
      BY AtAccount
    <3>2. \A g, j : (\E w \in mirror(MFACoverage) : g \in At(j, {"mfa_coverage_pct"}, w)) <=>
            \E w \in mirror(MFACoverage) :
              g = [account |-> j, at |-> "mfa_coverage_pct", why |-> w]
      BY <2>3, AtAccount
    <3> QED
      BY <2>1, <3>1, <3>2 DEF IAMGaps
  <2>5. whys(i, "mfa_coverage_pct") = mirror(MFACoverage)
    <3>1. ASSUME NEW w \in mirror(MFACoverage)
          PROVE  w \in whys(i, "mfa_coverage_pct")
      <4> DEFINE g == [account |-> i, at |-> "mfa_coverage_pct", why |-> w]
      <4>1. g \in iamGaps
        BY <2>4
      <4>2. g.account = i /\ g.at = "mfa_coverage_pct" /\ g.why = w
        OBVIOUS
      <4> HIDE DEF g
      <4> QED
        BY <4>1, <4>2
    <3>2. ASSUME NEW g \in iamGaps, g.account = i, g.at = "mfa_coverage_pct"
          PROVE  g.why \in mirror(MFACoverage)
      BY <2>2, <2>4, <3>2
    <3> QED
      BY <3>1, <3>2
  <2>6. ASSUME NEW f \in IAMRoot
        PROVE  whys(i, f) = IF rootMFAMiss = NoMiss THEN {} ELSE {rootMFAMiss}
    <3>1. ASSUME NEW g \in iamGaps, g.account = i, g.at = f
          PROVE  rootMFAMiss # NoMiss /\ g.why = rootMFAMiss
      BY <2>2, <2>4, <3>1
    <3>2. ASSUME rootMFAMiss # NoMiss
          PROVE  rootMFAMiss \in whys(i, f)
      <4> DEFINE g == [account |-> i, at |-> f, why |-> rootMFAMiss]
      <4>1. g \in iamGaps
        BY <2>4, <3>2
      <4>2. g.account = i /\ g.at = f /\ g.why = rootMFAMiss
        OBVIOUS
      <4> HIDE DEF g
      <4> QED
        BY <4>1, <4>2
    <3> QED
      BY <3>1, <3>2
  <2>7. rootMFAMiss = NoMiss <=> known
    BY <1>1, RootMFAMiss DEF IAMInv
  <2>8. Cardinality({rootMFAMiss}) = 1
    BY FS_Singleton
  <2>9. rootMFAMiss # NoMiss =>
          IF rootMFAMiss.about \in Reads THEN miss[rootMFAMiss.about] # NoMiss
          ELSE tenant.groupHeldGlobalAdmin
    BY <1>1, RootMFAMiss DEF IAMInv
  <2>10. "mfa_coverage_pct" \in iam[i] <=> MFACoverage \in written
    BY <2>1, <2>2 DEF IAMFields
  <2>11. mirror(MFACoverage) = {g.why : g \in {h \in gaps : h.at = MFACoverage}}
    BY DEF mirror
  <2>12. IF rootMFAMiss = NoMiss THEN IAMRoot \subseteq iam[i] ELSE IAMRoot \cap iam[i] = {}
    BY <2>1, <2>2 DEF IAMFields
  <2> HIDE DEF whys, known
  <2> QED
    BY <2>5, <2>6, <2>7, <2>8, <2>9, <2>10, <2>11, <2>12
<1> QED
  BY <1>1, InitIAMInv, NextIAMInv, PTL DEF RunSpec

-----------------------------------------------------------------------------
(* The proofs about the Azure collection are of the one this run makes.    *)
AzureFacts == INSTANCE AzureProofs
  WITH written <- azureWritten, gaps <- azureGaps, MaxFailures <- MaxAzureFailures

(* The two instances of the collection are one: their operators are equal, *)
(* and so their steps.                                                     *)
LEMMA SameBackup == Azure!CollectBackup => AzureFacts!CollectBackup
<1>1. ASSUME NEW a, NEW b
      PROVE  Azure!Protected(a, b) = AzureFacts!Protected(a, b)
  BY Zenon DEF Azure!ProtectedPct, AzureFacts!ProtectedPct, Azure!IDs,
       AzureFacts!IDs, Azure!NoMiss, AzureFacts!NoMiss, Azure!failed,
       AzureFacts!failed, Azure!firstMissing, AzureFacts!firstMissing,
       Azure!estate, AzureFacts!estate, Azure!Read, AzureFacts!Read,
       Azure!pointer, AzureFacts!pointer, Azure!partial, AzureFacts!partial,
       Azure!leaveOut, AzureFacts!leaveOut, Azure!Number, AzureFacts!Number,
       Azure!Nothing, AzureFacts!Nothing, Azure!Left, AzureFacts!Left,
       Azure!Count, AzureFacts!Count, Azure!FirstOf, AzureFacts!FirstOf,
       Azure!FirstFailure, AzureFacts!FirstFailure, Azure!LeftUnread,
       AzureFacts!LeftUnread, Azure!backupPopulation,
       AzureFacts!backupPopulation, Azure!backupMiss, AzureFacts!backupMiss,
       Azure!protectedResourcePct, AzureFacts!protectedResourcePct,
       Azure!LeftUnreadVaults, AzureFacts!LeftUnreadVaults, Azure!Protected,
       AzureFacts!Protected, Azure!Cardinality, AzureFacts!Cardinality,
       Azure!Min, AzureFacts!Min
<1>2. ASSUME NEW a, NEW b, NEW c, NEW d
      PROVE  Azure!Retention(a, b, c, d) = AzureFacts!Retention(a, b, c, d)
  BY Zenon DEF Azure!RetentionMin, AzureFacts!RetentionMin,
       Azure!RetentionRead, AzureFacts!RetentionRead, Azure!IDs,
       AzureFacts!IDs, Azure!NoMiss, AzureFacts!NoMiss, Azure!failed,
       AzureFacts!failed, Azure!estate, AzureFacts!estate, Azure!Read,
       AzureFacts!Read, Azure!pointer, AzureFacts!pointer, Azure!partial,
       AzureFacts!partial, Azure!Number, AzureFacts!Number, Azure!Nothing,
       AzureFacts!Nothing, Azure!Left, AzureFacts!Left, Azure!Wrote,
       AzureFacts!Wrote, Azure!And, AzureFacts!And, Azure!Count,
       AzureFacts!Count, Azure!FirstOf, AzureFacts!FirstOf, Azure!FirstFailure,
       AzureFacts!FirstFailure, Azure!LeftUnread, AzureFacts!LeftUnread,
       Azure!retentionDaysMin, AzureFacts!retentionDaysMin,
       Azure!LeftUnreadVaults, AzureFacts!LeftUnreadVaults, Azure!Retention,
       AzureFacts!Retention, Azure!Cardinality, AzureFacts!Cardinality,
       Azure!Min, AzureFacts!Min
<1>3. ASSUME NEW a, NEW b
      PROVE  Azure!Jobs(a, b) = AzureFacts!Jobs(a, b)
  BY Zenon DEF Azure!BackupAge, AzureFacts!BackupAge, Azure!FailedJobs,
       AzureFacts!FailedJobs, Azure!IDs, AzureFacts!IDs, Azure!NoMiss,
       AzureFacts!NoMiss, Azure!failed, AzureFacts!failed, Azure!estate,
       AzureFacts!estate, Azure!Read, AzureFacts!Read, Azure!pointer,
       AzureFacts!pointer, Azure!partial, AzureFacts!partial, Azure!Number,
       AzureFacts!Number, Azure!Nothing, AzureFacts!Nothing, Azure!Left,
       AzureFacts!Left, Azure!And, AzureFacts!And, Azure!Count,
       AzureFacts!Count, Azure!FirstOf, AzureFacts!FirstOf, Azure!FirstFailure,
       AzureFacts!FirstFailure, Azure!LeftUnread, AzureFacts!LeftUnread,
       Azure!latestSuccessfulBackupAgeHoursMax,
       AzureFacts!latestSuccessfulBackupAgeHoursMax,
       Azure!failedBackupJobs7dCount, AzureFacts!failedBackupJobs7dCount,
       Azure!LeftUnreadVaults, AzureFacts!LeftUnreadVaults, Azure!Jobs,
       AzureFacts!Jobs, Azure!Cardinality, AzureFacts!Cardinality, Azure!Min,
       AzureFacts!Min, Azure!Max, AzureFacts!Max
<1>4. ASSUME NEW a, NEW b, NEW c
      PROVE  Azure!Done(a, b, c) = AzureFacts!Done(a, b, c)
  BY Zenon DEF Azure!Steps, AzureFacts!Steps, Azure!NoMiss, AzureFacts!NoMiss,
       Azure!NothingFound, AzureFacts!NothingFound, Azure!pointer,
       AzureFacts!pointer, Azure!Fail, AzureFacts!Fail, Azure!Settle,
       AzureFacts!Settle, Azure!NextAccount, AzureFacts!NextAccount,
       Azure!Proceed, AzureFacts!Proceed, Azure!Done, AzureFacts!Done,
       Azure!Cardinality, AzureFacts!Cardinality
<1>5. /\ Azure!Wrote({Azure!VaultPct}) = AzureFacts!Wrote({AzureFacts!VaultPct})
      /\ \A a, b : Azure!And(a, b) = AzureFacts!And(a, b)
  BY Zenon DEF Azure!VaultPct, AzureFacts!VaultPct, Azure!Nothing,
       AzureFacts!Nothing, Azure!Wrote, AzureFacts!Wrote, Azure!And,
       AzureFacts!And
<1>6. AzureFacts!At("backup") = Azure!At("backup") /\ AzureFacts!estate = Azure!estate
  BY Zenon DEF Azure!At, AzureFacts!At, Azure!Steps, AzureFacts!Steps,
               Azure!estate, AzureFacts!estate
<1> SUFFICES ASSUME Azure!CollectBackup PROVE AzureFacts!CollectBackup
  OBVIOUS
<1>7. Azure!At("backup") /\ Azure!estate.vaults # <<>>
  BY DEF Azure!CollectBackup
<1>8. PICK failing \in SUBSET UNION {{Azure!Read(name, v.id) :
                                        v \in Azure!ToSet(Azure!estate.vaults)} :
                                     name \in {"items", "policies", "jobs"}} :
        LET unread(name) == Azure!Unread(Azure!IDs(Azure!estate.vaults), name, failing)
            readOf(name) == {v \in Azure!ToSet(Azure!estate.vaults) :
                               Azure!Read(name, v.id) \notin failing}
            items == UNION {v.items : v \in readOf("items")}
            policies == UNION {v.policies : v \in readOf("policies")}
            jobs == UNION {v.jobs : v \in readOf("jobs")}
        IN Azure!Done(failing,
             Azure!And(Azure!And(Azure!Wrote({Azure!VaultPct}),
                                 Azure!Protected(items, unread("items"))),
                       Azure!And(Azure!Retention(policies, items,
                                   unread("policies"), unread("items")),
                                 Azure!Jobs(jobs, unread("jobs")))),
             found)
  BY DEF Azure!CollectBackup
<1> DEFINE unread(name) == Azure!Unread(Azure!IDs(Azure!estate.vaults), name, failing)
           readOf(name) == {v \in Azure!ToSet(Azure!estate.vaults) :
                               Azure!Read(name, v.id) \notin failing}
           items == UNION {v.items : v \in readOf("items")}
           policies == UNION {v.policies : v \in readOf("policies")}
           jobs == UNION {v.jobs : v \in readOf("jobs")}
<1>9. AzureFacts!Done(failing,
        AzureFacts!And(
          AzureFacts!And(AzureFacts!Wrote({AzureFacts!VaultPct}),
                         AzureFacts!Protected(items, unread("items"))),
          AzureFacts!And(AzureFacts!Retention(policies, items, unread("policies"), unread("items")),
                         AzureFacts!Jobs(jobs, unread("jobs")))),
        found)
  <2> HIDE DEF unread, readOf, items, policies, jobs
  <2> QED
    BY <1>1, <1>2, <1>3, <1>4, <1>5, <1>8 DEF unread, readOf, items, policies, jobs
<1> QED
  BY Zenon, <1>6, <1>7, <1>9
     DEF AzureFacts!CollectBackup, Azure!Read, AzureFacts!Read, Azure!Unread,
         AzureFacts!Unread, Azure!IDs, AzureFacts!IDs, Azure!estate, AzureFacts!estate,
         Azure!ToSet, AzureFacts!ToSet

LEMMA SameSettings ==
  ASSUME NEW failing
  PROVE  Azure!ResourceSettings(failing) = AzureFacts!ResourceSettings(failing)
<1> DEFINE are(l) == {id \in Azure!monitored :
                        Azure!resourceLogged(Azure!settingIDs(id), failing) = l}
           areToo(l) == {id \in AzureFacts!monitored :
                        AzureFacts!resourceLogged(AzureFacts!settingIDs(id), failing) = l}
<1>1. ASSUME NEW l PROVE are(l) = areToo(l)
  BY Zenon DEF Azure!IDs, AzureFacts!IDs, Azure!estate, AzureFacts!estate,
       Azure!Read, AzureFacts!Read, Azure!monitoredResourceList,
       AzureFacts!monitoredResourceList, Azure!monitored, AzureFacts!monitored,
       Azure!settingIDs, AzureFacts!settingIDs, Azure!Setting,
       AzureFacts!Setting, Azure!Sends, AzureFacts!Sends, Azure!resourceLogged,
       AzureFacts!resourceLogged
<1>2. ASSUME NEW a, NEW b
      PROVE  Azure!FirstError(a, b) = AzureFacts!FirstError(a, b)
  BY Zenon DEF Azure!IDs, AzureFacts!IDs, Azure!estate, AzureFacts!estate,
       Azure!Read, AzureFacts!Read, Azure!FirstOf, AzureFacts!FirstOf,
       Azure!monitoredResourceList, AzureFacts!monitoredResourceList,
       Azure!settingIDs, AzureFacts!settingIDs, Azure!Setting,
       AzureFacts!Setting, Azure!FirstError, AzureFacts!FirstError, Azure!Min,
       AzureFacts!Min
<1>3. ASSUME NEW why, NEW n
      PROVE  Azure!Left(Azure!partial(n, why, {Azure!LoggedPct, Azure!UnloggedCount}))
             = AzureFacts!Left(AzureFacts!partial(n, why,
                 {AzureFacts!LoggedPct, AzureFacts!UnloggedCount}))
  BY Zenon DEF Azure!LoggedPct, AzureFacts!LoggedPct, Azure!UnloggedCount,
       AzureFacts!UnloggedCount, Azure!NoMiss, AzureFacts!NoMiss,
       Azure!pointer, AzureFacts!pointer, Azure!partial, AzureFacts!partial,
       Azure!Nothing, AzureFacts!Nothing, Azure!Left, AzureFacts!Left
<1>4. ASSUME NEW n
      PROVE  /\ Azure!Count(Azure!MonitoredCount, n)
                = AzureFacts!Count(AzureFacts!MonitoredCount, n)
             /\ Azure!Count(Azure!LoggedPct, n) = AzureFacts!Count(AzureFacts!LoggedPct, n)
             /\ Azure!Count(Azure!UnloggedCount, n)
                = AzureFacts!Count(AzureFacts!UnloggedCount, n)
  BY Zenon DEF Azure!MonitoredCount, AzureFacts!MonitoredCount,
       Azure!LoggedPct, AzureFacts!LoggedPct, Azure!UnloggedCount,
       AzureFacts!UnloggedCount, Azure!pointer, AzureFacts!pointer,
       Azure!Number, AzureFacts!Number, Azure!Nothing, AzureFacts!Nothing,
       Azure!Count, AzureFacts!Count
<1>5. /\ Azure!monitored = AzureFacts!monitored /\ Azure!Nothing = AzureFacts!Nothing
      /\ \A a, b : Azure!And(a, b) = AzureFacts!And(a, b)
      /\ \A a : Azure!failed(a) = AzureFacts!failed(a)
      /\ \A a : Azure!Cardinality(a) = AzureFacts!Cardinality(a)
  BY Zenon DEF Azure!IDs, AzureFacts!IDs, Azure!failed, AzureFacts!failed,
       Azure!estate, AzureFacts!estate, Azure!Nothing, AzureFacts!Nothing,
       Azure!And, AzureFacts!And, Azure!monitoredResourceList,
       AzureFacts!monitoredResourceList, Azure!monitored, AzureFacts!monitored,
       Azure!Cardinality, AzureFacts!Cardinality
<1>6. Azure!ResourceSettings(failing) =
        Azure!And(Azure!Count(Azure!MonitoredCount, {Azure!Cardinality(Azure!monitored)}),
          CASE Azure!monitored = {} -> Azure!Nothing
            [] Azure!monitored # {} /\ are("error") # {} ->
                 Azure!Left(Azure!partial(Azure!Cardinality(are("error")),
                   Azure!failed(Azure!FirstError(are("error"), failing)),
                   {Azure!LoggedPct, Azure!UnloggedCount}))
            [] OTHER ->
                 Azure!And(Azure!Count(Azure!LoggedPct, {Azure!Cardinality(are("logged"))}),
                           Azure!Count(Azure!UnloggedCount,
                             {Azure!Cardinality(Azure!monitored)
                                - Azure!Cardinality(are("logged"))})))
  BY Zenon DEF Azure!ResourceSettings
<1>7. AzureFacts!ResourceSettings(failing) =
        AzureFacts!And(AzureFacts!Count(AzureFacts!MonitoredCount, {AzureFacts!Cardinality(AzureFacts!monitored)}),
          CASE AzureFacts!monitored = {} -> AzureFacts!Nothing
            [] AzureFacts!monitored # {} /\ areToo("error") # {} ->
                 AzureFacts!Left(AzureFacts!partial(AzureFacts!Cardinality(areToo("error")),
                   AzureFacts!failed(AzureFacts!FirstError(areToo("error"), failing)),
                   {AzureFacts!LoggedPct, AzureFacts!UnloggedCount}))
            [] OTHER ->
                 AzureFacts!And(AzureFacts!Count(AzureFacts!LoggedPct, {AzureFacts!Cardinality(areToo("logged"))}),
                           AzureFacts!Count(AzureFacts!UnloggedCount,
                             {AzureFacts!Cardinality(AzureFacts!monitored)
                                - AzureFacts!Cardinality(areToo("logged"))})))
  BY Zenon DEF AzureFacts!ResourceSettings
<1> HIDE DEF are, areToo
<1> QED
  BY <1>1, <1>2, <1>3, <1>4, <1>5, <1>6, <1>7

LEMMA SameLogging == Azure!CollectLogging => AzureFacts!CollectLogging
<1>1. ASSUME NEW a
      PROVE  Azure!SubscriptionSettings(a) = AzureFacts!SubscriptionSettings(a)
  BY Zenon DEF Azure!SettingsEnabled, AzureFacts!SettingsEnabled,
       Azure!ActivityExported, AzureFacts!ActivityExported, Azure!NoMiss,
       AzureFacts!NoMiss, Azure!failed, AzureFacts!failed, Azure!Read,
       AzureFacts!Read, Azure!pointer, AzureFacts!pointer, Azure!partial,
       AzureFacts!partial, Azure!leaveOut, AzureFacts!leaveOut, Azure!Nothing,
       AzureFacts!Nothing, Azure!Left, AzureFacts!Left, Azure!Wrote,
       AzureFacts!Wrote, Azure!SubscriptionSettings,
       AzureFacts!SubscriptionSettings
<1>2. ASSUME NEW a, NEW b, NEW c
      PROVE  Azure!Done(a, b, c) = AzureFacts!Done(a, b, c)
  BY Zenon DEF Azure!Steps, AzureFacts!Steps, Azure!NoMiss, AzureFacts!NoMiss,
       Azure!NothingFound, AzureFacts!NothingFound, Azure!pointer,
       AzureFacts!pointer, Azure!Fail, AzureFacts!Fail, Azure!Settle,
       AzureFacts!Settle, Azure!NextAccount, AzureFacts!NextAccount,
       Azure!Proceed, AzureFacts!Proceed, Azure!Done, AzureFacts!Done,
       Azure!Cardinality, AzureFacts!Cardinality
<1>3. /\ Azure!monitoredMiss = AzureFacts!monitoredMiss
      /\ Azure!NoMiss = AzureFacts!NoMiss
      /\ Azure!Read("activity", "") = AzureFacts!Read("activity", "")
      /\ \A a, b : Azure!And(a, b) = AzureFacts!And(a, b)
      /\ Azure!Left(Azure!leaveOut(Azure!monitoredMiss,
           {Azure!MonitoredCount, Azure!LoggedPct, Azure!UnloggedCount}))
         = AzureFacts!Left(AzureFacts!leaveOut(AzureFacts!monitoredMiss,
             {AzureFacts!MonitoredCount, AzureFacts!LoggedPct, AzureFacts!UnloggedCount}))
  BY Zenon DEF Azure!MonitoredCount, AzureFacts!MonitoredCount,
       Azure!LoggedPct, AzureFacts!LoggedPct, Azure!UnloggedCount,
       AzureFacts!UnloggedCount, Azure!NoMiss, AzureFacts!NoMiss,
       Azure!firstMissing, AzureFacts!firstMissing, Azure!Read,
       AzureFacts!Read, Azure!pointer, AzureFacts!pointer, Azure!partial,
       AzureFacts!partial, Azure!leaveOut, AzureFacts!leaveOut, Azure!Nothing,
       AzureFacts!Nothing, Azure!Left, AzureFacts!Left, Azure!And,
       AzureFacts!And, Azure!monitoredMiss, AzureFacts!monitoredMiss
<1>4. AzureFacts!At("logging") = Azure!At("logging")
  BY Zenon DEF Azure!At, AzureFacts!At, Azure!Steps, AzureFacts!Steps
<1> DEFINE settings == UNION {{Azure!Setting(s) : s \in Azure!ToSet(Azure!settingIDs(id))} :
                                id \in Azure!monitored}
           tooSettings == UNION {{AzureFacts!Setting(s) :
                                     s \in AzureFacts!ToSet(AzureFacts!settingIDs(id))} :
                                id \in AzureFacts!monitored}
           asked(failing) == UNION {Azure!SettingsRead(Azure!settingIDs(id), failing) :
                                       id \in Azure!monitored}
           tooAsked(failing) ==
             UNION {AzureFacts!SettingsRead(AzureFacts!settingIDs(id), failing) :
                       id \in AzureFacts!monitored}
<1>5. settings = tooSettings
  BY Zenon DEF Azure!IDs, AzureFacts!IDs, Azure!estate, AzureFacts!estate,
       Azure!Read, AzureFacts!Read, Azure!monitoredResourceList,
       AzureFacts!monitoredResourceList, Azure!monitored, AzureFacts!monitored,
       Azure!settingIDs, AzureFacts!settingIDs, Azure!Setting,
       AzureFacts!Setting, Azure!ToSet, AzureFacts!ToSet
<1>6. ASSUME NEW failing PROVE asked(failing) = tooAsked(failing)
  BY Zenon DEF Azure!IDs, AzureFacts!IDs, Azure!estate, AzureFacts!estate,
       Azure!Read, AzureFacts!Read, Azure!monitoredResourceList,
       AzureFacts!monitoredResourceList, Azure!monitored, AzureFacts!monitored,
       Azure!settingIDs, AzureFacts!settingIDs, Azure!Setting,
       AzureFacts!Setting, Azure!Sends, AzureFacts!Sends, Azure!SettingsRead,
       AzureFacts!SettingsRead
<1> SUFFICES ASSUME Azure!CollectLogging PROVE AzureFacts!CollectLogging
  OBVIOUS
<1>7. Azure!At("logging")
  BY DEF Azure!CollectLogging
<1>8. PICK failing \in SUBSET ({Azure!Read("activity", "")} \cup
                      IF Azure!monitoredMiss = Azure!NoMiss THEN settings ELSE {}) :
        /\ failing \ {Azure!Read("activity", "")} \subseteq asked(failing)
        /\ Azure!Done(failing,
             Azure!And(Azure!SubscriptionSettings(failing),
               IF Azure!monitoredMiss # Azure!NoMiss
               THEN Azure!Left(Azure!leaveOut(Azure!monitoredMiss,
                     {Azure!MonitoredCount, Azure!LoggedPct, Azure!UnloggedCount}))
               ELSE Azure!ResourceSettings(failing)),
             found)
  BY Zenon DEF Azure!CollectLogging
<1>9. /\ failing \in SUBSET ({AzureFacts!Read("activity", "")} \cup
           IF AzureFacts!monitoredMiss = AzureFacts!NoMiss THEN tooSettings ELSE {})
      /\ failing \ {AzureFacts!Read("activity", "")} \subseteq tooAsked(failing)
      /\ AzureFacts!Done(failing,
           AzureFacts!And(AzureFacts!SubscriptionSettings(failing),
             IF AzureFacts!monitoredMiss # AzureFacts!NoMiss
             THEN AzureFacts!Left(AzureFacts!leaveOut(AzureFacts!monitoredMiss,
                   {AzureFacts!MonitoredCount, AzureFacts!LoggedPct,
                    AzureFacts!UnloggedCount}))
             ELSE AzureFacts!ResourceSettings(failing)),
           found)
  <2> HIDE DEF settings, tooSettings, asked, tooAsked
  <2> QED
    BY <1>1, <1>2, <1>3, <1>5, <1>6, <1>8, SameSettings
<1> QED
  BY Zenon, <1>4, <1>7, <1>9 DEF AzureFacts!CollectLogging

LEMMA SameAzure == Azure!Next => AzureFacts!Next
<1>1. Azure!SubscriptionFound => AzureFacts!SubscriptionFound
  BY Zenon DEF Azure!Steps, AzureFacts!Steps, Azure!NoMiss, AzureFacts!NoMiss,
       Azure!NothingFound, AzureFacts!NothingFound, Azure!pointer,
       AzureFacts!pointer, Azure!Nothing, AzureFacts!Nothing, Azure!At,
       AzureFacts!At, Azure!Fail, AzureFacts!Fail, Azure!Settle,
       AzureFacts!Settle, Azure!NextAccount, AzureFacts!NextAccount,
       Azure!Proceed, AzureFacts!Proceed, Azure!Done, AzureFacts!Done,
       Azure!SubscriptionFound, AzureFacts!SubscriptionFound,
       Azure!Cardinality, AzureFacts!Cardinality
<1>2. Azure!SubscriptionUnreadable => AzureFacts!SubscriptionUnreadable
  BY Zenon DEF Azure!Whole, AzureFacts!Whole, Azure!DefenderFields,
       AzureFacts!DefenderFields, Azure!RBACFields, AzureFacts!RBACFields,
       Azure!AssignmentsCount, AzureFacts!AssignmentsCount, Azure!CompliantPct,
       AzureFacts!CompliantPct, Azure!NoncompliantCount,
       AzureFacts!NoncompliantCount, Azure!StorageCount,
       AzureFacts!StorageCount, Azure!StoragePcts, AzureFacts!StoragePcts,
       Azure!KeyVaultFields, AzureFacts!KeyVaultFields, Azure!ServersCount,
       AzureFacts!ServersCount, Azure!ServersPct, AzureFacts!ServersPct,
       Azure!DatabasesCount, AzureFacts!DatabasesCount, Azure!TDEPct,
       AzureFacts!TDEPct, Azure!MachinesCount, AzureFacts!MachinesCount,
       Azure!DiskPct, AzureFacts!DiskPct, Azure!PublicIPPct,
       AzureFacts!PublicIPPct, Azure!VaultPct, AzureFacts!VaultPct,
       Azure!ProtectedPct, AzureFacts!ProtectedPct, Azure!RetentionMin,
       AzureFacts!RetentionMin, Azure!BackupAge, AzureFacts!BackupAge,
       Azure!FailedJobs, AzureFacts!FailedJobs, Azure!PublicIPCount,
       AzureFacts!PublicIPCount, Azure!GroupsCount, AzureFacts!GroupsCount,
       Azure!OpenPcts, AzureFacts!OpenPcts, Azure!SettingsEnabled,
       AzureFacts!SettingsEnabled, Azure!ActivityExported,
       AzureFacts!ActivityExported, Azure!MonitoredCount,
       AzureFacts!MonitoredCount, Azure!LoggedPct, AzureFacts!LoggedPct,
       Azure!UnloggedCount, AzureFacts!UnloggedCount, Azure!InventoryFields,
       AzureFacts!InventoryFields, Azure!Fields, AzureFacts!Fields,
       Azure!Blocks, AzureFacts!Blocks, Azure!azureAccountBlocks,
       AzureFacts!azureAccountBlocks, Azure!Steps, AzureFacts!Steps,
       Azure!NoMiss, AzureFacts!NoMiss, Azure!failed, AzureFacts!failed,
       Azure!configInvalid, AzureFacts!configInvalid, Azure!NothingFound,
       AzureFacts!NothingFound, Azure!audit, AzureFacts!audit, Azure!Read,
       AzureFacts!Read, Azure!pointer, AzureFacts!pointer, Azure!partial,
       AzureFacts!partial, Azure!leaveOut, AzureFacts!leaveOut,
       Azure!LeaveOutBlock, AzureFacts!LeaveOutBlock, Azure!Nothing,
       AzureFacts!Nothing, Azure!Left, AzureFacts!Left, Azure!At,
       AzureFacts!At, Azure!Fail, AzureFacts!Fail, Azure!Settle,
       AzureFacts!Settle, Azure!NextAccount, AzureFacts!NextAccount,
       Azure!LeaveSubscription, AzureFacts!LeaveSubscription,
       Azure!UnreadableBlocks, AzureFacts!UnreadableBlocks,
       Azure!SubscriptionUnreadable, AzureFacts!SubscriptionUnreadable,
       Azure!Cardinality, AzureFacts!Cardinality
<1>3. Azure!CollectDefender => AzureFacts!CollectDefender
  BY Zenon DEF Azure!Steps, AzureFacts!Steps, Azure!NoMiss, AzureFacts!NoMiss,
       Azure!failed, AzureFacts!failed, Azure!unlicensed,
       AzureFacts!unlicensed, Azure!NothingFound, AzureFacts!NothingFound,
       Azure!estate, AzureFacts!estate, Azure!Read, AzureFacts!Read,
       Azure!pointer, AzureFacts!pointer, Azure!partial, AzureFacts!partial,
       Azure!leaveOut, AzureFacts!leaveOut, Azure!Over, AzureFacts!Over,
       Azure!Nothing, AzureFacts!Nothing, Azure!Left, AzureFacts!Left,
       Azure!Wrote, AzureFacts!Wrote, Azure!And, AzureFacts!And, Azure!At,
       AzureFacts!At, Azure!Fail, AzureFacts!Fail, Azure!Settle,
       AzureFacts!Settle, Azure!NextAccount, AzureFacts!NextAccount,
       Azure!Proceed, AzureFacts!Proceed, Azure!Done, AzureFacts!Done,
       Azure!missOf, AzureFacts!missOf, Azure!CollectDefender,
       AzureFacts!CollectDefender, Azure!Cardinality, AzureFacts!Cardinality
<1>4. Azure!CollectRBAC => AzureFacts!CollectRBAC
  BY Zenon DEF Azure!Whole, AzureFacts!Whole, Azure!RBACFields,
       AzureFacts!RBACFields, Azure!Steps, AzureFacts!Steps, Azure!NoMiss,
       AzureFacts!NoMiss, Azure!failed, AzureFacts!failed, Azure!NothingFound,
       AzureFacts!NothingFound, Azure!Read, AzureFacts!Read, Azure!pointer,
       AzureFacts!pointer, Azure!partial, AzureFacts!partial, Azure!leaveOut,
       AzureFacts!leaveOut, Azure!LeaveOutBlock, AzureFacts!LeaveOutBlock,
       Azure!Nothing, AzureFacts!Nothing, Azure!Left, AzureFacts!Left,
       Azure!Wrote, AzureFacts!Wrote, Azure!At, AzureFacts!At, Azure!Fail,
       AzureFacts!Fail, Azure!Settle, AzureFacts!Settle, Azure!NextAccount,
       AzureFacts!NextAccount, Azure!Proceed, AzureFacts!Proceed, Azure!Done,
       AzureFacts!Done, Azure!missOf, AzureFacts!missOf, Azure!OneList,
       AzureFacts!OneList, Azure!CollectRBAC, AzureFacts!CollectRBAC,
       Azure!Cardinality, AzureFacts!Cardinality
<1>5. Azure!CollectPolicy => AzureFacts!CollectPolicy
  BY Zenon DEF Azure!Whole, AzureFacts!Whole, Azure!AssignmentsCount,
       AzureFacts!AssignmentsCount, Azure!CompliantPct,
       AzureFacts!CompliantPct, Azure!NoncompliantCount,
       AzureFacts!NoncompliantCount, Azure!Steps, AzureFacts!Steps,
       Azure!NoMiss, AzureFacts!NoMiss, Azure!failed, AzureFacts!failed,
       Azure!NothingFound, AzureFacts!NothingFound, Azure!estate,
       AzureFacts!estate, Azure!Read, AzureFacts!Read, Azure!pointer,
       AzureFacts!pointer, Azure!partial, AzureFacts!partial, Azure!leaveOut,
       AzureFacts!leaveOut, Azure!LeaveOutBlock, AzureFacts!LeaveOutBlock,
       Azure!Over, AzureFacts!Over, Azure!Nothing, AzureFacts!Nothing,
       Azure!Left, AzureFacts!Left, Azure!Wrote, AzureFacts!Wrote, Azure!And,
       AzureFacts!And, Azure!At, AzureFacts!At, Azure!Fail, AzureFacts!Fail,
       Azure!Settle, AzureFacts!Settle, Azure!NextAccount,
       AzureFacts!NextAccount, Azure!Proceed, AzureFacts!Proceed, Azure!Done,
       AzureFacts!Done, Azure!CollectPolicy, AzureFacts!CollectPolicy,
       Azure!Cardinality, AzureFacts!Cardinality
<1>6. Azure!CollectStorage => AzureFacts!CollectStorage
  BY Zenon DEF Azure!Whole, AzureFacts!Whole, Azure!StorageCount,
       AzureFacts!StorageCount, Azure!StoragePcts, AzureFacts!StoragePcts,
       Azure!Steps, AzureFacts!Steps, Azure!NoMiss, AzureFacts!NoMiss,
       Azure!failed, AzureFacts!failed, Azure!NothingFound,
       AzureFacts!NothingFound, Azure!estate, AzureFacts!estate, Azure!Read,
       AzureFacts!Read, Azure!pointer, AzureFacts!pointer, Azure!partial,
       AzureFacts!partial, Azure!leaveOut, AzureFacts!leaveOut,
       Azure!LeaveOutBlock, AzureFacts!LeaveOutBlock, Azure!Over,
       AzureFacts!Over, Azure!Nothing, AzureFacts!Nothing, Azure!Left,
       AzureFacts!Left, Azure!Wrote, AzureFacts!Wrote, Azure!At, AzureFacts!At,
       Azure!Fail, AzureFacts!Fail, Azure!Settle, AzureFacts!Settle,
       Azure!NextAccount, AzureFacts!NextAccount, Azure!Proceed,
       AzureFacts!Proceed, Azure!Done, AzureFacts!Done, Azure!missOf,
       AzureFacts!missOf, Azure!OneList, AzureFacts!OneList,
       Azure!CollectStorage, AzureFacts!CollectStorage, Azure!Cardinality,
       AzureFacts!Cardinality, Azure!ToSet, AzureFacts!ToSet
<1>7. Azure!CollectKeyVault => AzureFacts!CollectKeyVault
  BY Zenon DEF Azure!Whole, AzureFacts!Whole, Azure!KeyVaultFields,
       AzureFacts!KeyVaultFields, Azure!Steps, AzureFacts!Steps, Azure!NoMiss,
       AzureFacts!NoMiss, Azure!failed, AzureFacts!failed, Azure!NothingFound,
       AzureFacts!NothingFound, Azure!estate, AzureFacts!estate, Azure!Read,
       AzureFacts!Read, Azure!pointer, AzureFacts!pointer, Azure!partial,
       AzureFacts!partial, Azure!leaveOut, AzureFacts!leaveOut,
       Azure!LeaveOutBlock, AzureFacts!LeaveOutBlock, Azure!Over,
       AzureFacts!Over, Azure!Nothing, AzureFacts!Nothing, Azure!Left,
       AzureFacts!Left, Azure!Wrote, AzureFacts!Wrote, Azure!At, AzureFacts!At,
       Azure!Fail, AzureFacts!Fail, Azure!Settle, AzureFacts!Settle,
       Azure!NextAccount, AzureFacts!NextAccount, Azure!Proceed,
       AzureFacts!Proceed, Azure!Done, AzureFacts!Done, Azure!missOf,
       AzureFacts!missOf, Azure!OneList, AzureFacts!OneList,
       Azure!CollectKeyVault, AzureFacts!CollectKeyVault, Azure!Cardinality,
       AzureFacts!Cardinality, Azure!ToSet, AzureFacts!ToSet
<1>8. Azure!ServersUnread => AzureFacts!ServersUnread
  BY Zenon DEF Azure!Whole, AzureFacts!Whole, Azure!Steps, AzureFacts!Steps,
       Azure!NoMiss, AzureFacts!NoMiss, Azure!failed, AzureFacts!failed,
       Azure!NothingFound, AzureFacts!NothingFound, Azure!Read,
       AzureFacts!Read, Azure!pointer, AzureFacts!pointer, Azure!partial,
       AzureFacts!partial, Azure!leaveOut, AzureFacts!leaveOut,
       Azure!LeaveOutBlock, AzureFacts!LeaveOutBlock, Azure!Nothing,
       AzureFacts!Nothing, Azure!Left, AzureFacts!Left, Azure!At,
       AzureFacts!At, Azure!Fail, AzureFacts!Fail, Azure!Settle,
       AzureFacts!Settle, Azure!NextAccount, AzureFacts!NextAccount,
       Azure!Proceed, AzureFacts!Proceed, Azure!Done, AzureFacts!Done,
       Azure!ServersUnread, AzureFacts!ServersUnread, Azure!Cardinality,
       AzureFacts!Cardinality
<1>9. Azure!CollectSQL => AzureFacts!CollectSQL
  BY Zenon DEF Azure!ServersCount, AzureFacts!ServersCount, Azure!ServersPct,
       AzureFacts!ServersPct, Azure!DatabasesCount, AzureFacts!DatabasesCount,
       Azure!TDEPct, AzureFacts!TDEPct, Azure!IDs, AzureFacts!IDs, Azure!Steps,
       AzureFacts!Steps, Azure!NoMiss, AzureFacts!NoMiss, Azure!failed,
       AzureFacts!failed, Azure!NothingFound, AzureFacts!NothingFound,
       Azure!estate, AzureFacts!estate, Azure!Read, AzureFacts!Read,
       Azure!pointer, AzureFacts!pointer, Azure!partial, AzureFacts!partial,
       Azure!leaveOut, AzureFacts!leaveOut, Azure!Over, AzureFacts!Over,
       Azure!Number, AzureFacts!Number, Azure!Nothing, AzureFacts!Nothing,
       Azure!Left, AzureFacts!Left, Azure!Wrote, AzureFacts!Wrote, Azure!And,
       AzureFacts!And, Azure!Count, AzureFacts!Count, Azure!At, AzureFacts!At,
       Azure!Fail, AzureFacts!Fail, Azure!Settle, AzureFacts!Settle,
       Azure!NextAccount, AzureFacts!NextAccount, Azure!Proceed,
       AzureFacts!Proceed, Azure!Done, AzureFacts!Done, Azure!ListedDatabases,
       AzureFacts!ListedDatabases, Azure!Unread, AzureFacts!Unread,
       Azure!FirstOf, AzureFacts!FirstOf, Azure!FirstFailure,
       AzureFacts!FirstFailure, Azure!LeftUnread, AzureFacts!LeftUnread,
       Azure!DatabaseValues, AzureFacts!DatabaseValues, Azure!CollectSQL,
       AzureFacts!CollectSQL, Azure!Cardinality, AzureFacts!Cardinality,
       Azure!Min, AzureFacts!Min, Azure!ToSet, AzureFacts!ToSet
<1>10. Azure!CollectCompute => AzureFacts!CollectCompute
  BY Zenon DEF Azure!Whole, AzureFacts!Whole, Azure!MachinesCount,
       AzureFacts!MachinesCount, Azure!DiskPct, AzureFacts!DiskPct,
       Azure!PublicIPPct, AzureFacts!PublicIPPct, Azure!Steps,
       AzureFacts!Steps, Azure!NoMiss, AzureFacts!NoMiss, Azure!failed,
       AzureFacts!failed, Azure!NothingFound, AzureFacts!NothingFound,
       Azure!estate, AzureFacts!estate, Azure!Read, AzureFacts!Read,
       Azure!pointer, AzureFacts!pointer, Azure!partial, AzureFacts!partial,
       Azure!leaveOut, AzureFacts!leaveOut, Azure!LeaveOutBlock,
       AzureFacts!LeaveOutBlock, Azure!Over, AzureFacts!Over, Azure!Nothing,
       AzureFacts!Nothing, Azure!Left, AzureFacts!Left, Azure!Wrote,
       AzureFacts!Wrote, Azure!And, AzureFacts!And, Azure!At, AzureFacts!At,
       Azure!Fail, AzureFacts!Fail, Azure!Settle, AzureFacts!Settle,
       Azure!NextAccount, AzureFacts!NextAccount, Azure!Proceed,
       AzureFacts!Proceed, Azure!Done, AzureFacts!Done, Azure!missOf,
       AzureFacts!missOf, Azure!machineValues, AzureFacts!machineValues,
       Azure!CollectCompute, AzureFacts!CollectCompute, Azure!Cardinality,
       AzureFacts!Cardinality, Azure!ToSet, AzureFacts!ToSet
<1>11. Azure!VaultsUnread => AzureFacts!VaultsUnread
  BY Zenon DEF Azure!Whole, AzureFacts!Whole, Azure!Steps, AzureFacts!Steps,
       Azure!NoMiss, AzureFacts!NoMiss, Azure!failed, AzureFacts!failed,
       Azure!NothingFound, AzureFacts!NothingFound, Azure!Read,
       AzureFacts!Read, Azure!pointer, AzureFacts!pointer, Azure!partial,
       AzureFacts!partial, Azure!leaveOut, AzureFacts!leaveOut,
       Azure!LeaveOutBlock, AzureFacts!LeaveOutBlock, Azure!Nothing,
       AzureFacts!Nothing, Azure!Left, AzureFacts!Left, Azure!At,
       AzureFacts!At, Azure!Fail, AzureFacts!Fail, Azure!Settle,
       AzureFacts!Settle, Azure!NextAccount, AzureFacts!NextAccount,
       Azure!Proceed, AzureFacts!Proceed, Azure!Done, AzureFacts!Done,
       Azure!VaultsUnread, AzureFacts!VaultsUnread, Azure!Cardinality,
       AzureFacts!Cardinality
<1>12. Azure!NoVaults => AzureFacts!NoVaults
  BY Zenon DEF Azure!ProtectedPct, AzureFacts!ProtectedPct,
       Azure!RetentionRead, AzureFacts!RetentionRead, Azure!Steps,
       AzureFacts!Steps, Azure!NoMiss, AzureFacts!NoMiss, Azure!firstMissing,
       AzureFacts!firstMissing, Azure!NothingFound, AzureFacts!NothingFound,
       Azure!estate, AzureFacts!estate, Azure!pointer, AzureFacts!pointer,
       Azure!partial, AzureFacts!partial, Azure!leaveOut, AzureFacts!leaveOut,
       Azure!Number, AzureFacts!Number, Azure!Nothing, AzureFacts!Nothing,
       Azure!Left, AzureFacts!Left, Azure!Wrote, AzureFacts!Wrote, Azure!And,
       AzureFacts!And, Azure!Count, AzureFacts!Count, Azure!At, AzureFacts!At,
       Azure!Fail, AzureFacts!Fail, Azure!Settle, AzureFacts!Settle,
       Azure!NextAccount, AzureFacts!NextAccount, Azure!Proceed,
       AzureFacts!Proceed, Azure!Done, AzureFacts!Done, Azure!backupPopulation,
       AzureFacts!backupPopulation, Azure!backupMiss, AzureFacts!backupMiss,
       Azure!protectedResourcePct, AzureFacts!protectedResourcePct,
       Azure!NoVaults, AzureFacts!NoVaults, Azure!Cardinality,
       AzureFacts!Cardinality
<1>13. Azure!CollectNetwork => AzureFacts!CollectNetwork
  BY Zenon DEF Azure!PublicIPCount, AzureFacts!PublicIPCount,
       Azure!GroupsCount, AzureFacts!GroupsCount, Azure!OpenPcts,
       AzureFacts!OpenPcts, Azure!Steps, AzureFacts!Steps, Azure!NoMiss,
       AzureFacts!NoMiss, Azure!failed, AzureFacts!failed, Azure!NothingFound,
       AzureFacts!NothingFound, Azure!estate, AzureFacts!estate, Azure!Read,
       AzureFacts!Read, Azure!pointer, AzureFacts!pointer, Azure!partial,
       AzureFacts!partial, Azure!leaveOut, AzureFacts!leaveOut, Azure!Over,
       AzureFacts!Over, Azure!Nothing, AzureFacts!Nothing, Azure!Left,
       AzureFacts!Left, Azure!Wrote, AzureFacts!Wrote, Azure!And,
       AzureFacts!And, Azure!At, AzureFacts!At, Azure!Fail, AzureFacts!Fail,
       Azure!Settle, AzureFacts!Settle, Azure!NextAccount,
       AzureFacts!NextAccount, Azure!Proceed, AzureFacts!Proceed, Azure!Done,
       AzureFacts!Done, Azure!CollectNetwork, AzureFacts!CollectNetwork,
       Azure!Cardinality, AzureFacts!Cardinality
<1>14. Azure!CollectInventory => AzureFacts!CollectInventory
  BY Zenon DEF Azure!Whole, AzureFacts!Whole, Azure!InventoryFields,
       AzureFacts!InventoryFields, Azure!Steps, AzureFacts!Steps, Azure!NoMiss,
       AzureFacts!NoMiss, Azure!failed, AzureFacts!failed, Azure!NothingFound,
       AzureFacts!NothingFound, Azure!audit, AzureFacts!audit, Azure!estate,
       AzureFacts!estate, Azure!Read, AzureFacts!Read, Azure!pointer,
       AzureFacts!pointer, Azure!partial, AzureFacts!partial, Azure!leaveOut,
       AzureFacts!leaveOut, Azure!LeaveOutBlock, AzureFacts!LeaveOutBlock,
       Azure!Over, AzureFacts!Over, Azure!Nothing, AzureFacts!Nothing,
       Azure!Left, AzureFacts!Left, Azure!Wrote, AzureFacts!Wrote, Azure!At,
       AzureFacts!At, Azure!Fail, AzureFacts!Fail, Azure!Settle,
       AzureFacts!Settle, Azure!NextAccount, AzureFacts!NextAccount,
       Azure!Proceed, AzureFacts!Proceed, Azure!Done, AzureFacts!Done,
       Azure!missOf, AzureFacts!missOf, Azure!OneList, AzureFacts!OneList,
       Azure!CollectInventory, AzureFacts!CollectInventory, Azure!Cardinality,
       AzureFacts!Cardinality
<1>15. Azure!SkipInventory => AzureFacts!SkipInventory
  BY Zenon DEF Azure!Steps, AzureFacts!Steps, Azure!NoMiss, AzureFacts!NoMiss,
       Azure!NothingFound, AzureFacts!NothingFound, Azure!audit,
       AzureFacts!audit, Azure!pointer, AzureFacts!pointer, Azure!Nothing,
       AzureFacts!Nothing, Azure!At, AzureFacts!At, Azure!Fail,
       AzureFacts!Fail, Azure!Settle, AzureFacts!Settle, Azure!NextAccount,
       AzureFacts!NextAccount, Azure!Proceed, AzureFacts!Proceed, Azure!Done,
       AzureFacts!Done, Azure!SkipInventory, AzureFacts!SkipInventory,
       Azure!Cardinality, AzureFacts!Cardinality
<1> QED
  BY <1>1, <1>2, <1>3, <1>4, <1>5, <1>6, <1>7, <1>8, <1>9, <1>10, <1>11, <1>12,
     <1>13, <1>14, <1>15, SameBackup, SameLogging DEF Azure!Next,
     AzureFacts!Next

LEMMA SameInit == Azure!Init => AzureFacts!Init
BY Zenon DEF Azure!NoMiss, AzureFacts!NoMiss, Azure!NothingFound,
     AzureFacts!NothingFound, Azure!Init, AzureFacts!Init

LEMMA SameAzureVars == UNCHANGED azureVars /\ UNCHANGED level => UNCHANGED AzureFacts!azureVars
BY DEF azureVars, AzureFacts!azureVars

(* What the proofs about the collection assume holds of this one.          *)
LEMMA AzureAssumptions ==
  /\ AzureFacts!ConfigurationsAssumption
  /\ AzureFacts!LevelsAssumption
  /\ AzureFacts!MaxFailuresAssumption
<1>1. AzureFacts!Estate = Azure!Estate /\ \A e : AzureFacts!IsEstate(e) = Azure!IsEstate(e)
  BY Zenon DEF Azure!Estate, AzureFacts!Estate, Azure!Database, AzureFacts!Database,
     Azure!Item, AzureFacts!Item, Azure!BackupPolicy, AzureFacts!BackupPolicy,
     Azure!Job, AzureFacts!Job, Azure!Vault, AzureFacts!Vault, Azure!Settings,
     AzureFacts!Settings, Azure!IsEstate, AzureFacts!IsEstate, Azure!IDs, AzureFacts!IDs,
     Azure!Distinct, AzureFacts!Distinct, Azure!ToSet, AzureFacts!ToSet
<1> QED
  BY <1>1, ConfigurationsAssumption, LevelsAssumption, MaxAzureFailuresAssumption
     DEF AzureFacts!ConfigurationsAssumption, AzureFacts!LevelsAssumption,
         AzureFacts!MaxFailuresAssumption

LEMMA AzureStarts == Azure!Init => AzureFacts!AzureInv
BY SameInit, AzureAssumptions, AzureFacts!InitAzureInv

LEMMA AzureGoesOn ==
  AzureFacts!AzureInv /\ (Azure!Next \/ UNCHANGED <<level, azureVars>>) =>
    /\ AzureFacts!AzureInv'
    /\ \A g \in azureGaps' :
         /\ g.why.about \in failedReads' /\ g.why.about[1] = g.at[1]
         /\ g \notin azureGaps /\ g.why.about[2] \in AzureFacts!Settings =>
              g.why.about \notin failedReads
BY SameAzure, SameAzureVars, AzureAssumptions, AzureFacts!NextAzureInv, AzureFacts!NewGapsAre

-----------------------------------------------------------------------------
(* What the diagnostics name: a failed Azure read by itself, but that of a *)
(* subscription by its error, and that of a setting when a gap names it.   *)
NamedIn(r, account0, d) ==
  r \in d.azureWarned \/ (r[2] = "subscription" /\ account0 \in d.subscriptionErrors)

AzureReadsNamed ==
  \A r \in failedReads : r[2] \notin SettingReads => NamedIn(r, r[1], diagnostics)
AzureGapsNamed ==
  \A g \in azureGaps : NamedIn(g.why.about, g.at[1], diagnostics)
EntraReadsNamed ==
  /\ diagnostics.warned = {r \in Reads : miss[r] # NoMiss}
  /\ diagnostics.capabilities = unavailable
FieldsOfDiagnostics ==
  diagnostics = [subscriptionErrors |-> diagnostics.subscriptionErrors,
                 warned |-> diagnostics.warned, azureWarned |-> diagnostics.azureWarned,
                 capabilities |-> diagnostics.capabilities]
Copied == phase = "done" => copies = [h \in Holders |-> diagnostics]

DiagnosticsInv ==
  /\ CausesInv /\ phase \in Phases /\ AzureFacts!AzureInv
  /\ FieldsOfDiagnostics /\ EntraReadsNamed /\ AzureReadsNamed /\ AzureGapsNamed /\ Copied

LEMMA InitDiagnosticsInv == RunInit => DiagnosticsInv
<1> SUFFICES ASSUME RunInit PROVE DiagnosticsInv
  OBVIOUS
<1>1. CausesInv /\ AzureFacts!AzureInv /\ phase \in Phases /\ Copied
  BY InitCausesInv, AzureStarts DEF RunInit, Phases, Copied
<1>2. /\ diagnostics.subscriptionErrors = {} /\ diagnostics.warned = {}
      /\ diagnostics.azureWarned = {} /\ diagnostics.capabilities = {}
      /\ FieldsOfDiagnostics
  BY DEF RunInit, NewDiagnostics, FieldsOfDiagnostics
<1>3. EntraReadsNamed
  BY <1>2 DEF RunInit, Init, EntraReadsNamed
<1>4. failedReads = {} /\ azureGaps = {}
  BY DEF RunInit, Azure!Init
<1> QED
  BY <1>1, <1>2, <1>3, <1>4 DEF DiagnosticsInv, AzureReadsNamed, AzureGapsNamed

(* A Graph read is warned of just when it fails, and then for good.        *)
LEMMA EntraReadNamed ==
  ASSUME CausesInv, FieldsOfDiagnostics, EntraReadsNamed, collectEntra
  PROVE  /\ FieldsOfDiagnostics' /\ EntraReadsNamed'
         /\ diagnostics'.azureWarned = diagnostics.azureWarned
         /\ diagnostics'.subscriptionErrors = diagnostics.subscriptionErrors
<1>1. Next
  BY DEF collectEntra
<1>2. PICK r, x : r \in Reads /\ Receive(r, x)
  <2>1. PICK x \in Responses : Handle(x)
    BY <1>1 DEF Next
  <2>2. PICK r : LeavesOutForCause(r, x)
    BY <2>1, HandlersHaveCauses
  <2> QED
    BY <2>2 DEF LeavesOutForCause
<1>3. TypeOK
  BY DEF CausesInv, ValuesInv, IInv
<1>4. pc = r /\ \A s \in Reads \ {r} : miss'[s] = miss[s]
  BY <1>2, <1>3, OtherReadsKept DEF Receive
<1>5. miss[r] = NoMiss
  <2>1. Turn[r] \in Nat
    BY <1>2, Turns DEF Reads
  <2> QED
    BY <1>2, <1>4, <2>1 DEF CausesInv, ValuesInv, NothingAhead
<1>6. {s \in Reads : miss'[s] # NoMiss} =
        {s \in Reads : miss[s] # NoMiss} \cup {s \in {pc} : miss'[s] # NoMiss}
  BY <1>2, <1>4, <1>5
<1>7. /\ diagnostics'.warned = diagnostics.warned \cup {s \in {pc} : warns(s)}
      /\ diagnostics'.capabilities = unavailable' /\ FieldsOfDiagnostics'
      /\ diagnostics'.azureWarned = diagnostics.azureWarned
      /\ diagnostics'.subscriptionErrors = diagnostics.subscriptionErrors
  BY DEF collectEntra, FieldsOfDiagnostics
<1> QED
  BY <1>6, <1>7 DEF EntraReadsNamed, warns

(* The Azure reads that fail in a step, and the gaps it leaves, are named. *)
LEMMA AzureReadNamed ==
  ASSUME AzureFacts!AzureInv, FieldsOfDiagnostics, AzureReadsNamed, AzureGapsNamed,
         collectAzure
  PROVE  /\ FieldsOfDiagnostics' /\ AzureReadsNamed' /\ AzureGapsNamed'
         /\ diagnostics'.warned = diagnostics.warned
         /\ diagnostics'.capabilities = diagnostics.capabilities
<1>1. /\ diagnostics'.subscriptionErrors = diagnostics.subscriptionErrors \cup subscriptionErrors
      /\ diagnostics'.azureWarned = diagnostics.azureWarned \cup azureWarnings
      /\ diagnostics'.warned = diagnostics.warned
      /\ diagnostics'.capabilities = diagnostics.capabilities /\ FieldsOfDiagnostics'
  BY DEF collectAzure, FieldsOfDiagnostics
<1>2. \A r, a : NamedIn(r, a, diagnostics) => NamedIn(r, a, diagnostics')
  BY <1>1 DEF NamedIn
<1>3. AzureReadsNamed'
  <2>1. ASSUME NEW r \in failedReads', r[2] \notin SettingReads, r \notin failedReads
        PROVE  NamedIn(r, r[1], diagnostics')
    BY <1>1, <2>1 DEF NamedIn, subscriptionErrors, azureWarnings
  <2> QED
    BY <1>2, <2>1 DEF AzureReadsNamed
<1>4. \A g \in azureGaps' :
        /\ g.why.about \in failedReads' /\ g.why.about[1] = g.at[1]
        /\ g \notin azureGaps /\ g.why.about[2] \in SettingReads =>
             g.why.about \notin failedReads
  <2>1. SettingReads = AzureFacts!Settings
    BY DEF SettingReads, AzureFacts!Settings
  <2> QED
    BY <2>1, AzureGoesOn DEF collectAzure
<1>5. ASSUME NEW g \in azureGaps'
      PROVE  NamedIn(g.why.about, g.at[1], diagnostics')
  <2>1. CASE g \in azureGaps
    BY <1>2, <2>1 DEF AzureGapsNamed
  <2>2. CASE g.why.about[2] \notin SettingReads
    BY <1>3, <1>4, <2>2 DEF AzureReadsNamed
  <2>3. CASE g \notin azureGaps /\ g.why.about[2] \in SettingReads
    <3>1. g.why.about \in failedReads' \ failedReads
      BY <1>4, <2>3
    <3>2. g.why.about \in azureWarnings
      BY <2>3, <3>1 DEF azureWarnings
    <3> QED
      BY <1>1, <3>2 DEF NamedIn
  <2> QED
    BY <2>1, <2>2, <2>3
<1> QED
  BY <1>1, <1>3, <1>5 DEF AzureGapsNamed

LEMMA NextDiagnosticsInv == DiagnosticsInv /\ [RunNext]_runVars => DiagnosticsInv'
<1> SUFFICES ASSUME DiagnosticsInv, [RunNext]_runVars PROVE DiagnosticsInv'
  OBVIOUS
<1>1. CausesInv'
  BY RunStepsEntra, NextCausesInv DEF DiagnosticsInv
<1>2. AzureFacts!AzureInv' /\ (UNCHANGED runVars \/ ~collectAzure => UNCHANGED azureVars)
  <2>1. UNCHANGED <<level, azureVars>> \/ Azure!Next
    <3>1. signIn \/ finish \/ UNCHANGED runVars => UNCHANGED <<level, azureVars>>
      BY DEF signIn, finish, runVars
    <3>2. collectEntra => UNCHANGED <<level, azureVars>>
      <4>1. ASSUME Next PROVE level' = level
        <5>1. PICK x \in Responses : Handle(x)
          BY <4>1 DEF Next
        <5>2. PICK r : LeavesOutForCause(r, x)
          BY <5>1, HandlersHaveCauses DEF DiagnosticsInv
        <5> QED
          BY <5>2 DEF LeavesOutForCause, Receive
      <4> QED
        BY <4>1 DEF collectEntra
    <3> QED
      BY <3>1, <3>2 DEF RunNext, collectAzure
  <2>2. UNCHANGED runVars \/ ~collectAzure => UNCHANGED azureVars
    BY DEF RunNext, signIn, collectEntra, finish, runVars
  <2> QED
    BY <2>1, <2>2, AzureGoesOn DEF DiagnosticsInv
<1>3. CASE UNCHANGED runVars
  <2>1. UNCHANGED <<phase, miss, unavailable, failedReads, azureGaps, diagnostics, copies>>
    BY <1>3 DEF runVars, entraVars, azureVars, outVars
  <2> QED
    BY <1>1, <1>2, <2>1 DEF DiagnosticsInv, FieldsOfDiagnostics, EntraReadsNamed,
       AzureReadsNamed, AzureGapsNamed, Copied
<1>4. CASE signIn \/ finish
  <2>1. UNCHANGED <<miss, unavailable, failedReads, azureGaps, diagnostics>>
    BY <1>4 DEF signIn, finish, entraVars, azureVars
  <2>2. phase' \in Phases /\ Copied'
    BY <1>4, <2>1 DEF signIn, finish, Phases, Ended, Copied, Copy, copiedTo, DiagnosticsInv
  <2> QED
    BY <1>1, <1>2, <2>1, <2>2 DEF DiagnosticsInv, FieldsOfDiagnostics, EntraReadsNamed,
       AzureReadsNamed, AzureGapsNamed
<1>5. CASE collectEntra
  <2>1. UNCHANGED <<failedReads, azureGaps>> /\ phase' \in {"entra", "azure"}
    BY <1>5 DEF collectEntra, azureVars
  <2>2. /\ FieldsOfDiagnostics' /\ EntraReadsNamed'
        /\ diagnostics'.azureWarned = diagnostics.azureWarned
        /\ diagnostics'.subscriptionErrors = diagnostics.subscriptionErrors
    BY <1>5, EntraReadNamed DEF DiagnosticsInv
  <2>3. AzureReadsNamed' /\ AzureGapsNamed'
    BY <2>1, <2>2 DEF DiagnosticsInv, AzureReadsNamed, AzureGapsNamed, NamedIn
  <2> QED
    BY <1>1, <1>2, <2>1, <2>2, <2>3 DEF DiagnosticsInv, Copied, Phases
<1>6. CASE collectAzure
  <2>1. UNCHANGED <<miss, unavailable>> /\ phase' \in {"azure", "finish"}
    BY <1>6 DEF collectAzure, entraVars
  <2>2. /\ FieldsOfDiagnostics' /\ AzureReadsNamed' /\ AzureGapsNamed'
        /\ diagnostics'.warned = diagnostics.warned
        /\ diagnostics'.capabilities = diagnostics.capabilities
    BY <1>6, AzureReadNamed DEF DiagnosticsInv
  <2>3. EntraReadsNamed'
    BY <2>1, <2>2 DEF DiagnosticsInv, EntraReadsNamed
  <2> QED
    BY <1>1, <1>2, <2>1, <2>2, <2>3 DEF DiagnosticsInv, Copied, Phases
<1> QED
  BY <1>3, <1>4, <1>5, <1>6 DEF RunNext

(* Both artifacts and the result name every Graph read and every Azure     *)
(* read a value is missing for, whichever of them fail, though each        *)
(* artifact is copied the diagnostics before the run knows them all.       *)
THEOREM EveryFailureIsNamed == RunSpec => []EveryArtifactNamesEveryFailure
<1>1. ASSUME DiagnosticsInv
      PROVE  EveryArtifactNamesEveryFailure
  <2> SUFFICES ASSUME phase = "done", NEW h \in Holders
               PROVE  /\ copies[h].warned = {r \in Reads : miss[r] # NoMiss}
                      /\ copies[h].capabilities = unavailable
                      /\ \A g \in azureGaps :
                           \/ g.why.about \in copies[h].azureWarned
                           \/ /\ g.why.about[2] = "subscription"
                              /\ g.at[1] \in copies[h].subscriptionErrors
                      /\ \A g \in Holders : copies[g] = copies[h]
    BY DEF EveryArtifactNamesEveryFailure
  <2>1. \A g \in Holders : copies[g] = diagnostics
    BY <1>1 DEF DiagnosticsInv, Copied
  <2> QED
    BY <1>1, <2>1 DEF DiagnosticsInv, EntraReadsNamed, AzureGapsNamed, NamedIn
<1> QED
  BY <1>1, InitDiagnosticsInv, NextDiagnosticsInv, PTL DEF RunSpec
=============================================================================
