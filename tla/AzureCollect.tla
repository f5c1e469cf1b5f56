---------------------------- MODULE AzureCollect -----------------------------
(***************************************************************************)
(* How one run collects the Azure artifact: the configured subscriptions   *)
(* in order, and for each the twelve handlers collectAzureSubscription     *)
(* calls.  A handler reads one list, or one list and then something of     *)
(* each of its members, and any of these reads may fail.  What some        *)
(* handlers read, others measure: the backup coverage is taken over the    *)
(* machines and databases found, the logging coverage over all resources.  *)
(*                                                                         *)
(* A list is abstracted to its members' names, a percentage over one list  *)
(* to whether it is written.  The values put together from several reads   *)
(* keep their numbers.                                                     *)
(***************************************************************************)
EXTENDS Integers, Sequences, FiniteSets, SequencesExt

CONSTANTS
  Configurations, \* the subscriptions a run may have, each a sequence of estates
  Levels,         \* the collection levels a run may be configured with
  MaxFailures     \* bound on the reads that fail in one run

-----------------------------------------------------------------------------
(* A field is a block and a name.  A percentage over one list stands for   *)
(* all that are written with it.                                           *)
Whole == "*"
DefenderFields == {<<"defender", "secure_score_pct">>, <<"defender", "unpatched_pct">>}
RBACFields == {<<"rbac", "owner_count">>}
AssignmentsCount == <<"policy", "assignments_count">>
CompliantPct == <<"policy", "compliant_pct">>
NoncompliantCount == <<"policy", "noncompliant_resources_count">>
StorageCount == <<"storage", "storage_accounts_count">>
StoragePcts == {<<"storage", "encryption_cmk_pct">>,
                <<"storage", "public_access_blocked_pct">>}
KeyVaultFields == {<<"keyvault", "vaults_count">>, <<"keyvault", "purge_protection_pct">>}
ServersCount == <<"sql", "servers_count">>
ServersPct == <<"sql", "min_tls12_pct">>
DatabasesCount == <<"sql", "databases_count">>
TDEPct == <<"sql", "tde_enabled_pct">>
MachinesCount == <<"compute", "virtual_machines_count">>
DiskPct == <<"compute", "disk_encryption_pct">>
PublicIPPct == <<"compute", "public_ip_pct">>
VaultPct == <<"backup", "vault_soft_delete_pct">>
ProtectedPct == <<"backup", "protected_resource_pct">>
RetentionMin == <<"backup", "retention_days_min">>
BackupAge == <<"backup", "latest_successful_backup_age_hours_max">>
FailedJobs == <<"backup", "failed_jobs_7d_count">>
PublicIPCount == <<"network", "public_ip_addresses_count">>
GroupsCount == <<"network", "network_security_groups_count">>
OpenPcts == {<<"network", "ssh_open_to_world_pct">>, <<"network", "rdp_open_to_world_pct">>}
SettingsEnabled == <<"logging", "subscription_diagnostic_settings_enabled">>
ActivityExported == <<"logging", "activity_log_administrative_exported">>
MonitoredCount == <<"logging", "monitored_resources_count">>
LoggedPct == <<"logging", "diagnostic_settings_coverage_pct">>
UnloggedCount == <<"logging", "resources_without_diagnostics_count">>
InventoryFields == {<<"inventory", "resources_count">>, <<"inventory", "owner_tag_coverage_pct">>}

Fields ==
  DefenderFields \cup RBACFields \cup StoragePcts \cup KeyVaultFields
    \cup OpenPcts \cup InventoryFields
    \cup {AssignmentsCount, CompliantPct, NoncompliantCount, StorageCount,
          ServersCount, ServersPct, DatabasesCount, TDEPct, MachinesCount,
          DiskPct, PublicIPPct, VaultPct, ProtectedPct, RetentionMin, BackupAge,
          FailedJobs, PublicIPCount, GroupsCount, SettingsEnabled,
          ActivityExported, MonitoredCount, LoggedPct, UnloggedCount}

(* Not written to the artifact: the retention was read, perhaps as none.   *)
RetentionRead == <<"backup", "retentionRead">>

Blocks == {f[1] : f \in Fields}
azureAccountBlocks == Blocks \ {"inventory"}

(* What a subscription holds.  A storage account, key vault, database or   *)
(* machine is known by its ID, which no other has, so a set of IDs counts   *)
(* as many members as the list it is taken from; the lists keep the order. *)
(* A server holds its databases, master among them, and they are listed    *)
(* server by server.  A vault's items name what they protect and the       *)
(* policy they use, and logged are the diagnostic settings that send       *)
(* something; only a storage account has services.                         *)
Settings == {"own_settings", "service_settings"}
Database == [id : STRING, server : STRING, master : BOOLEAN, tde : BOOLEAN]
Item == [source : STRING, active : BOOLEAN, policy : STRING]
BackupPolicy == [id : STRING, days : Nat]
Job == [id : STRING, succeeded : BOOLEAN, age : Nat]
Vault == [id : STRING, items : SUBSET Item, policies : SUBSET BackupPolicy, jobs : SUBSET Job]
Estate ==
  [scored : BOOLEAN, assessed : Nat, assignments : Nat, evaluated : Nat,
   storage : Seq(STRING), keyVaults : Seq(STRING), servers : Seq(STRING),
   databases : Seq(Database), machines : Seq(STRING), publicIPs : Nat,
   groups : Nat, vaults : Seq(Vault), logged : SUBSET (STRING \X Settings),
   resources : Nat]

IDs(seq) == [n \in DOMAIN seq |-> seq[n].id]
Distinct(lists) ==
  \A k, l \in DOMAIN lists : \A n \in DOMAIN lists[k], m \in DOMAIN lists[l] :
    lists[k][n] = lists[l][m] => k = l /\ n = m

IsEstate(e) ==
  /\ Distinct(<<e.storage, e.keyVaults, IDs(e.databases), e.machines>>)
  /\ Distinct(<<e.servers>>) /\ Distinct(<<IDs(e.vaults)>>)
  /\ \A d \in ToSet(e.databases) : d.server \in ToSet(e.servers)
  /\ \A n, m \in DOMAIN e.databases, k, l \in DOMAIN e.servers :
       n < m /\ e.databases[n].server = e.servers[k] /\ e.databases[m].server = e.servers[l]
         => k <= l
  /\ \A s \in e.logged : s[2] = "service_settings" => s[1] \in ToSet(e.storage)

ASSUME ConfigurationsAssumption ==
  \A c \in Configurations :
    c \in Seq(Estate) /\ c # <<>> /\ \A i \in DOMAIN c : IsEstate(c[i])
ASSUME LevelsAssumption == Levels \subseteq {"trust", "audit", "internal"}
ASSUME MaxFailuresAssumption == MaxFailures \in Nat

-----------------------------------------------------------------------------
Steps == <<"subscription", "defender", "rbac", "policy", "storage", "keyvault",
           "sql", "compute", "backup", "network", "logging", "inventory">>
StepOf(name) == CHOOSE n \in DOMAIN Steps : Steps[n] = name

VARIABLES
  level,       \* the run's collection level
  estates,     \* the subscriptions, fixed for the run
  account,     \* the index of the subscription in hand
  step,        \* the handler that is next in it
  found,       \* what its handlers pass to later ones
  unreadable,  \* why each subscription could not be read at all
  failedReads, \* the reads that failed so far
  written,     \* the fields written, each with its subscription
  numbers,     \* the numbers of those that keep them
  gaps         \* the gaps recorded

azureVars == <<level, estates, account, step, found, unreadable, failedReads,
               written, numbers, gaps>>

NoMiss == [code |-> "none", about |-> <<>>]
failed(read) == [code |-> "failed", about |-> read]
unlicensed(read) == [code |-> "not_licensed", about |-> read]
configInvalid(read) == [code |-> "config_invalid", about |-> read]
firstMissing(a, b) == IF a # NoMiss THEN a ELSE b

NothingFound ==
  [storage |-> {}, storageMiss |-> NoMiss, keyVaults |-> {},
   keyVaultsMiss |-> NoMiss, databases |-> {}, masters |-> {},
   serversMiss |-> NoMiss, databasesMiss |-> NoMiss, machines |-> {},
   machinesMiss |-> NoMiss, publicIPs |-> 0, publicIPsMiss |-> NoMiss]

audit == level # "trust"
estate == estates[account]
Read(name, of) == <<account, name, of>>

(* Mutant: the pointers count the subscriptions from the next.             *)
pointerOfNext(f) == <<account + 1, f[1], f[2]>>

(* A gap or a value is always of the subscription in hand.                 *)
pointer(f) == <<account, f[1], f[2]>>

partial(unmeasured, why, fields) ==
  IF why = NoMiss THEN {}
  ELSE {[at |-> pointer(f), why |-> why, unmeasured |-> unmeasured] : f \in fields}
leaveOut(why, fields) == partial(0, why, fields)
LeaveOutBlock(why, block) == leaveOut(why, {<<block, Whole>>})

Over(n, fields) == IF n > 0 THEN fields ELSE {}
Number(f, ns) == {[at |-> pointer(f), num |-> n] : n \in ns}
Nothing == [fields |-> {}, nums |-> {}, left |-> {}]
Left(gs) == [Nothing EXCEPT !.left = gs]
Wrote(fs) == [Nothing EXCEPT !.fields = fs]
And(a, b) == [fields |-> a.fields \cup b.fields, nums |-> a.nums \cup b.nums,
              left |-> a.left \cup b.left]
(* A field that keeps its number: none, a null, is an empty set.           *)
Count(f, ns) == [Nothing EXCEPT !.fields = IF ns = {} THEN {} ELSE {f},
                                !.nums = Number(f, ns)]

Init ==
  /\ level \in Levels
  /\ estates \in Configurations
  /\ account = 1
  /\ step = 1
  /\ found = NothingFound
  /\ unreadable = [i \in DOMAIN estates |-> NoMiss]
  /\ failedReads = {}
  /\ written = {}
  /\ numbers = {}
  /\ gaps = {}

-----------------------------------------------------------------------------
At(name) == account \in DOMAIN estates /\ Steps[step] = name

(* The reads of a handler that fail, and it made each of them.             *)
Fail(failing) ==
  /\ failedReads' = failedReads \cup failing
  /\ Cardinality(failedReads') <= MaxFailures

Settle(outcome) ==
  /\ written' = written \cup {pointer(f) : f \in outcome.fields}
  /\ numbers' = numbers \cup outcome.nums
  /\ gaps' = gaps \cup outcome.left
  /\ UNCHANGED <<level, estates>>

NextAccount == account' = account + 1 /\ step' = 1 /\ found' = NothingFound

(* What one subscription's handlers found is not passed to the next.       *)
Proceed(found1) ==
  IF step = Len(Steps) THEN NextAccount
  ELSE step' = step + 1 /\ found' = found1 /\ UNCHANGED account

Done(failing, outcome, found1) ==
  Fail(failing) /\ Settle(outcome) /\ Proceed(found1) /\ UNCHANGED unreadable

missOf(read, failing) == IF read \in failing THEN failed(read) ELSE NoMiss

(* Mutant: the inventory of an unreadable subscription is not mentioned.   *)
UnreadableBlocksOfTrust == azureAccountBlocks

(* Mutant: a subscription that cannot be read is read on.                  *)
GoOnReading == step' = step + 1 /\ UNCHANGED <<account, found>>

LeaveSubscription == NextAccount

UnreadableBlocks == azureAccountBlocks \cup (IF audit THEN {"inventory"} ELSE {})

SubscriptionFound ==
  /\ At("subscription")
  /\ Done({}, Nothing, found)

(* A subscription that is not there is a mistake in the configuration.  It *)
(* keeps its place among the accounts, empty.                              *)
SubscriptionUnreadable ==
  /\ At("subscription")
  /\ LET read == Read("subscription", "") IN
       \E why \in {failed(read), configInvalid(read)} :
         /\ unreadable' = [unreadable EXCEPT ![account] = why]
         /\ Fail({read})
         /\ Settle(Left(UNION {LeaveOutBlock(why, b) : b \in UnreadableBlocks}))
  /\ LeaveSubscription

(* A subscription without a score, which is a 404, has no Defender plan.   *)
CollectDefender ==
  LET score == Read("score", "")
      assessments == Read("assessments", "")
      Of(field, why, n) == IF why # NoMiss THEN Left(leaveOut(why, {field}))
                           ELSE Wrote(Over(n, {field}))
  IN /\ At("defender")
     /\ \E failing \in SUBSET {score, assessments},
           scoreMiss \in {NoMiss, failed(score), unlicensed(score)} :
          /\ scoreMiss # NoMiss <=> score \in failing
          /\ Done(failing,
                  And(Of(<<"defender", "secure_score_pct">>, scoreMiss,
                         IF estate.scored THEN 1 ELSE 0),
                      Of(<<"defender", "unpatched_pct">>,
                         missOf(assessments, failing), estate.assessed)),
                  found)

(* A handler whose block is one list: the block is left out with it.       *)
OneList(name, values, foundFor(_)) ==
  /\ At(name)
  /\ \E failing \in SUBSET {Read(name, "")} :
       LET why == missOf(Read(name, ""), failing) IN
       Done(failing, IF why = NoMiss THEN values ELSE Left(LeaveOutBlock(why, name)),
            foundFor(why))

CollectRBAC == OneList("rbac", Wrote(RBACFields), LAMBDA why : found)

(* The compliance is not asked for where nothing is assigned.              *)
CollectPolicy ==
  LET list == Read("policy", "")
      summary == Read("summary", "")
  IN /\ At("policy")
     /\ \E failing \in SUBSET {list, summary} :
          /\ summary \in failing => list \notin failing /\ estate.assignments > 0
          /\ Done(failing,
                  CASE list \in failing -> Left(LeaveOutBlock(failed(list), "policy"))
                    [] summary \in failing ->
                         And(Wrote({AssignmentsCount}),
                             Left(leaveOut(failed(summary),
                                           {CompliantPct, NoncompliantCount})))
                    [] OTHER ->
                         Wrote({AssignmentsCount}
                                 \cup Over(estate.assignments, {NoncompliantCount})
                                 \cup (IF estate.assignments > 0
                                       THEN Over(estate.evaluated, {CompliantPct})
                                       ELSE {})),
                  found)

CollectStorage ==
  OneList("storage",
          Wrote({StorageCount} \cup Over(Len(estate.storage), StoragePcts)),
          LAMBDA why : [found EXCEPT !.storageMiss = why, !.storage =
                          IF why = NoMiss THEN ToSet(estate.storage) ELSE {}])

CollectKeyVault ==
  OneList("keyvault",
          Wrote({<<"keyvault", "vaults_count">>}
                  \cup Over(Len(estate.keyVaults), KeyVaultFields)),
          LAMBDA why : [found EXCEPT !.keyVaultsMiss = why, !.keyVaults =
                          IF why = NoMiss THEN ToSet(estate.keyVaults) ELSE {}])

-----------------------------------------------------------------------------
(* The databases of the servers that were listed.                          *)
ListedDatabases(failing) ==
  {d \in ToSet(estate.databases) : Read("databases", d.server) \notin failing}

(* The members of a list whose read failed, and the first of them in it.   *)
Unread(ids, name, failing) == {id \in ToSet(ids) : Read(name, id) \in failing}
FirstOf(ids, some) == ids[Min({n \in DOMAIN ids : ids[n] \in some})]
FirstFailure(ids, name, unread) == failed(Read(name, FirstOf(ids, unread)))

(* What is left out for the members that could not be read.                *)
LeftUnread(ids, name, unread, fields) ==
  Left(partial(Cardinality(unread), FirstFailure(ids, name, unread), fields))

(* A server not listed hides how many databases there are, and so whatever *)
(* is measured over them.                                                  *)
DatabaseValues(databases, unlisted, unreadTDE) ==
  CASE unlisted # {} ->
         And(LeftUnread(estate.servers, "databases", unlisted, {DatabasesCount}),
             Left(leaveOut(FirstFailure(estate.servers, "databases", unlisted), {TDEPct})))
    [] unlisted = {} /\ unreadTDE # {} ->
         And(Count(DatabasesCount, {Cardinality(databases)}),
             LeftUnread(IDs(estate.databases), "tde", unreadTDE, {TDEPct}))
    [] OTHER ->
         And(Count(DatabasesCount, {Cardinality(databases)}),
             Count(TDEPct, IF databases = {} THEN {}
                           ELSE {Cardinality({d \in databases : d.tde})}))

ServersUnread ==
  LET list == Read("sql", "") IN
  /\ At("sql")
  /\ Done({list}, Left(LeaveOutBlock(failed(list), "sql")),
          [found EXCEPT !.serversMiss = failed(list)])

CollectSQL ==
  LET lists == {Read("databases", s) : s \in ToSet(estate.servers)}
      tdes == {Read("tde", d.id) : d \in ToSet(estate.databases)}
  IN /\ At("sql")
     /\ \E failing \in SUBSET (lists \cup tdes) :
          LET listed == ListedDatabases(failing)
              databases == {d \in listed : ~d.master}
              unlisted == Unread(estate.servers, "databases", failing)
              unreadTDE == Unread(IDs(estate.databases), "tde", failing)
          IN /\ unreadTDE \subseteq {d.id : d \in databases}
             /\ Done(failing,
                     And(Wrote({ServersCount} \cup Over(Len(estate.servers), {ServersPct})),
                         DatabaseValues(databases, unlisted, unreadTDE)),
                     [found EXCEPT
                        !.databases = {d.id : d \in databases},
                        !.masters = {d.id : d \in listed \ databases},
                        !.databasesMiss =
                          IF unlisted = {} THEN NoMiss
                          ELSE FirstFailure(estate.servers, "databases", unlisted)])

(* Mutant: without the public IPs, no machine is taken to have one.        *)
machineValuesOfUnread(ipsMiss) ==
  Wrote({MachinesCount} \cup Over(Len(estate.machines), {DiskPct, PublicIPPct}))

machineValues(ipsMiss) ==
  And(Wrote({MachinesCount} \cup
            Over(Len(estate.machines),
                 {DiskPct} \cup (IF ipsMiss = NoMiss THEN {PublicIPPct} ELSE {}))),
      Left(leaveOut(ipsMiss, {PublicIPPct})))

(* The public IPs are read for the network too, with machines or without.  *)
CollectCompute ==
  LET machines == Read("machines", "")
      ips == Read("public_ips", "")
  IN /\ At("compute")
     /\ \E failing \in SUBSET {machines, ips} :
          LET machinesMiss == missOf(machines, failing)
              ipsMiss == missOf(ips, failing)
          IN Done(failing,
                  IF machinesMiss = NoMiss THEN machineValues(ipsMiss)
                  ELSE Left(LeaveOutBlock(machinesMiss, "compute")),
                  [found EXCEPT
                     !.machines = IF machinesMiss = NoMiss THEN ToSet(estate.machines) ELSE {},
                     !.machinesMiss = machinesMiss,
                     !.publicIPs = IF ipsMiss = NoMiss THEN estate.publicIPs ELSE 0,
                     !.publicIPsMiss = ipsMiss])

-----------------------------------------------------------------------------
(* The machines and databases the backup is measured over, and why not all *)
(* of them are known.                                                      *)
backupPopulation == found.machines \cup found.databases
backupMiss == firstMissing(found.machinesMiss,
                           firstMissing(found.serversMiss, found.databasesMiss))

protectedResourcePct(items) ==
  IF backupPopulation = {} THEN {}
  ELSE {Cardinality({i.source : i \in {j \in items : j.active}} \cap backupPopulation)}

retentionDaysMin(policies, items) ==
  LET inUse == {i.policy : i \in items}
      days == {p.days : p \in {q \in policies : q.id \in inUse}} \ {0}
  IN IF days = {} THEN {} ELSE {Min(days)}

latestSuccessfulBackupAgeHoursMax(jobs) ==
  LET ages == {j.age : j \in {k \in jobs : k.succeeded}}
  IN IF ages = {} THEN {} ELSE {Max(ages)}
failedBackupJobs7dCount(jobs) ==
  {Cardinality({j \in jobs : ~j.succeeded /\ j.age <= 7 * 24})}

VaultsUnread ==
  LET list == Read("backup", "") IN
  /\ At("backup")
  /\ Done({list}, Left(LeaveOutBlock(failed(list), "backup")), found)

(* With no vault nothing is protected and there is no job history.         *)
NoVaults ==
  /\ At("backup")
  /\ estate.vaults = <<>>
  /\ Done({}, And(Wrote({RetentionRead}),
                  IF backupMiss = NoMiss THEN Count(ProtectedPct, protectedResourcePct({}))
                  ELSE Left(leaveOut(backupMiss, {ProtectedPct}))), found)

LeftUnreadVaults(name, unread, fields) ==
  LeftUnread(IDs(estate.vaults), name, unread, fields)

(* Mutant: the retention is explained by the items alone.                  *)
RetentionByItems(policies, items, unreadPolicies, unreadItems) ==
  IF unreadItems # {} THEN LeftUnreadVaults("items", unreadItems, {RetentionMin})
  ELSE And(Wrote({RetentionRead}), Count(RetentionMin, retentionDaysMin(policies, items)))

(* Which policies are in use is known from the items: both must be read.   *)
Retention(policies, items, unreadPolicies, unreadItems) ==
  CASE unreadPolicies # {} ->
         LeftUnreadVaults("policies", unreadPolicies, {RetentionMin})
    [] unreadPolicies = {} /\ unreadItems # {} ->
         LeftUnreadVaults("items", unreadItems, {RetentionMin})
    [] OTHER -> And(Wrote({RetentionRead}),
                    Count(RetentionMin, retentionDaysMin(policies, items)))

Protected(items, unreadItems) ==
  CASE backupMiss # NoMiss -> Left(leaveOut(backupMiss, {ProtectedPct}))
    [] backupMiss = NoMiss /\ unreadItems # {} ->
         LeftUnreadVaults("items", unreadItems, {ProtectedPct})
    [] OTHER -> Count(ProtectedPct, protectedResourcePct(items))

Jobs(jobs, unreadJobs) ==
  IF unreadJobs # {} THEN LeftUnreadVaults("jobs", unreadJobs, {BackupAge, FailedJobs})
  ELSE And(Count(BackupAge, latestSuccessfulBackupAgeHoursMax(jobs)),
           Count(FailedJobs, failedBackupJobs7dCount(jobs)))

CollectBackup ==
  LET reads == UNION {{Read(name, v.id) : v \in ToSet(estate.vaults)} :
                        name \in {"items", "policies", "jobs"}}
  IN /\ At("backup")
     /\ estate.vaults # <<>>
     /\ \E failing \in SUBSET reads :
          LET unread(name) == Unread(IDs(estate.vaults), name, failing)
              readOf(name) == {v \in ToSet(estate.vaults) : Read(name, v.id) \notin failing}
              items == UNION {v.items : v \in readOf("items")}
              policies == UNION {v.policies : v \in readOf("policies")}
              jobs == UNION {v.jobs : v \in readOf("jobs")}
          IN Done(failing,
                  And(And(Wrote({VaultPct}), Protected(items, unread("items"))),
                      And(Retention(policies, items, unread("policies"), unread("items")),
                          Jobs(jobs, unread("jobs")))),
                  found)

CollectNetwork ==
  LET list == Read("security_groups", "")
      ips == IF found.publicIPsMiss = NoMiss THEN Wrote({PublicIPCount})
             ELSE Left(leaveOut(found.publicIPsMiss, {PublicIPCount}))
  IN /\ At("network")
     /\ \E failing \in SUBSET {list} :
          Done(failing,
               And(ips, IF list \in failing
                        THEN Left(leaveOut(failed(list), {GroupsCount} \cup OpenPcts))
                        ELSE Wrote({GroupsCount} \cup Over(estate.groups, OpenPcts))),
               found)

-----------------------------------------------------------------------------
(* The resources whose logging is measured, list by list: the order of     *)
(* each list and those of its members that are.                            *)
monitoredResourceList ==
  <<<<estate.storage, found.storage>>, <<estate.keyVaults, found.keyVaults>>,
    <<IDs(estate.databases), found.masters>>, <<IDs(estate.databases), found.databases>>,
    <<estate.machines, found.machines>>>>
monitored == UNION {monitoredResourceList[k][2] : k \in DOMAIN monitoredResourceList}

(* The diagnostic settings of a resource.  A storage account's logs are in *)
(* its services' settings.                                                 *)
settingIDs(id) ==
  IF id \in found.storage THEN <<<<id, "own_settings">>, <<id, "service_settings">>>>
  ELSE <<<<id, "own_settings">>>>

monitoredMiss ==
  firstMissing(found.storageMiss, firstMissing(found.keyVaultsMiss,
    firstMissing(found.serversMiss, firstMissing(found.databasesMiss, found.machinesMiss))))

Setting(id) == Read(id[2], id[1])
Sends(id, failing) == Setting(id) \notin failing /\ id \in estate.logged

(* Mutant: the first setting that cannot be read decides.                  *)
resourceLoggedByFirst(ids, failing) ==
  CASE Setting(ids[1]) \in failing -> "error"
    [] Setting(ids[1]) \notin failing /\ \E n \in DOMAIN ids : Sends(ids[n], failing) -> "logged"
    [] OTHER -> "not_logged"

(* One setting that sends is enough, whatever became of the others.        *)
resourceLogged(ids, failing) ==
  CASE \E n \in DOMAIN ids : Sends(ids[n], failing) -> "logged"
    [] \A n \in DOMAIN ids : Setting(ids[n]) \notin failing /\ ids[n] \notin estate.logged ->
         "not_logged"
    [] OTHER -> "error"

(* The settings are asked for until one sends.                             *)
SettingsRead(ids, failing) ==
  {Setting(ids[n]) : n \in {m \in DOMAIN ids :
                              \A k \in 1..m - 1 : ~Sends(ids[k], failing)}}

SubscriptionSettings(failing) ==
  IF Read("activity", "") \in failing
  THEN Left(leaveOut(failed(Read("activity", "")), {SettingsEnabled, ActivityExported}))
  ELSE Wrote({SettingsEnabled, ActivityExported})

(* The first setting that failed of the first resource that is unread.     *)
FirstError(unread, failing) ==
  LET list == monitoredResourceList[Min({k \in DOMAIN monitoredResourceList :
                                           monitoredResourceList[k][2] \cap unread # {}})]
      ids == settingIDs(FirstOf(list[1], list[2] \cap unread))
  IN Setting(ids[Min({n \in DOMAIN ids : Setting(ids[n]) \in failing})])

ResourceSettings(failing) ==
  LET are(logged) == {id \in monitored : resourceLogged(settingIDs(id), failing) = logged}
  IN And(Count(MonitoredCount, {Cardinality(monitored)}),
         CASE monitored = {} -> Nothing
           [] monitored # {} /\ are("error") # {} ->
                Left(partial(Cardinality(are("error")),
                             failed(FirstError(are("error"), failing)),
                             {LoggedPct, UnloggedCount}))
           [] OTHER ->
                And(Count(LoggedPct, {Cardinality(are("logged"))}),
                    Count(UnloggedCount,
                          {Cardinality(monitored) - Cardinality(are("logged"))})))

CollectLogging ==
  LET activity == Read("activity", "")
      settings(id) == {Setting(s) : s \in ToSet(settingIDs(id))}
  IN /\ At("logging")
     /\ \E failing \in SUBSET ({activity} \cup
                              IF monitoredMiss = NoMiss
                              THEN UNION {settings(id) : id \in monitored} ELSE {}) :
          /\ failing \ {activity} \subseteq
               UNION {SettingsRead(settingIDs(id), failing) : id \in monitored}
          /\ Done(failing,
                  And(SubscriptionSettings(failing),
                      IF monitoredMiss # NoMiss
                      THEN Left(leaveOut(monitoredMiss,
                                         {MonitoredCount, LoggedPct, UnloggedCount}))
                      ELSE ResourceSettings(failing)),
                  found)

(* Below the audit level the inventory is not read.                        *)
CollectInventory ==
  /\ audit
  /\ OneList("inventory",
             Wrote({<<"inventory", "resources_count">>}
                     \cup Over(estate.resources, InventoryFields)),
             LAMBDA why : found)

SkipInventory ==
  /\ ~audit
  /\ At("inventory")
  /\ Done({}, Nothing, found)

Next ==
  \/ SubscriptionFound \/ SubscriptionUnreadable \/ CollectDefender
  \/ CollectRBAC \/ CollectPolicy \/ CollectStorage \/ CollectKeyVault
  \/ ServersUnread \/ CollectSQL \/ CollectCompute \/ VaultsUnread
  \/ NoVaults \/ CollectBackup \/ CollectNetwork \/ CollectLogging
  \/ CollectInventory \/ SkipInventory

(* Each call returns, with an answer or an error.                          *)
Spec == Init /\ [][Next]_azureVars /\ WF_azureVars(Next)

-----------------------------------------------------------------------------
InScope(f) == f[1] = "inventory" => audit

(* A field in scope whose handler has run, in the subscription's turn.     *)
Due(i, f) == InScope(f) /\ (account > i \/ (account = i /\ step > StepOf(f[1])))

Covers(g, i, f) == g.at \in {<<i, f[1], f[2]>>, <<i, f[1], Whole>>}
HasValue(i, f) == <<i, f[1], f[2]>> \in written
GapsOf(i, f) == {g \in gaps : Covers(g, i, f)}

(* What the subscription really holds.                                     *)
CountedDatabases(e) == {d \in ToSet(e.databases) : ~d.master}
BackedUp(e) == ToSet(e.machines) \cup {d.id : d \in CountedDatabases(e)}
ItemsOf(e) == UNION {v.items : v \in ToSet(e.vaults)}
JobsOf(e) == UNION {v.jobs : v \in ToSet(e.vaults)}
RetentionsInUse(e) ==
  {p.days : p \in {q \in UNION {v.policies : v \in ToSet(e.vaults)} :
                     q.days > 0 /\ \E i \in ItemsOf(e) : i.policy = q.id}}
AgesOfSuccesses(e) == {j.age : j \in {k \in JobsOf(e) : k.succeeded}}
Monitored(e) == ToSet(e.storage) \cup ToSet(e.keyVaults) \cup ToSet(e.machines)
                  \cup {d.id : d \in ToSet(e.databases)}
Logged(e) == {id \in Monitored(e) : \E s \in e.logged : s[1] = id}

(* The population a null is documented for is empty.                       *)
EmptyPopulation(e, f) ==
  CASE f = <<"defender", "secure_score_pct">> -> ~e.scored
    [] f = <<"defender", "unpatched_pct">> -> e.assessed = 0
    [] f = CompliantPct -> e.assignments = 0 \/ e.evaluated = 0
    [] f = NoncompliantCount -> e.assignments = 0
    [] f \in StoragePcts -> e.storage = <<>>
    [] f = <<"keyvault", "purge_protection_pct">> -> e.keyVaults = <<>>
    [] f = ServersPct -> e.servers = <<>>
    [] f = TDEPct -> CountedDatabases(e) = {}
    [] f \in {DiskPct, PublicIPPct} -> e.machines = <<>>
    [] f = ProtectedPct -> BackedUp(e) = {}
    [] f = RetentionMin -> RetentionsInUse(e) = {}
    [] f = BackupAge -> AgesOfSuccesses(e) = {}
    [] f \in {VaultPct, FailedJobs} -> e.vaults = <<>>
    [] f \in OpenPcts -> e.groups = 0
    [] f \in {LoggedPct, UnloggedCount} -> Monitored(e) = {}
    [] f = <<"inventory", "owner_tag_coverage_pct">> -> e.resources = 0
    [] OTHER -> FALSE

(* Each null of each account is explained: by one gap, at the field or its *)
(* block, or by the empty population the schema documents the null for.    *)
(* A field that has a value has no gap and is measured over something, and *)
(* one that is not yet due, or out of scope, has neither value nor gap.    *)
AzureNullsExplained ==
  \A i \in DOMAIN estates, f \in Fields :
    CASE Due(i, f) /\ HasValue(i, f) ->
           GapsOf(i, f) = {} /\ ~EmptyPopulation(estates[i], f)
      [] Due(i, f) /\ ~HasValue(i, f) ->
           \/ Cardinality(GapsOf(i, f)) = 1
           \/ GapsOf(i, f) = {} /\ EmptyPopulation(estates[i], f)
      [] OTHER -> ~HasValue(i, f) /\ GapsOf(i, f) = {}

Truth(e, f) ==
  CASE f = DatabasesCount -> Cardinality(CountedDatabases(e))
    [] f = TDEPct         -> Cardinality({d \in CountedDatabases(e) : d.tde})
    [] f = ProtectedPct   -> Cardinality({r \in BackedUp(e) :
                               \E i \in ItemsOf(e) : i.active /\ i.source = r})
    [] f = RetentionMin   -> Min(RetentionsInUse(e))
    [] f = BackupAge      -> Max(AgesOfSuccesses(e))
    [] f = FailedJobs     -> Cardinality({j \in JobsOf(e) : ~j.succeeded /\ j.age <= 168})
    [] f = MonitoredCount -> Cardinality(Monitored(e))
    [] f = LoggedPct      -> Cardinality(Logged(e))
    [] f = UnloggedCount  -> Cardinality(Monitored(e) \ Logged(e))

(* A number put together from many reads is that of the whole              *)
(* subscription, whichever reads failed: a list that was read in part, or  *)
(* one left over from another subscription, never yields one.              *)
NumbersAreTrue ==
  \A n \in numbers : n.num = Truth(estates[n.at[1]], <<n.at[2], n.at[3]>>)

(* The reads a field is taken from.                                        *)
Lists == {"machines", "sql", "databases"}
Sources(f) ==
  {"subscription"} \cup
  CASE f = <<"defender", "secure_score_pct">> -> {"score"}
    [] f = <<"defender", "unpatched_pct">> -> {"assessments"}
    [] f = AssignmentsCount -> {"policy"}
    [] f \in {CompliantPct, NoncompliantCount} -> {"policy", "summary"}
    [] f[1] \in {"rbac", "storage", "keyvault", "inventory"} -> {f[1]}
    [] f \in {ServersCount, ServersPct} -> {"sql"}
    [] f = DatabasesCount -> {"sql", "databases"}
    [] f = TDEPct -> {"sql", "databases", "tde"}
    [] f \in {MachinesCount, DiskPct} -> {"machines"}
    [] f = PublicIPPct -> {"machines", "public_ips"}
    [] f = VaultPct -> {"backup"}
    [] f = ProtectedPct -> Lists \cup {"backup", "items"}
    [] f = RetentionMin -> {"backup", "policies", "items"}
    [] f \in {BackupAge, FailedJobs} -> {"backup", "jobs"}
    [] f = PublicIPCount -> {"public_ips"}
    [] f \in {GroupsCount} \cup OpenPcts -> {"security_groups"}
    [] f \in {SettingsEnabled, ActivityExported} -> {"activity"}
    [] f = MonitoredCount -> Lists \cup {"storage", "keyvault"}
    [] f \in {LoggedPct, UnloggedCount} -> Lists \cup Settings \cup {"storage", "keyvault"}

(* A field is written, or null without a gap, only if every read it is     *)
(* taken from succeeded, those other handlers made included.  A resource's *)
(* settings are the exception: one that sends makes up for another that    *)
(* could not be read.                                                      *)
ValuesRestOnTheirReads ==
  \A r \in failedReads, f \in Fields :
    r[2] \in Sources(f) \ Settings =>
      ~HasValue(r[1], f) /\ (Due(r[1], f) => GapsOf(r[1], f) # {})

(* The diagnostic settings that were read do not tell whether a resource   *)
(* is logged.                                                              *)
Undecided(i, id) ==
  LET unread == {s \in Settings : <<i, s, id>> \in failedReads}
  IN unread # {} /\ \A s \in Settings \ unread : <<id, s>> \notin estates[i].logged

(* A gap names a read of its own subscription that did fail, and that each *)
(* field it covers is taken from.  A partial gap counts what could not be  *)
(* measured: the members whose own read failed, and for the logging the    *)
(* resources no setting of which that was read sends anything.             *)
AzureGapsNameTheirCause ==
  \A g \in gaps :
    LET i == g.at[1]
        name == g.why.about[2]
    IN /\ g.why.about \in failedReads
       /\ g.why.about[1] = i
       /\ \A f \in Fields : Covers(g, i, f) => name \in Sources(f)
       /\ g.unmeasured > 0 =>
            g.unmeasured =
              IF name \in Settings
              THEN Cardinality({id \in Monitored(estates[i]) : Undecided(i, id)})
              ELSE Cardinality({r \in failedReads : r[1] = i /\ r[2] = name})

(* What a reader of the artifact and its gaps sees of a field.             *)
Status(i, f) ==
  IF i \notin DOMAIN estates \/ ~InScope(f) THEN "out_of_scope"
  ELSE CASE HasValue(i, f) -> "value"
         [] ~HasValue(i, f) /\ GapsOf(i, f) # {} -> "gap"
         [] ~HasValue(i, f) /\ GapsOf(i, f) = {}
              /\ Due(i, f) /\ EmptyPopulation(estates[i], f) -> "empty"
         [] OTHER -> "pending"

(* The accounts keep the promise of Evidence: each field of each is        *)
(* settled once, whatever happens to the subscriptions around it, and the  *)
(* run ends with none pending.                                             *)
AccountFields == (1..Max({Len(c) : c \in Configurations})) \X Fields
Promise == INSTANCE Evidence WITH
             Fields <- AccountFields,
             status <- [a \in AccountFields |-> Status(a[1], a[2])],
             over   <- account > Len(estates)

AzureKeepsThePromise == Promise!EvidenceSpec
=============================================================================
