----------------------------- MODULE AzureProofs -----------------------------
(***************************************************************************)
(* What holds of the Azure collection for every configuration: each        *)
(* handler settles its own block from its own reads and from what earlier  *)
(* handlers found, so what one settled no later one takes back.            *)
(***************************************************************************)
EXTENDS AzureCollect, FiniteSetTheorems, WellFoundedInduction, TLAPS

-----------------------------------------------------------------------------
(* Naturals, finite sets and lists.                                        *)
LEMMA LeastOfNaturals ==
  ASSUME NEW S \in SUBSET Nat, S # {}
  PROVE  /\ Min(S) \in S /\ \A n \in S : Min(S) <= n
         /\ \A m \in S : (\A n \in S : m <= n) => Min(S) = m
<1>. DEFINE Less == {p \in Nat \X Nat : p[1] < p[2]}
<1>1. \E m \in S : \A n \in S : ~ (<<n, m>> \in Less)
  <2>1. IsWellFoundedOn(OpToRel(<, Nat), Nat)
    BY NatLessThanWellFounded
  <2>2. OpToRel(<, Nat) = Less
    BY DEF OpToRel
  <2>. HIDE DEF Less
  <2>3. IsWellFoundedOn(Less, Nat)
    BY <2>1, <2>2
  <2>. QED
    BY <2>3, WFMin
<1>2. \A m, n \in Nat : m < n => <<m, n>> \in Less
  <2>. SUFFICES ASSUME NEW m \in Nat, NEW n \in Nat, m < n PROVE <<m, n>> \in Less
    OBVIOUS
  <2>1. <<m, n>> \in Nat \X Nat /\ <<m, n>>[1] < <<m, n>>[2]
    OBVIOUS
  <2>. QED
    BY <2>1, Zenon
<1>. HIDE DEF Less
<1>3. PICK m \in S : \A n \in S : ~ (<<n, m>> \in Less)
  BY <1>1
<1>4. ASSUME NEW n \in S PROVE m <= n
  <2>1. ~ (n < m)
    BY <1>2, <1>3, Zenon
  <2>. QED
    BY <2>1
<1>5. \E k \in S : \A n \in S : k =< n
  BY <1>4
<1>6. Min(S) \in S /\ \A n \in S : Min(S) =< n
  BY <1>5, Zenon DEF Min
<1>7. \A n \in S : n \in Int
  OBVIOUS
<1>8. ASSUME NEW k \in S, \A n \in S : k <= n PROVE Min(S) = k
  <2>1. Min(S) <= k /\ k <= Min(S) /\ Min(S) \in Int /\ k \in Int
    BY <1>6, <1>7, <1>8
  <2>2. \A a, b \in Int : a <= b /\ b <= a => a = b
    OBVIOUS
  <2>. QED
    BY <2>1, <2>2, Zenon
<1>. QED
  BY <1>6, <1>8

LEMMA ListsAreFinite ==
  ASSUME NEW S, NEW s \in Seq(S)
  PROVE  /\ IsFiniteSet(ToSet(s)) /\ ToSet(s) \in SUBSET S
         /\ Len(s) \in Nat /\ DOMAIN s = 1..Len(s)
         /\ Len(s) = 0 <=> s = <<>>
         /\ s = <<>> <=> ToSet(s) = {}
<1>1. Len(s) \in Nat /\ DOMAIN s = 1..Len(s) /\ (Len(s) = 0 <=> s = <<>>)
  OBVIOUS
<1>2. ToSet(s) \in SUBSET S
  <2>1. \A n \in DOMAIN s : s[n] \in S
    OBVIOUS
  <2>. QED
    BY <2>1 DEF ToSet
<1>5. s = <<>> <=> ToSet(s) = {}
  <2>1. CASE Len(s) = 0
    <3>1. DOMAIN s = {}
      BY <1>1, <2>1
    <3>. QED
      BY <1>1, <2>1, <3>1 DEF ToSet
  <2>2. CASE Len(s) # 0
    <3>1. 1 \in DOMAIN s
      BY <1>1, <2>2
    <3>2. s[1] \in ToSet(s)
      BY <3>1 DEF ToSet
    <3>. QED
      BY <1>1, <2>2, <3>2
  <2>. QED
    BY <2>1, <2>2
<1>3. s \in Surjection(1..Len(s), ToSet(s))
  BY <1>1 DEF Surjection, ToSet
<1>4. IsFiniteSet(ToSet(s))
  BY <1>1, <1>3, FS_Interval, FS_Surjection
<1>. QED
  BY <1>1, <1>2, <1>4, <1>5

(* Members of a finite set and their images are as many when no two have   *)
(* the same image.                                                         *)
LEMMA AsMany ==
  ASSUME NEW S, IsFiniteSet(S), NEW f, DOMAIN f = S, f = [x \in S |-> f[x]],
         \A x, y \in S : f[x] = f[y] => x = y
  PROVE  Cardinality({f[x] : x \in S}) = Cardinality(S)
<1>. DEFINE T == {f[x] : x \in S}
<1>1. f \in Bijection(S, T)
  BY DEF Bijection, Injection, Surjection, IsInjective
<1>2. ExistsBijection(S, T)
  BY <1>1 DEF ExistsBijection
<1>. QED
  BY <1>2, FS_Bijection

-----------------------------------------------------------------------------
(* The reads each handler makes.                                           *)
ReadsOf ==
  <<{"subscription"}, {"score", "assessments"}, {"rbac"}, {"policy", "summary"},
    {"storage"}, {"keyvault"}, {"sql", "databases", "tde"},
    {"machines", "public_ips"}, {"backup", "items", "policies", "jobs"},
    {"security_groups"}, {"activity", "own_settings", "service_settings"},
    {"inventory"}>>

LEMMA StepsAre ==
  /\ Len(Steps) = 12 /\ DOMAIN Steps = 1..12
  /\ \A k \in 1..12 : StepOf(Steps[k]) = k
<1>1. Len(Steps) = 12 /\ DOMAIN Steps = 1..12
  BY DEF Steps
<1>2. \A k, n \in 1..12 : Steps[k] = Steps[n] => k = n
  BY DEF Steps
<1>3. ASSUME NEW k \in 1..12 PROVE StepOf(Steps[k]) = k
  <2>1. \E n \in DOMAIN Steps : Steps[n] = Steps[k]
    BY <1>1
  <2>2. StepOf(Steps[k]) \in DOMAIN Steps /\ Steps[StepOf(Steps[k])] = Steps[k]
    BY <2>1 DEF StepOf
  <2>. QED
    BY <1>1, <1>2, <2>2
<1>. QED
  BY <1>1, <1>3

(* No read is made by two handlers.                                        *)
LEMMA ReadsAreOfOneHandler ==
  \A k, n \in 1..12 : k # n => ReadsOf[k] \cap ReadsOf[n] = {}
  BY DEF ReadsOf

(* The names of the fields are spelled out in these lemmas only.          *)
USE DEF DefenderFields, RBACFields, StoragePcts, KeyVaultFields, OpenPcts,
  InventoryFields, AssignmentsCount, CompliantPct, NoncompliantCount, StorageCount,
  ServersCount, ServersPct, DatabasesCount, TDEPct, MachinesCount, DiskPct,
  PublicIPPct, VaultPct, ProtectedPct, RetentionMin, BackupAge, FailedJobs,
  PublicIPCount, GroupsCount, SettingsEnabled, ActivityExported, MonitoredCount,
  LoggedPct, UnloggedCount, Lists, Settings

(* Each field is of the block of one handler.                              *)
LEMMA BlocksOfFields ==
  \A f \in Fields : /\ f = <<f[1], f[2]>> /\ f[2] # Whole
                    /\ \E k \in 2..12 : f[1] = Steps[k]
  BY DEF Fields, Whole, Steps

(* The fields of each block, and the reads each is taken from.             *)
LEMMA EveryBlockHasFields ==
  \A k \in 2..12 : \E f \in Fields : f[1] = Steps[k]
<1>. DEFINE Has(b) == \E f \in Fields : f[1] = b
<1>1. /\ Has("defender") /\ Has("rbac") /\ Has("policy") /\ Has("storage")
      /\ Has("keyvault") /\ Has("sql") /\ Has("compute") /\ Has("backup")
      /\ Has("network") /\ Has("logging") /\ Has("inventory")
  BY DEF Fields
<1>. QED
  BY <1>1 DEF Steps

LEMMA DefenderSources ==
  \A f \in Fields : f[1] = "defender" =>
    \/ f = <<"defender", "secure_score_pct">> /\ Sources(f) = {"subscription", "score"}
    \/ f = <<"defender", "unpatched_pct">> /\ Sources(f) = {"subscription", "assessments"}
  BY DEF Fields, Sources

LEMMA BlockSources ==
  \A f \in Fields : f[1] \in {"rbac", "storage", "keyvault", "inventory"} =>
    /\ Sources(f) = {"subscription", f[1]}
    /\ f[1] = "rbac" => f \in RBACFields
    /\ f[1] = "storage" => f \in {StorageCount} \cup StoragePcts
    /\ f[1] = "keyvault" => f \in KeyVaultFields
    /\ f[1] = "inventory" => f \in InventoryFields
  BY DEF Fields, Sources

LEMMA PolicySources ==
  \A f \in Fields : f[1] = "policy" =>
    \/ f = AssignmentsCount /\ Sources(f) = {"subscription", "policy"}
    \/ f \in {CompliantPct, NoncompliantCount}
       /\ Sources(f) = {"subscription", "policy", "summary"}
  BY DEF Fields, Sources

LEMMA SQLSources ==
  \A f \in Fields : f[1] = "sql" =>
    \/ f \in {ServersCount, ServersPct} /\ Sources(f) = {"subscription", "sql"}
    \/ f = DatabasesCount /\ Sources(f) = {"subscription", "sql", "databases"}
    \/ f = TDEPct /\ Sources(f) = {"subscription", "sql", "databases", "tde"}
  BY DEF Fields, Sources

LEMMA ComputeSources ==
  \A f \in Fields : f[1] = "compute" =>
    \/ f \in {MachinesCount, DiskPct} /\ Sources(f) = {"subscription", "machines"}
    \/ f = PublicIPPct /\ Sources(f) = {"subscription", "machines", "public_ips"}
  BY DEF Fields, Sources

LEMMA BackupSources ==
  \A f \in Fields : f[1] = "backup" =>
    \/ f = VaultPct /\ Sources(f) = {"subscription", "backup"}
    \/ f = ProtectedPct
       /\ Sources(f) = {"subscription", "machines", "sql", "databases", "backup", "items"}
    \/ f = RetentionMin /\ Sources(f) = {"subscription", "backup", "policies", "items"}
    \/ f \in {BackupAge, FailedJobs} /\ Sources(f) = {"subscription", "backup", "jobs"}
  BY DEF Fields, Sources

LEMMA NetworkSources ==
  \A f \in Fields : f[1] = "network" =>
    \/ f = PublicIPCount /\ Sources(f) = {"subscription", "public_ips"}
    \/ f \in {GroupsCount} \cup OpenPcts /\ Sources(f) = {"subscription", "security_groups"}
  BY DEF Fields, Sources

LEMMA LoggingSources ==
  \A f \in Fields : f[1] = "logging" =>
    \/ f \in {SettingsEnabled, ActivityExported}
       /\ Sources(f) = {"subscription", "activity"}
    \/ f = MonitoredCount /\ Sources(f) =
         {"subscription", "machines", "sql", "databases", "storage", "keyvault"}
    \/ f \in {LoggedPct, UnloggedCount} /\ Sources(f) =
         {"subscription", "machines", "sql", "databases", "storage", "keyvault",
          "own_settings", "service_settings"}
  BY DEF Fields, Sources

(* The population each percentage and extreme is measured over.            *)
LEMMA EmptyPopulations ==
  ASSUME NEW e
  PROVE  /\ EmptyPopulation(e, <<"defender", "secure_score_pct">>) <=> ~e.scored
         /\ EmptyPopulation(e, <<"defender", "unpatched_pct">>) <=> e.assessed = 0
         /\ EmptyPopulation(e, CompliantPct) <=> e.assignments = 0 \/ e.evaluated = 0
         /\ EmptyPopulation(e, NoncompliantCount) <=> e.assignments = 0
         /\ \A f \in StoragePcts : EmptyPopulation(e, f) <=> e.storage = <<>>
         /\ EmptyPopulation(e, <<"keyvault", "purge_protection_pct">>) <=> e.keyVaults = <<>>
         /\ EmptyPopulation(e, ServersPct) <=> e.servers = <<>>
         /\ EmptyPopulation(e, TDEPct) <=> CountedDatabases(e) = {}
         /\ EmptyPopulation(e, DiskPct) <=> e.machines = <<>>
         /\ EmptyPopulation(e, PublicIPPct) <=> e.machines = <<>>
         /\ EmptyPopulation(e, ProtectedPct) <=> BackedUp(e) = {}
         /\ EmptyPopulation(e, RetentionMin) <=> RetentionsInUse(e) = {}
         /\ EmptyPopulation(e, BackupAge) <=> AgesOfSuccesses(e) = {}
         /\ EmptyPopulation(e, VaultPct) <=> e.vaults = <<>>
         /\ EmptyPopulation(e, FailedJobs) <=> e.vaults = <<>>
         /\ \A f \in OpenPcts : EmptyPopulation(e, f) <=> e.groups = 0
         /\ EmptyPopulation(e, LoggedPct) <=> Monitored(e) = {}
         /\ EmptyPopulation(e, UnloggedCount) <=> Monitored(e) = {}
         /\ EmptyPopulation(e, <<"inventory", "owner_tag_coverage_pct">>) <=> e.resources = 0
  BY DEF EmptyPopulation

(* Every other field has a value wherever its reads succeed.               *)
LEMMA NeverEmpty ==
  ASSUME NEW e,
         NEW f \in RBACFields \cup {AssignmentsCount, StorageCount, ServersCount,
                     DatabasesCount, MachinesCount, PublicIPCount, GroupsCount,
                     SettingsEnabled, ActivityExported, MonitoredCount,
                     <<"keyvault", "vaults_count">>, <<"inventory", "resources_count">>}
  PROVE  ~EmptyPopulation(e, f)
  BY DEF EmptyPopulation

LEMMA Truths ==
  ASSUME NEW e
  PROVE  /\ Truth(e, DatabasesCount) = Cardinality(CountedDatabases(e))
         /\ Truth(e, TDEPct) = Cardinality({d \in CountedDatabases(e) : d.tde})
         /\ Truth(e, ProtectedPct) = Cardinality({r \in BackedUp(e) :
                               \E i \in ItemsOf(e) : i.active /\ i.source = r})
         /\ Truth(e, RetentionMin) = Min(RetentionsInUse(e))
         /\ Truth(e, BackupAge) = Max(AgesOfSuccesses(e))
         /\ Truth(e, FailedJobs) =
              Cardinality({j \in JobsOf(e) : ~j.succeeded /\ j.age <= 168})
         /\ Truth(e, MonitoredCount) = Cardinality(Monitored(e))
         /\ Truth(e, LoggedPct) = Cardinality(Logged(e))
         /\ Truth(e, UnloggedCount) = Cardinality(Monitored(e) \ Logged(e))
  BY DEF Truth

LEMMA FieldsOfBlocks ==
  /\ \A f \in DefenderFields : f \in Fields /\ f[1] = "defender"
  /\ \A f \in RBACFields : f \in Fields /\ f[1] = "rbac"
  /\ \A f \in {AssignmentsCount, CompliantPct, NoncompliantCount} :
       f \in Fields /\ f[1] = "policy"
  /\ \A f \in {StorageCount} \cup StoragePcts : f \in Fields /\ f[1] = "storage"
  /\ \A f \in KeyVaultFields : f \in Fields /\ f[1] = "keyvault"
  /\ \A f \in {ServersCount, ServersPct, DatabasesCount, TDEPct} :
       f \in Fields /\ f[1] = "sql"
  /\ \A f \in {MachinesCount, DiskPct, PublicIPPct} : f \in Fields /\ f[1] = "compute"
  /\ \A f \in {VaultPct, ProtectedPct, RetentionMin, BackupAge, FailedJobs} :
       f \in Fields /\ f[1] = "backup"
  /\ \A f \in {PublicIPCount, GroupsCount} \cup OpenPcts : f \in Fields /\ f[1] = "network"
  /\ \A f \in {SettingsEnabled, ActivityExported, MonitoredCount, LoggedPct,
               UnloggedCount} : f \in Fields /\ f[1] = "logging"
  /\ \A f \in InventoryFields : f \in Fields /\ f[1] = "inventory"
  /\ RetentionRead = <<"backup", "retentionRead">> /\ RetentionRead \notin Fields
  BY DEF Fields, RetentionRead

HIDE DEF DefenderFields, RBACFields, StoragePcts, KeyVaultFields, OpenPcts,
  InventoryFields, AssignmentsCount, CompliantPct, NoncompliantCount, StorageCount,
  ServersCount, ServersPct, DatabasesCount, TDEPct, MachinesCount, DiskPct,
  PublicIPPct, VaultPct, ProtectedPct, RetentionMin, BackupAge, FailedJobs,
  PublicIPCount, GroupsCount, SettingsEnabled, ActivityExported, MonitoredCount,
  LoggedPct, UnloggedCount, Lists, Settings

(* A field is taken from reads of its own handler and of earlier ones.     *)
LEMMA SourcesComeFirst ==
  \A k \in 2..12, f \in Fields : f[1] = Steps[k] =>
    /\ "subscription" \in Sources(f)
    /\ \A n \in 1..12 : n > k => Sources(f) \cap ReadsOf[n] = {}
<1>. SUFFICES ASSUME NEW k \in 2..12, NEW f \in Fields, f[1] = Steps[k]
     PROVE /\ "subscription" \in Sources(f)
           /\ \A n \in 1..12 : n > k => Sources(f) \cap ReadsOf[n] = {}
  OBVIOUS
<1>2. CASE k = 2
  BY <1>2, DefenderSources DEF Steps, ReadsOf
<1>3. CASE k \in {3, 5, 6, 12}
  BY <1>3, BlockSources DEF Steps, ReadsOf
<1>4. CASE k = 4
  BY <1>4, PolicySources DEF Steps, ReadsOf
<1>7. CASE k = 7
  BY <1>7, SQLSources DEF Steps, ReadsOf
<1>8. CASE k = 8
  BY <1>8, ComputeSources DEF Steps, ReadsOf
<1>9. CASE k = 9
  BY <1>9, BackupSources DEF Steps, ReadsOf
<1>10. CASE k = 10
  BY <1>10, NetworkSources DEF Steps, ReadsOf
<1>11. CASE k = 11
  BY <1>11, LoggingSources DEF Steps, ReadsOf
<1>. QED
  BY <1>2, <1>3, <1>4, <1>7, <1>8, <1>9, <1>10, <1>11

-----------------------------------------------------------------------------
(* Where the run is, and what it has by then of the subscription in hand.  *)
PlaceOk ==
  /\ estates \in Configurations /\ account \in 1..Len(estates) + 1 /\ step \in 1..12
  /\ account = Len(estates) + 1 => step = 1
  /\ DOMAIN unreadable = DOMAIN estates

ReadsInTurn ==
  \A r \in failedReads :
    /\ r[1] \in 1..account /\ r[1] <= Len(estates)
    /\ r[1] = account => \E k \in 2..step - 1 : r[2] \in ReadsOf[k]

InTurn(at) ==
  /\ at = <<at[1], at[2], at[3]>>
  /\ at[1] \in 1..account /\ at[1] <= Len(estates)
  /\ at[1] = account => \E k \in 2..step - 1 : at[2] = Steps[k]

SettledInTurn ==
  /\ \A w \in written : InTurn(w)
  /\ \A g \in gaps : InTurn(g.at)
  /\ \A n \in numbers : n.at \in written

(* A list is known unless its own read failed.                             *)
Knows(reads, name, miss) ==
  /\ miss = NoMiss => \A r \in reads : ~(r[1] = account /\ r[2] = name)
  /\ miss # NoMiss => /\ miss.about \in reads
                      /\ miss.about[1] = account /\ miss.about[2] = name

(* The fields a handler may change one at a time.                          *)
FoundShape(fd) ==
  fd = [storage |-> fd.storage, storageMiss |-> fd.storageMiss,
        keyVaults |-> fd.keyVaults, keyVaultsMiss |-> fd.keyVaultsMiss,
        databases |-> fd.databases, masters |-> fd.masters,
        serversMiss |-> fd.serversMiss, databasesMiss |-> fd.databasesMiss,
        machines |-> fd.machines, machinesMiss |-> fd.machinesMiss,
        publicIPs |-> fd.publicIPs, publicIPsMiss |-> fd.publicIPsMiss]

ListsKnown(reads, fd) ==
  /\ Knows(reads, "storage", fd.storageMiss)
  /\ Knows(reads, "keyvault", fd.keyVaultsMiss)
  /\ Knows(reads, "sql", fd.serversMiss)
  /\ Knows(reads, "databases", fd.databasesMiss)
  /\ Knows(reads, "machines", fd.machinesMiss)
  /\ Knows(reads, "public_ips", fd.publicIPsMiss)

(* What each list holds when the handler before next has found it.         *)
ListsComplete(next, fd) ==
  /\ next > 5 /\ fd.storageMiss = NoMiss => fd.storage = ToSet(estate.storage)
  /\ next > 6 /\ fd.keyVaultsMiss = NoMiss => fd.keyVaults = ToSet(estate.keyVaults)
  /\ next > 7 /\ fd.serversMiss = NoMiss /\ fd.databasesMiss = NoMiss =>
       /\ fd.databases = {d.id : d \in CountedDatabases(estate)}
       /\ fd.masters = {d.id : d \in ToSet(estate.databases) \ CountedDatabases(estate)}
  /\ next > 8 /\ fd.machinesMiss = NoMiss => fd.machines = ToSet(estate.machines)

FoundOk(reads, next, fd) ==
  FoundShape(fd) /\ ListsKnown(reads, fd) /\ ListsComplete(next, fd)

FoundInv == FoundOk(failedReads, step, found)

TurnInv == PlaceOk /\ ReadsInTurn /\ SettledInTurn /\ FoundInv

-----------------------------------------------------------------------------
(* What a handler owes each field of its block, given the reads of its own *)
(* that fail: a value that rests on its reads, one gap that names a read   *)
(* it is taken from, or a null over an empty population.                   *)
RestsOnReads(f, failing) ==
  \A r \in failedReads \cup failing : r[1] = account => r[2] \notin Sources(f) \ Settings

(* What a gap that counts the unmeasured must count.                       *)
UndecidedBy(i, id, reads) ==
  LET unread == {s \in Settings : <<i, s, id>> \in reads}
  IN unread # {} /\ \A s \in Settings \ unread : <<id, s>> \notin estates[i].logged

Unmeasured(about, reads) ==
  IF about[2] \in Settings
  THEN Cardinality({id \in Monitored(estates[about[1]]) : UndecidedBy(about[1], id, reads)})
  ELSE Cardinality({r \in reads : r[1] = about[1] /\ r[2] = about[2]})

Names(g, reads) ==
  /\ g.at = <<account, Steps[step], g.at[3]>>
  /\ g.why.about \in reads /\ g.why.about[1] = account
  /\ step > 1 => \E f \in Fields : Covers(g, account, f)
  /\ \A f \in Fields : Covers(g, account, f) => g.why.about[2] \in Sources(f)
  /\ g.unmeasured > 0 => g.unmeasured = Unmeasured(g.why.about, reads)

Settled(f, failing, o) ==
  LET of == {g \in o.left : Covers(g, account, f)} IN
  \/ /\ of = {} /\ RestsOnReads(f, failing)
     /\ f \in o.fields <=> ~EmptyPopulation(estate, f)
  \/ f \notin o.fields /\ \E g : of = {g}

TrueOf(n, o) ==
  \E f \in o.fields : n.at = pointer(f) /\ n.num = Truth(estate, f)

Settles(F, failing, o) ==
  /\ o.fields \subseteq F \cup {RetentionRead}
  /\ \A f \in o.fields : f[1] = Steps[step]
  /\ \A g \in o.left : /\ Names(g, failedReads \cup failing)
                       /\ \A f \in Fields : Covers(g, account, f) => f \in F
  /\ \A n \in o.nums : TrueOf(n, o)
  /\ \A f \in F : Settled(f, failing, o)

DueHere == {f \in Fields : f[1] = Steps[step] /\ InScope(f)}

(* What every handler but that of an unreadable subscription does.         *)
Handled ==
  /\ account \in DOMAIN estates
  /\ \E failing, o, fd :
       /\ Done(failing, o, fd)
       /\ \A r \in failing : r[1] = account /\ r[2] \in ReadsOf[step] /\ step > 1
       /\ Settles(DueHere, failing, o)
       /\ FoundOk(failedReads \cup failing, step + 1, fd)

-----------------------------------------------------------------------------
(* What the pieces of an outcome settle.                                   *)
LEMMA WroteSettles ==
  ASSUME NEW F \in SUBSET Fields, NEW G \in SUBSET F, NEW failing,
         \A f \in F : f[1] = Steps[step],
         \A f \in F : RestsOnReads(f, failing),
         \A f \in F : f \in G <=> ~EmptyPopulation(estate, f)
  PROVE  Settles(F, failing, Wrote(G))
<1>1. Wrote(G).fields = G /\ Wrote(G).left = {} /\ Wrote(G).nums = {}
  BY DEF Wrote, Nothing
<1>. QED
  BY <1>1 DEF Settles, Settled

LEMMA CountSettles ==
  ASSUME NEW f \in Fields, NEW ns, NEW failing,
         f[1] = Steps[step], RestsOnReads(f, failing),
         ns = {} <=> EmptyPopulation(estate, f),
         \A n \in ns : n = Truth(estate, f)
  PROVE  Settles({f}, failing, Count(f, ns))
<1>1. /\ Count(f, ns).fields = IF ns = {} THEN {} ELSE {f}
      /\ Count(f, ns).left = {} /\ Count(f, ns).nums = Number(f, ns)
  BY DEF Count, Nothing
<1>2. \A n \in Number(f, ns) : TrueOf(n, Count(f, ns))
  BY <1>1 DEF TrueOf, Number
<1>. QED
  BY <1>1, <1>2 DEF Settles, Settled

LEMMA RetentionReadSettles ==
  ASSUME NEW F \in SUBSET Fields, NEW failing, Steps[step] = "backup",
         \A f \in F : RestsOnReads(f, failing) /\ EmptyPopulation(estate, f)
  PROVE  Settles(F, failing, Wrote({RetentionRead}))
<1>1. /\ Wrote({RetentionRead}).fields = {RetentionRead}
      /\ Wrote({RetentionRead}).left = {} /\ Wrote({RetentionRead}).nums = {}
  BY DEF Wrote, Nothing
<1>. QED
  BY <1>1, FieldsOfBlocks DEF Settles, Settled

LEMMA LeftSettles ==
  ASSUME NEW F \in SUBSET Fields, NEW n, NEW why, NEW failing,
         \A f \in F : f[1] = Steps[step] /\ why.about[2] \in Sources(f),
         why # NoMiss, why.about \in failedReads \cup failing, why.about[1] = account,
         n > 0 => n = Unmeasured(why.about, failedReads \cup failing)
  PROVE  Settles(F, failing, Left(partial(n, why, F)))
<1>. DEFINE gap(f) == [at |-> pointer(f), why |-> why, unmeasured |-> n]
            o == Left(partial(n, why, F))
<1>1. o.fields = {} /\ o.nums = {} /\ o.left = {gap(f) : f \in F}
  BY DEF Left, Nothing, partial
<1>2. \A f \in F, h \in Fields : Covers(gap(f), account, h) <=> h = f
  BY BlocksOfFields DEF Covers, pointer
<1>3. \A f \in F : Names(gap(f), failedReads \cup failing)
  BY <1>2 DEF Names, pointer
<1>4. \A f \in F : {g \in {gap(h) : h \in F} : Covers(g, account, f)} = {gap(f)}
  BY <1>2
<1>. HIDE DEF gap, o
<1>5. \A f \in F : Settled(f, failing, o)
  BY <1>1, <1>4 DEF Settled
<1>6. ASSUME NEW g \in o.left
      PROVE  /\ Names(g, failedReads \cup failing)
             /\ \A f \in Fields : Covers(g, account, f) => f \in F
  <2>1. PICK f \in F : g = gap(f)
    BY <1>1
  <2>. QED
    BY <1>2, <1>3, <2>1
<1>7. Settles(F, failing, o)
  BY <1>1, <1>5, <1>6 DEF Settles
<1>. QED
  BY <1>7 DEF o

LEMMA LeaveOutSettles ==
  ASSUME NEW F \in SUBSET Fields, NEW why, NEW failing,
         \A f \in F : f[1] = Steps[step] /\ why.about[2] \in Sources(f),
         why # NoMiss, why.about \in failedReads \cup failing, why.about[1] = account
  PROVE  Settles(F, failing, Left(leaveOut(why, F)))
  BY LeftSettles, 0 \in Nat, ~(0 > 0) DEF leaveOut

LEMMA StepOk == TurnInv => step \in 1..12
BY DEF TurnInv, PlaceOk

LEMMA BlockSettles ==
  ASSUME step \in 1..12,
         NEW F, F = {f \in Fields : f[1] = Steps[step]}, NEW why, NEW failing,
         \A f \in F : why.about[2] \in Sources(f),
         why # NoMiss, why.about \in failedReads \cup failing, why.about[1] = account
  PROVE  Settles(F, failing, Left(LeaveOutBlock(why, Steps[step])))
<1>. DEFINE gap == [at |-> <<account, Steps[step], Whole>>, why |-> why, unmeasured |-> 0]
            o == Left(LeaveOutBlock(why, Steps[step]))
<1>1. o.fields = {} /\ o.nums = {} /\ o.left = {gap}
  BY DEF Left, Nothing, partial, leaveOut, LeaveOutBlock, pointer
<1>2. \A h \in Fields : Covers(gap, account, h) <=> h \in F
  BY BlocksOfFields DEF Covers
<1>3. Names(gap, failedReads \cup failing)
  <2>1. step > 1 => \E f \in F : TRUE
    BY EveryBlockHasFields
  <2>. QED
    BY <1>2, <2>1 DEF Names
<1>4. \A f \in F : {g \in {gap} : Covers(g, account, f)} = {gap}
  BY <1>2
<1>. HIDE DEF gap, o
<1>5. \A f \in F : Settled(f, failing, o)
  BY <1>1, <1>4 DEF Settled
<1>6. Settles(F, failing, o)
  BY <1>1, <1>2, <1>3, <1>5 DEF Settles
<1>. QED
  BY <1>6 DEF o

LEMMA AndSettles ==
  ASSUME NEW F \in SUBSET Fields, NEW G \in SUBSET Fields, NEW failing, NEW a, NEW b,
         F \cap G = {}, Settles(F, failing, a), Settles(G, failing, b)
  PROVE  Settles(F \cup G, failing, And(a, b))
<1>1. /\ And(a, b).fields = a.fields \cup b.fields
      /\ And(a, b).left = a.left \cup b.left /\ And(a, b).nums = a.nums \cup b.nums
  BY DEF And
<1>2. RetentionRead \notin Fields
  BY FieldsOfBlocks
<1>3. ASSUME NEW f \in F PROVE Settled(f, failing, And(a, b))
  <2>1. f \in And(a, b).fields <=> f \in a.fields
    BY <1>1, <1>2 DEF Settles
  <2>2. {g \in And(a, b).left : Covers(g, account, f)} = {g \in a.left : Covers(g, account, f)}
    BY <1>1 DEF Settles
  <2>. QED
    BY <2>1, <2>2 DEF Settles, Settled
<1>4. ASSUME NEW f \in G PROVE Settled(f, failing, And(a, b))
  <2>1. f \in And(a, b).fields <=> f \in b.fields
    BY <1>1, <1>2 DEF Settles
  <2>2. {g \in And(a, b).left : Covers(g, account, f)} = {g \in b.left : Covers(g, account, f)}
    BY <1>1 DEF Settles
  <2>. QED
    BY <2>1, <2>2 DEF Settles, Settled
<1>5. \A n \in And(a, b).nums : TrueOf(n, And(a, b))
  BY <1>1 DEF Settles, TrueOf
<1>. QED
  BY <1>1, <1>3, <1>4, <1>5 DEF Settles

-----------------------------------------------------------------------------
(* What every handler may take for granted.                                *)
LEMMA EstateOk ==
  ASSUME PlaceOk, NEW i \in DOMAIN estates
  PROVE  estates[i] \in Estate /\ IsEstate(estates[i])
  BY ConfigurationsAssumption DEF PlaceOk

LEMMA HereOk ==
  ASSUME PlaceOk
  PROVE  /\ account \in DOMAIN estates <=> account # Len(estates) + 1
         /\ DOMAIN estates = 1..Len(estates) /\ Len(estates) \in Nat
         /\ account \in DOMAIN estates => estate \in Estate /\ IsEstate(estate)
<1>1. DOMAIN estates = 1..Len(estates) /\ Len(estates) \in Nat
  BY ConfigurationsAssumption DEF PlaceOk
<1>. QED
  BY <1>1, EstateOk DEF PlaceOk, estate

Own(failing) == \A r \in failing : r[1] = account /\ r[2] \in ReadsOf[step]
Unfailed(name, reads) == \A r \in reads : ~(r[1] = account /\ r[2] = name)

LEMMA FreshReads ==
  ASSUME TurnInv, NEW r \in failedReads, r[1] = account
  PROVE  r[2] \notin ReadsOf[step] /\ r[2] # "subscription"
<1>1. PICK k \in 2..step - 1 : r[2] \in ReadsOf[k]
  BY DEF TurnInv, ReadsInTurn
<1>2. k \in 1..12 /\ step \in 1..12 /\ k # step /\ k # 1
  BY DEF TurnInv, PlaceOk
<1>3. "subscription" \in ReadsOf[1]
  BY DEF ReadsOf
<1>. QED
  BY <1>1, <1>2, <1>3, ReadsAreOfOneHandler

LEMMA Rests ==
  ASSUME TurnInv, NEW f, NEW failing, Own(failing), step > 1,
         \A n \in Sources(f) \ Settings :
           \/ n = "subscription"
           \/ n \in ReadsOf[step] /\ Unfailed(n, failing)
           \/ n \notin ReadsOf[step] /\ Unfailed(n, failedReads)
  PROVE  RestsOnReads(f, failing)
<1>1. step \in 2..12 /\ "subscription" \in ReadsOf[1]
  BY DEF TurnInv, PlaceOk, ReadsOf
<1>2. "subscription" \notin ReadsOf[step]
  BY <1>1, ReadsAreOfOneHandler
<1>3. ASSUME NEW r \in failing, r[1] = account PROVE r[2] \notin Sources(f) \ Settings
  BY <1>2, <1>3 DEF Own, Unfailed
<1>4. ASSUME NEW r \in failedReads, r[1] = account PROVE r[2] \notin Sources(f) \ Settings
  BY <1>4, FreshReads DEF Unfailed
<1>. QED
  BY <1>3, <1>4 DEF RestsOnReads

(* What is known of the other lists is left as it was.                     *)
LEMMA KnowsKept ==
  ASSUME NEW failing, Own(failing), NEW name, name \notin ReadsOf[step], NEW miss,
         Knows(failedReads, name, miss)
  PROVE  Knows(failedReads \cup failing, name, miss)
  BY DEF Knows, Own

LEMMA FoundKept ==
  ASSUME TurnInv, NEW failing, Own(failing), step \notin {5, 6, 7, 8}
  PROVE  FoundOk(failedReads \cup failing, step + 1, found)
<1>1. step \in 1..12 /\ FoundOk(failedReads, step, found)
  BY DEF TurnInv, PlaceOk, FoundInv
<1>2. \A n \in {"storage", "keyvault", "sql", "databases", "machines", "public_ips"} :
        n \notin ReadsOf[step]
  BY <1>1 DEF ReadsOf
<1>3. ListsKnown(failedReads \cup failing, found)
  BY <1>1, <1>2, KnowsKept DEF FoundOk, ListsKnown
<1>4. ListsComplete(step + 1, found)
  BY <1>1 DEF FoundOk, ListsComplete
<1>. QED
  BY <1>1, <1>3, <1>4 DEF FoundOk

LEMMA HandledBy ==
  ASSUME NEW failing, NEW o, NEW fd, account \in DOMAIN estates, step > 1,
         Done(failing, o, fd), Own(failing), Settles(DueHere, failing, o),
         FoundOk(failedReads \cup failing, step + 1, fd)
  PROVE  Handled
  BY DEF Handled, Own

LEMMA StepNames ==
  /\ Steps[1] = "subscription" /\ Steps[2] = "defender" /\ Steps[3] = "rbac"
  /\ Steps[4] = "policy" /\ Steps[5] = "storage" /\ Steps[6] = "keyvault"
  /\ Steps[7] = "sql" /\ Steps[8] = "compute" /\ Steps[9] = "backup"
  /\ Steps[10] = "network" /\ Steps[11] = "logging" /\ Steps[12] = "inventory"
  BY DEF Steps

LEMMA ReadNames ==
  /\ ReadsOf[2] = {"score", "assessments"} /\ ReadsOf[3] = {"rbac"}
  /\ ReadsOf[4] = {"policy", "summary"} /\ ReadsOf[5] = {"storage"}
  /\ ReadsOf[6] = {"keyvault"} /\ ReadsOf[7] = {"sql", "databases", "tde"}
  /\ ReadsOf[8] = {"machines", "public_ips"}
  /\ ReadsOf[9] = {"backup", "items", "policies", "jobs"}
  /\ ReadsOf[10] = {"security_groups"}
  /\ ReadsOf[11] = {"activity", "own_settings", "service_settings"}
  /\ ReadsOf[12] = {"inventory"}
  BY DEF ReadsOf

LEMMA EstateFields ==
  ASSUME NEW e \in Estate
  PROVE  /\ e.scored \in BOOLEAN /\ e.assessed \in Nat /\ e.assignments \in Nat
         /\ e.evaluated \in Nat /\ e.storage \in Seq(STRING)
         /\ e.keyVaults \in Seq(STRING) /\ e.servers \in Seq(STRING)
         /\ e.databases \in Seq(Database) /\ e.machines \in Seq(STRING)
         /\ e.publicIPs \in Nat /\ e.groups \in Nat /\ e.vaults \in Seq(Vault)
         /\ e.logged \in SUBSET (STRING \X Settings) /\ e.resources \in Nat
  BY DEF Estate

LEMMA EmptyLists ==
  ASSUME NEW S, NEW s \in Seq(S)
  PROVE  Len(s) \in Nat /\ (Len(s) = 0 <=> s = <<>>)
  OBVIOUS

(* At which step, and of which fields, a handler is.                       *)
LEMMA WhereIs ==
  ASSUME TurnInv, NEW k \in 1..12, NEW name, Steps[k] = name, At(name)
  PROVE  /\ step = k /\ Steps[step] = name /\ account \in DOMAIN estates
         /\ estate \in Estate /\ IsEstate(estate)
         /\ k # 12 => DueHere = {f \in Fields : f[1] = name}
<1>1. account \in DOMAIN estates /\ Steps[step] = Steps[k]
  BY DEF At
<1>2. step = k
  BY <1>1, StepsAre DEF TurnInv, PlaceOk
<1>3. k # 12 => Steps[k] # "inventory"
  BY DEF Steps
<1>. QED
  BY <1>1, <1>2, <1>3, HereOk DEF TurnInv, DueHere, InScope

-----------------------------------------------------------------------------
(* A list of one read, and why it is missed.                               *)
LEMMA Misses ==
  ASSUME NEW read, NEW failing
  PROVE  /\ failed(read) # NoMiss /\ failed(read).about = read
         /\ unlicensed(read) # NoMiss /\ unlicensed(read).about = read
         /\ configInvalid(read) # NoMiss /\ configInvalid(read).about = read
         /\ read \in failing => missOf(read, failing) = failed(read)
         /\ read \notin failing => missOf(read, failing) = NoMiss
  BY DEF failed, unlicensed, configInvalid, missOf, NoMiss

LEMMA ReadIs ==
  ASSUME NEW name, NEW of
  PROVE  /\ Read(name, of)[1] = account /\ Read(name, of)[2] = name
         /\ Read(name, of)[3] = of
  BY DEF Read

LEMMA OverIs ==
  ASSUME NEW n \in Nat, NEW F
  PROVE  Over(n, F) = IF n = 0 THEN {} ELSE F
  BY DEF Over

(* Handler by handler.                                                     *)
LEMMA SubscriptionHandled ==
  ASSUME TurnInv, SubscriptionFound
  PROVE  Handled
<1>1. Steps[1] = "subscription" /\ ~\E k \in 2..12 : Steps[k] = "subscription"
  BY DEF Steps
<1>2. step = 1 /\ account \in DOMAIN estates /\ DueHere = {f \in Fields : f[1] = Steps[1]}
  <2>1. At("subscription")
    BY DEF SubscriptionFound
  <2>. QED
    BY <1>1, <2>1, WhereIs
<1>3. DueHere = {}
  BY <1>1, <1>2, BlocksOfFields
<1>4. Settles(DueHere, {}, Nothing)
  BY <1>3 DEF Settles, Nothing
<1>5. FoundOk(failedReads \cup {}, step + 1, found)
  <2>1. Own({})
    BY DEF Own
  <2>. QED
    BY <1>2, <2>1, FoundKept
<1>. QED
  BY <1>2, <1>4, <1>5 DEF Handled, SubscriptionFound

LEMMA DefenderHandled ==
  ASSUME TurnInv, CollectDefender
  PROVE  Handled
<1>. DEFINE score == Read("score", "")
            assessments == Read("assessments", "")
            s == <<"defender", "secure_score_pct">>
            u == <<"defender", "unpatched_pct">>
            Of(field, why, n) == IF why # NoMiss THEN Left(leaveOut(why, {field}))
                                 ELSE Wrote(Over(n, {field}))
<1>1. /\ step = 2 /\ Steps[step] = "defender" /\ account \in DOMAIN estates
      /\ estate \in Estate /\ DueHere = {f \in Fields : f[1] = "defender"}
  <2>1. Steps[2] = "defender" /\ 2 \in 1..12
    BY DEF Steps
  <2>2. At("defender")
    BY DEF CollectDefender
  <2>. QED
    BY <2>1, <2>2, WhereIs
<1>2. PICK failing \in SUBSET {score, assessments},
           scoreMiss \in {NoMiss, failed(score), unlicensed(score)} :
        /\ scoreMiss # NoMiss <=> score \in failing
        /\ Done(failing, And(Of(s, scoreMiss, IF estate.scored THEN 1 ELSE 0),
                             Of(u, missOf(assessments, failing), estate.assessed)), found)
  BY DEF CollectDefender
<1>3. /\ \A r \in failing : r = score \/ r = assessments
      /\ score[1] = account /\ score[2] = "score"
      /\ assessments[1] = account /\ assessments[2] = "assessments"
  <2>1. \A r \in failing : r = score \/ r = assessments
    OBVIOUS
  <2>2. score[1] = account /\ score[2] = "score"
    BY DEF Read
  <2>3. assessments[1] = account /\ assessments[2] = "assessments"
    BY DEF Read
  <2>. QED
    BY <2>1, <2>2, <2>3
<1>4. s \in Fields /\ u \in Fields /\ Sources(s) = {"subscription", "score"}
      /\ Sources(u) = {"subscription", "assessments"} /\ DueHere = {s} \cup {u}
  BY <1>1, DefenderSources, FieldsOfBlocks DEF DefenderFields
<1>. HIDE DEF score, assessments
<1>5. /\ "score" \in ReadsOf[step] /\ "assessments" \in ReadsOf[step]
      /\ score \notin failing => Unfailed("score", failing)
      /\ assessments \notin failing => Unfailed("assessments", failing)
      /\ Own(failing)
  <2>1. "score" \in ReadsOf[step] /\ "assessments" \in ReadsOf[step]
    BY <1>1 DEF ReadsOf
  <2>. QED
    BY <2>1, <1>3 DEF Unfailed, Own
<1>6. ASSUME NEW f \in {s, u}, NEW n \in Nat, NEW why,
             why # NoMiss => /\ why.about \in failing /\ why.about[1] = account
                             /\ why.about[2] \in Sources(f),
             why = NoMiss => RestsOnReads(f, failing),
             n = 0 <=> EmptyPopulation(estate, f)
      PROVE  Settles({f}, failing, Of(f, why, n))
  <2>. f \in Fields /\ f[1] = Steps[step]
    BY <1>1, <1>4
  <2>. HIDE DEF s, u
  <2>1. CASE why # NoMiss
    BY <1>6, <2>1, LeaveOutSettles
  <2>2. CASE why = NoMiss
    <3>. DEFINE G == Over(n, {f})
    <3>1. G \in SUBSET {f} /\ (f \in G <=> n # 0)
      BY OverIs
    <3>. HIDE DEF G
    <3>2. Settles({f}, failing, Wrote(G))
      BY <1>6, <2>2, <3>1, WroteSettles
    <3>. QED
      BY <2>2, <3>2 DEF G
  <2>. QED
    BY <2>1, <2>2
<1>. HIDE DEF Of, s, u
<1>7. Settles({s}, failing, Of(s, scoreMiss, IF estate.scored THEN 1 ELSE 0))
  <2>1. scoreMiss # NoMiss => scoreMiss.about = score /\ score \in failing
    BY <1>2, Misses
  <2>2. scoreMiss = NoMiss => RestsOnReads(s, failing)
    BY <1>1, <1>2, <1>4, <1>5, Rests
  <2>3. ~estate.scored <=> EmptyPopulation(estate, s)
    BY EmptyPopulations DEF s
  <2>. QED
    BY <1>3, <1>4, <1>6, <2>1, <2>2, <2>3
<1>8. Settles({u}, failing, Of(u, missOf(assessments, failing), estate.assessed))
  <2>. DEFINE why == missOf(assessments, failing)
  <2>4. /\ why # NoMiss => why.about = assessments /\ assessments \in failing
        /\ why = NoMiss => assessments \notin failing
    BY Misses
  <2>. HIDE DEF why
  <2>1. why = NoMiss => RestsOnReads(u, failing)
    BY <1>1, <1>4, <1>5, <2>4, Rests
  <2>2. estate.assessed \in Nat
    BY <1>1 DEF Estate
  <2>3. estate.assessed = 0 <=> EmptyPopulation(estate, u)
    BY EmptyPopulations DEF u
  <2>5. Settles({u}, failing, Of(u, why, estate.assessed))
    BY <1>3, <1>4, <1>6, <2>1, <2>2, <2>3, <2>4
  <2>. QED
    BY <2>5 DEF why
<1>9. Settles(DueHere, failing,
              And(Of(s, scoreMiss, IF estate.scored THEN 1 ELSE 0),
                  Of(u, missOf(assessments, failing), estate.assessed)))
  <2>1. s # u
    BY DEF s, u
  <2>. QED
    BY <1>4, <1>7, <1>8, <2>1, AndSettles
<1>10. FoundOk(failedReads \cup failing, step + 1, found)
  BY <1>1, <1>5, FoundKept
<1>. QED
  BY <1>1, <1>2, <1>5, <1>9, <1>10, HandledBy

LEMMA OneListSettles ==
  ASSUME TurnInv, NEW name \in {"rbac", "storage", "keyvault", "inventory"},
         step > 1, name = Steps[step], name \in ReadsOf[step],
         DueHere = {f \in Fields : f[1] = name},
         NEW G \in SUBSET DueHere, \A f \in DueHere : f \in G <=> ~EmptyPopulation(estate, f),
         NEW failing \in SUBSET {Read(name, "")}, NEW why,
         why = missOf(Read(name, ""), failing), NEW o,
         o = IF why = NoMiss THEN Wrote(G) ELSE Left(LeaveOutBlock(why, name))
  PROVE  /\ Own(failing) /\ Settles(DueHere, failing, o)
         /\ Knows(failedReads \cup failing, name, why)
<1>. DEFINE list == Read(name, "")
<1>1. /\ \A r \in failing : r = list
      /\ list[1] = account /\ list[2] = name
  BY ReadIs
<1>2. /\ why = NoMiss => list \notin failing
      /\ why # NoMiss => why.about = list /\ list \in failing
  BY Misses
<1>. HIDE DEF list
<1>3. Own(failing)
  BY <1>1 DEF Own
<1>4. \A f \in DueHere : Sources(f) = {"subscription", name}
  BY BlockSources
<1>5. CASE why = NoMiss
  <2>1. failing = {}
    BY <1>1, <1>2, <1>5
  <2>2. \A f \in DueHere : RestsOnReads(f, failing)
    <3>1. Unfailed(name, failing)
      BY <2>1 DEF Unfailed
    <3>2. ASSUME NEW f \in DueHere PROVE RestsOnReads(f, failing)
      <4>1. Sources(f) = {"subscription", name}
        BY <1>4
      <4>2. \A n \in Sources(f) \ Settings :
              \/ n = "subscription"
              \/ n \in ReadsOf[step] /\ Unfailed(n, failing)
              \/ n \notin ReadsOf[step] /\ Unfailed(n, failedReads)
        BY <3>1, <4>1
      <4>. QED
        BY <1>3, <4>2, Rests
    <3>. QED
      BY <3>2
  <2>3. Settles(DueHere, failing, Wrote(G))
    BY <2>2, WroteSettles
  <2>4. Knows(failedReads \cup failing, name, why)
    BY <1>5, <2>1, FreshReads DEF Knows
  <2>. QED
    BY <1>3, <1>5, <2>3, <2>4
<1>6. CASE why # NoMiss
  <2>1. Settles(DueHere, failing, Left(LeaveOutBlock(why, name)))
    BY <1>1, <1>2, <1>4, <1>6, StepOk, BlockSettles
  <2>2. Knows(failedReads \cup failing, name, why)
    BY <1>1, <1>2, <1>6 DEF Knows
  <2>. QED
    BY <1>3, <1>6, <2>1, <2>2
<1>. QED
  BY <1>5, <1>6

LEMMA RBACHandled ==
  ASSUME TurnInv, CollectRBAC
  PROVE  Handled
<1>1. At("rbac")
  BY DEF CollectRBAC, OneList
<1>2. /\ step = 3 /\ Steps[step] = "rbac" /\ account \in DOMAIN estates
      /\ DueHere = {f \in Fields : f[1] = "rbac"} /\ "rbac" \in ReadsOf[step]
  BY <1>1, WhereIs, StepNames, ReadNames
<1>3. PICK failing, why, o :
        /\ failing \in SUBSET {Read("rbac", "")}
        /\ why = missOf(Read("rbac", ""), failing)
        /\ o = IF why = NoMiss THEN Wrote(RBACFields) ELSE Left(LeaveOutBlock(why, "rbac"))
        /\ Done(failing, o, found)
  BY DEF CollectRBAC, OneList
<1>4. DueHere = RBACFields
  BY <1>2, BlockSources, FieldsOfBlocks
<1>5. Own(failing) /\ Settles(DueHere, failing, o)
  <2>1. /\ failing \in SUBSET {Read("rbac", "")}
        /\ why = missOf(Read("rbac", ""), failing)
        /\ o = IF why = NoMiss THEN Wrote(RBACFields) ELSE Left(LeaveOutBlock(why, "rbac"))
    BY <1>3
  <2>2. step > 1 /\ RBACFields \in SUBSET DueHere
        /\ \A f \in DueHere : f \in RBACFields <=> ~EmptyPopulation(estate, f)
    BY <1>2, <1>4, NeverEmpty
  <2>. QED
    BY <1>2, <2>1, <2>2, OneListSettles
<1>6. FoundOk(failedReads \cup failing, step + 1, found)
  BY <1>2, <1>5, FoundKept
<1>7. step > 1
  BY <1>2
<1>. QED
  BY <1>2, <1>3, <1>5, <1>6, <1>7, HandledBy, Zenon

LEMMA StorageHandled ==
  ASSUME TurnInv, CollectStorage
  PROVE  Handled
<1>1. At("storage")
  BY DEF CollectStorage, OneList
<1>2. /\ step = 5 /\ Steps[step] = "storage" /\ account \in DOMAIN estates
      /\ DueHere = {f \in Fields : f[1] = "storage"} /\ ReadsOf[step] = {"storage"}
      /\ estate \in Estate
  BY <1>1, WhereIs, StepNames, ReadNames
<1>. DEFINE G == {StorageCount} \cup Over(Len(estate.storage), StoragePcts)
<1>3. PICK failing, why, o, fd :
        /\ failing \in SUBSET {Read("storage", "")}
        /\ why = missOf(Read("storage", ""), failing)
        /\ o = IF why = NoMiss THEN Wrote(G) ELSE Left(LeaveOutBlock(why, "storage"))
        /\ fd = [found EXCEPT !.storageMiss = why, !.storage =
                    IF why = NoMiss THEN ToSet(estate.storage) ELSE {}]
        /\ Done(failing, o, fd)
  BY DEF CollectStorage, OneList
<1>4. DueHere = {StorageCount} \cup StoragePcts
  BY <1>2, BlockSources, FieldsOfBlocks
<1>5. G \in SUBSET DueHere /\ \A f \in DueHere : f \in G <=> ~EmptyPopulation(estate, f)
  <2>1. Len(estate.storage) \in Nat /\ (Len(estate.storage) = 0 <=> estate.storage = <<>>)
    BY <1>2, EstateFields, EmptyLists
  <2>. QED
    BY <1>4, <2>1, OverIs, EmptyPopulations, NeverEmpty
<1>. HIDE DEF G
<1>6. /\ Own(failing) /\ Settles(DueHere, failing, o)
      /\ Knows(failedReads \cup failing, "storage", why)
  <2>1. /\ failing \in SUBSET {Read("storage", "")}
        /\ why = missOf(Read("storage", ""), failing)
        /\ o = IF why = NoMiss THEN Wrote(G) ELSE Left(LeaveOutBlock(why, "storage"))
    BY <1>3
  <2>2. step > 1 /\ "storage" \in ReadsOf[step]
    BY <1>2
  <2>. QED
    BY <1>2, <1>5, <2>1, <2>2, OneListSettles
<1>7. /\ FoundShape(fd) /\ fd.storageMiss = why
      /\ fd.storage = IF why = NoMiss THEN ToSet(estate.storage) ELSE {}
      /\ fd.keyVaultsMiss = found.keyVaultsMiss /\ fd.serversMiss = found.serversMiss
      /\ fd.databasesMiss = found.databasesMiss /\ fd.machinesMiss = found.machinesMiss
      /\ fd.publicIPsMiss = found.publicIPsMiss
  <2>1. FoundShape(found)
    BY DEF TurnInv, FoundInv, FoundOk
  <2>. QED
    BY <1>3, <2>1 DEF FoundShape
<1>8. FoundOk(failedReads \cup failing, step + 1, fd)
  <2>1. \A n \in {"keyvault", "sql", "databases", "machines", "public_ips"} :
          n \notin ReadsOf[step]
    BY <1>2
  <2>2. FoundOk(failedReads, 5, found)
    BY <1>2 DEF TurnInv, FoundInv
  <2>3. ListsKnown(failedReads \cup failing, fd)
    BY <1>6, <1>7, <2>1, <2>2, KnowsKept DEF FoundOk, ListsKnown
  <2>4. ListsComplete(6, fd)
    BY <1>7 DEF ListsComplete
  <2>. QED
    BY <1>2, <1>7, <2>3, <2>4 DEF FoundOk
<1>9. step > 1
  BY <1>2
<1>. QED
  BY <1>2, <1>3, <1>6, <1>8, <1>9, HandledBy, Zenon

LEMMA KeyVaultHandled ==
  ASSUME TurnInv, CollectKeyVault
  PROVE  Handled
<1>1. At("keyvault")
  BY DEF CollectKeyVault, OneList
<1>2. /\ step = 6 /\ Steps[step] = "keyvault" /\ account \in DOMAIN estates
      /\ DueHere = {f \in Fields : f[1] = "keyvault"} /\ ReadsOf[step] = {"keyvault"}
      /\ estate \in Estate
  BY <1>1, WhereIs, StepNames, ReadNames
<1>. DEFINE G == {<<"keyvault", "vaults_count">>}
                   \cup Over(Len(estate.keyVaults), KeyVaultFields)
<1>3. PICK failing, why, o, fd :
        /\ failing \in SUBSET {Read("keyvault", "")}
        /\ why = missOf(Read("keyvault", ""), failing)
        /\ o = IF why = NoMiss THEN Wrote(G) ELSE Left(LeaveOutBlock(why, "keyvault"))
        /\ fd = [found EXCEPT !.keyVaultsMiss = why, !.keyVaults =
                    IF why = NoMiss THEN ToSet(estate.keyVaults) ELSE {}]
        /\ Done(failing, o, fd)
  BY DEF CollectKeyVault, OneList
<1>4. DueHere = KeyVaultFields
  BY <1>2, BlockSources, FieldsOfBlocks
<1>5. G \in SUBSET DueHere /\ \A f \in DueHere : f \in G <=> ~EmptyPopulation(estate, f)
  <2>1. Len(estate.keyVaults) \in Nat /\ (Len(estate.keyVaults) = 0 <=> estate.keyVaults = <<>>)
    BY <1>2, EstateFields, EmptyLists
  <2>2. KeyVaultFields = {<<"keyvault", "vaults_count">>,
                          <<"keyvault", "purge_protection_pct">>}
    BY DEF KeyVaultFields
  <2>. QED
    BY <1>4, <2>1, <2>2, OverIs, EmptyPopulations, NeverEmpty
<1>. HIDE DEF G
<1>6. /\ Own(failing) /\ Settles(DueHere, failing, o)
      /\ Knows(failedReads \cup failing, "keyvault", why)
  <2>1. /\ failing \in SUBSET {Read("keyvault", "")}
        /\ why = missOf(Read("keyvault", ""), failing)
        /\ o = IF why = NoMiss THEN Wrote(G) ELSE Left(LeaveOutBlock(why, "keyvault"))
    BY <1>3
  <2>2. step > 1 /\ "keyvault" \in ReadsOf[step]
    BY <1>2
  <2>. QED
    BY <1>2, <1>5, <2>1, <2>2, OneListSettles
<1>7. /\ FoundShape(fd) /\ fd.keyVaultsMiss = why
      /\ fd.keyVaults = IF why = NoMiss THEN ToSet(estate.keyVaults) ELSE {}
      /\ fd.storageMiss = found.storageMiss /\ fd.serversMiss = found.serversMiss
      /\ fd.databasesMiss = found.databasesMiss /\ fd.machinesMiss = found.machinesMiss
      /\ fd.publicIPsMiss = found.publicIPsMiss /\ fd.storage = found.storage
  <2>1. FoundShape(found)
    BY DEF TurnInv, FoundInv, FoundOk
  <2>. QED
    BY <1>3, <2>1 DEF FoundShape
<1>8. FoundOk(failedReads \cup failing, step + 1, fd)
  <2>1. \A n \in {"storage", "sql", "databases", "machines", "public_ips"} :
          n \notin ReadsOf[step]
    BY <1>2
  <2>2. FoundOk(failedReads, 6, found)
    BY <1>2 DEF TurnInv, FoundInv
  <2>3. ListsKnown(failedReads \cup failing, fd)
    BY <1>6, <1>7, <2>1, <2>2, KnowsKept DEF FoundOk, ListsKnown
  <2>4. ListsComplete(7, fd)
    BY <1>7, <2>2 DEF FoundOk, ListsComplete
  <2>. QED
    BY <1>2, <1>7, <2>3, <2>4 DEF FoundOk
<1>9. step > 1
  BY <1>2
<1>. QED
  BY <1>2, <1>3, <1>6, <1>8, <1>9, HandledBy, Zenon

LEMMA PolicyHandled ==
  ASSUME TurnInv, CollectPolicy
  PROVE  Handled
<1>. DEFINE list == Read("policy", "")
            summary == Read("summary", "")
            unmeasured == {CompliantPct, NoncompliantCount}
            G == {AssignmentsCount}
                   \cup Over(estate.assignments, {NoncompliantCount})
                   \cup (IF estate.assignments > 0
                         THEN Over(estate.evaluated, {CompliantPct}) ELSE {})
<1>1. At("policy")
  BY DEF CollectPolicy
<1>2. /\ step = 4 /\ Steps[step] = "policy" /\ account \in DOMAIN estates
      /\ DueHere = {f \in Fields : f[1] = "policy"}
      /\ ReadsOf[step] = {"policy", "summary"} /\ estate \in Estate
  BY <1>1, WhereIs, StepNames, ReadNames
<1>3. PICK failing, o :
        /\ failing \in SUBSET {list, summary}
        /\ o = CASE list \in failing -> Left(LeaveOutBlock(failed(list), "policy"))
                 [] summary \in failing ->
                      And(Wrote({AssignmentsCount}),
                          Left(leaveOut(failed(summary), unmeasured)))
                 [] OTHER -> Wrote(G)
        /\ summary \in failing => list \notin failing
        /\ Done(failing, o, found)
  BY DEF CollectPolicy
<1>4. /\ DueHere = {AssignmentsCount} \cup unmeasured
      /\ DueHere \subseteq Fields /\ AssignmentsCount \notin unmeasured
      /\ Sources(AssignmentsCount) = {"subscription", "policy"}
      /\ \A f \in unmeasured : Sources(f) = {"subscription", "policy", "summary"}
  <2>1. AssignmentsCount \notin unmeasured
    BY DEF AssignmentsCount, CompliantPct, NoncompliantCount
  <2>. QED
    BY <1>2, <2>1, PolicySources, FieldsOfBlocks
<1>5. /\ list[1] = account /\ list[2] = "policy"
      /\ summary[1] = account /\ summary[2] = "summary"
  BY DEF Read
<1>6. G \in SUBSET DueHere /\ \A f \in DueHere : f \in G <=> ~EmptyPopulation(estate, f)
  <2>1. estate.assignments \in Nat /\ estate.evaluated \in Nat
    BY <1>2, EstateFields
  <2>2. EmptyPopulation(estate, CompliantPct) <=>
          estate.assignments = 0 \/ estate.evaluated = 0
    BY EmptyPopulations
  <2>3. EmptyPopulation(estate, NoncompliantCount) <=> estate.assignments = 0
    BY EmptyPopulations
  <2>. QED
    BY <1>4, <2>1, <2>2, <2>3, OverIs, NeverEmpty
<1>. HIDE DEF list, summary, G
<1>7. Own(failing)
  BY <1>2, <1>3, <1>5 DEF Own
<1>8. Settles(DueHere, failing, o)
  <2>1. CASE list \in failing
    <3>1. o = Left(LeaveOutBlock(failed(list), Steps[step]))
      BY <1>2, <1>3, <2>1
    <3>2. /\ failed(list) # NoMiss /\ failed(list).about = list
          /\ \A f \in DueHere : "policy" \in Sources(f)
      BY <1>4, Misses
    <3>3. DueHere = {f \in Fields : f[1] = Steps[step]}
      BY <1>2
    <3>. QED
      BY <1>5, <2>1, <3>1, <3>2, <3>3, StepOk, BlockSettles
  <2>2. CASE summary \in failing
    <3>. DEFINE a == Wrote({AssignmentsCount})
                b == Left(leaveOut(failed(summary), unmeasured))
    <3>1. o = And(a, b) /\ list \notin failing
      BY <1>3, <2>2
    <3>2. Unfailed("policy", failing)
      BY <1>3, <1>5, <3>1 DEF Unfailed
    <3>3. RestsOnReads(AssignmentsCount, failing)
      BY <1>2, <1>4, <1>7, <3>2, Rests
    <3>4. Settles({AssignmentsCount}, failing, a)
      BY <1>2, <1>4, <3>3, NeverEmpty, WroteSettles
    <3>5. Settles(unmeasured, failing, b)
      <4>1. failed(summary) # NoMiss /\ failed(summary).about = summary
        BY Misses
      <4>. QED
        BY <1>2, <1>4, <1>5, <2>2, <4>1, LeaveOutSettles
    <3>. HIDE DEF a, b
    <3>. QED
      BY <1>4, <3>1, <3>4, <3>5, AndSettles
  <2>3. CASE list \notin failing /\ summary \notin failing
    <3>1. o = Wrote(G) /\ Unfailed("policy", failing) /\ Unfailed("summary", failing)
      BY <1>3, <1>5, <2>3 DEF Unfailed
    <3>2. \A f \in DueHere : RestsOnReads(f, failing)
      BY <1>2, <1>4, <1>7, <3>1, Rests
    <3>. QED
      BY <1>2, <1>6, <3>1, <3>2, WroteSettles
  <2>. QED
    BY <2>1, <2>2, <2>3
<1>9. FoundOk(failedReads \cup failing, step + 1, found)
  BY <1>2, <1>7, FoundKept
<1>10. step > 1
  BY <1>2
<1>. QED
  BY <1>2, <1>3, <1>7, <1>8, <1>9, <1>10, HandledBy, Zenon

LEMMA InventoryHandled ==
  ASSUME TurnInv, CollectInventory
  PROVE  Handled
<1>1. At("inventory")
  BY DEF CollectInventory, OneList
<1>2. /\ step = 12 /\ Steps[step] = "inventory" /\ account \in DOMAIN estates
      /\ DueHere = {f \in Fields : f[1] = "inventory"} /\ "inventory" \in ReadsOf[step]
      /\ estate \in Estate
  <2>1. audit
    BY DEF CollectInventory
  <2>. QED
    BY <1>1, <2>1, WhereIs, StepNames, ReadNames DEF DueHere, InScope
<1>. DEFINE G == {<<"inventory", "resources_count">>}
                   \cup Over(estate.resources, InventoryFields)
<1>3. PICK failing, why, o :
        /\ failing \in SUBSET {Read("inventory", "")}
        /\ why = missOf(Read("inventory", ""), failing)
        /\ o = IF why = NoMiss THEN Wrote(G) ELSE Left(LeaveOutBlock(why, "inventory"))
        /\ Done(failing, o, found)
  BY DEF CollectInventory, OneList
<1>4. DueHere = InventoryFields
  BY <1>2, BlockSources, FieldsOfBlocks
<1>8. G \in SUBSET DueHere /\ \A f \in DueHere : f \in G <=> ~EmptyPopulation(estate, f)
  <2>1. estate.resources \in Nat
    BY <1>2, EstateFields
  <2>2. InventoryFields = {<<"inventory", "resources_count">>,
                           <<"inventory", "owner_tag_coverage_pct">>}
    BY DEF InventoryFields
  <2>. QED
    BY <1>4, <2>1, <2>2, OverIs, EmptyPopulations, NeverEmpty
<1>. HIDE DEF G
<1>5. Own(failing) /\ Settles(DueHere, failing, o)
  <2>1. /\ failing \in SUBSET {Read("inventory", "")}
        /\ why = missOf(Read("inventory", ""), failing)
        /\ o = IF why = NoMiss THEN Wrote(G) ELSE Left(LeaveOutBlock(why, "inventory"))
    BY <1>3
  <2>2. step > 1 /\ G \in SUBSET DueHere
        /\ \A f \in DueHere : f \in G <=> ~EmptyPopulation(estate, f)
    BY <1>2, <1>8
  <2>. QED
    BY <1>2, <2>1, <2>2, OneListSettles
<1>6. FoundOk(failedReads \cup failing, step + 1, found)
  BY <1>2, <1>5, FoundKept
<1>7. step > 1
  BY <1>2
<1>. QED
  BY <1>2, <1>3, <1>5, <1>6, <1>7, HandledBy, Zenon

LEMMA SkipInventoryHandled ==
  ASSUME TurnInv, SkipInventory
  PROVE  Handled
<1>1. At("inventory") /\ ~audit
  BY DEF SkipInventory
<1>2. step = 12 /\ Steps[step] = "inventory" /\ account \in DOMAIN estates
  BY <1>1, WhereIs, StepNames
<1>3. DueHere = {}
  BY <1>1, <1>2 DEF DueHere, InScope
<1>4. Own({}) /\ Settles(DueHere, {}, Nothing)
  BY <1>3 DEF Own, Settles, Nothing
<1>5. FoundOk(failedReads \cup {}, step + 1, found)
  BY <1>2, <1>4, FoundKept
<1>6. step > 1
  BY <1>2
<1>7. Done({}, Nothing, found)
  BY DEF SkipInventory
<1>. QED
  BY <1>2, <1>4, <1>5, <1>6, <1>7, HandledBy, Zenon

-----------------------------------------------------------------------------
(* The members of a list that could not be read.                           *)
LEMMA IDsOf ==
  ASSUME NEW S, NEW seq \in Seq(S), \A x \in S : x.id \in STRING
  PROVE  IDs(seq) \in Seq(STRING) /\ ToSet(IDs(seq)) = {x.id : x \in ToSet(seq)}
<1>1. /\ DOMAIN seq = 1..Len(seq) /\ Len(seq) \in Nat
      /\ \A n \in DOMAIN seq : seq[n] \in S
  OBVIOUS
<1>2. IDs(seq) = [n \in 1..Len(seq) |-> seq[n].id]
  BY <1>1 DEF IDs
<1>3. IDs(seq) \in Seq(STRING) /\ DOMAIN IDs(seq) = DOMAIN seq
  BY <1>1, <1>2
<1>. QED
  BY <1>1, <1>2, <1>3 DEF ToSet

LEMMA FirstOfIs ==
  ASSUME NEW S, NEW ids \in Seq(S), NEW some \in SUBSET ToSet(ids), some # {}
  PROVE  FirstOf(ids, some) \in some
<1>. DEFINE at == {n \in DOMAIN ids : ids[n] \in some}
<1>1. at \in SUBSET Nat
  BY ListsAreFinite
<1>2. at # {}
  BY DEF ToSet
<1>3. Min(at) \in at
  <2>. HIDE DEF at
  <2>. QED
    BY <1>1, <1>2, LeastOfNaturals
<1>. QED
  BY <1>3 DEF FirstOf

(* The reads of that name are of the members of the list.                  *)
OfMembers(failing, name, ids) ==
  \A r \in failing : r[1] = account /\ r[2] = name =>
                       \E id \in ToSet(ids) : r = Read(name, id)

NumberOf(name, reads) == Cardinality({r \in reads : r[1] = account /\ r[2] = name})

LEMMA UnreadNumber ==
  ASSUME TurnInv, NEW ids \in Seq(STRING), NEW name, name \in ReadsOf[step],
         NEW failing, NEW unread, unread = Unread(ids, name, failing),
         OfMembers(failing, name, ids)
  PROVE  Cardinality(unread) = NumberOf(name, failedReads \cup failing)
<1>. DEFINE f == [id \in unread |-> Read(name, id)]
            R == {r \in failedReads \cup failing : r[1] = account /\ r[2] = name}
<1>1. unread \in SUBSET ToSet(ids) /\ \A id \in unread : Read(name, id) \in failing
  BY DEF Unread
<1>2. IsFiniteSet(unread)
  BY <1>1, ListsAreFinite, FS_Subset
<1>3. \A r \in R : r \in failing
  BY FreshReads
<1>4. \A r \in R : \E id \in unread : r = f[id]
  BY <1>3 DEF Unread, OfMembers
<1>5. \A id \in unread : f[id] \in R /\ f[id][3] = id
  <2>. SUFFICES ASSUME NEW id \in unread PROVE f[id] \in R /\ f[id][3] = id
    OBVIOUS
  <2>. QED
    BY <1>1, ReadIs
<1>6. R = {f[id] : id \in unread}
  BY <1>4, <1>5
<1>7. Cardinality({f[id] : id \in unread}) = Cardinality(unread)
  <2>1. \A x, y \in unread : f[x] = f[y] => x = y
    BY <1>5
  <2>2. DOMAIN f = unread /\ f = [id \in unread |-> f[id]]
    OBVIOUS
  <2>. HIDE DEF f
  <2>. QED
    BY <1>2, <2>1, <2>2, AsMany
<1>. QED
  BY <1>6, <1>7 DEF NumberOf

LEMMA UnreadAre ==
  ASSUME TurnInv, NEW ids \in Seq(STRING), NEW name, name \in ReadsOf[step],
         NEW failing, NEW unread, unread = Unread(ids, name, failing),
         NEW why, why = FirstFailure(ids, name, unread),
         OfMembers(failing, name, ids)
  PROVE  /\ unread = {} => Unfailed(name, failing)
         /\ unread # {} => /\ why # NoMiss /\ why.about \in failing
                           /\ why.about[1] = account /\ why.about[2] = name
<1>1. unread \in SUBSET ToSet(ids) /\ \A id \in unread : Read(name, id) \in failing
  BY DEF Unread
<1>2. unread = {} => Unfailed(name, failing)
  <2>. SUFFICES ASSUME unread = {}, NEW r \in failing, r[1] = account, r[2] = name
       PROVE FALSE
    BY DEF Unfailed
  <2>. QED
    BY DEF Unread, OfMembers
<1>3. ASSUME unread # {}
      PROVE  /\ why # NoMiss /\ why.about \in failing
             /\ why.about[1] = account /\ why.about[2] = name
  <2>1. FirstOf(ids, unread) \in unread
    BY <1>1, <1>3, FirstOfIs
  <2>. DEFINE read == Read(name, FirstOf(ids, unread))
  <2>2. read \in failing /\ read[1] = account /\ read[2] = name
    BY <1>1, <2>1, ReadIs
  <2>3. why = failed(read)
    BY DEF FirstFailure
  <2>. HIDE DEF read
  <2>. QED
    BY <2>2, <2>3, Misses
<1>. QED
  BY <1>2, <1>3

LEMMA UnreadSettles ==
  ASSUME TurnInv, NEW ids \in Seq(STRING), NEW name, name \in ReadsOf[step],
         name \notin Settings, NEW failing, NEW unread,
         unread = Unread(ids, name, failing), unread # {},
         OfMembers(failing, name, ids),
         NEW F \in SUBSET Fields, \A f \in F : f[1] = Steps[step] /\ name \in Sources(f)
  PROVE  Settles(F, failing, LeftUnread(ids, name, unread, F))
<1>. DEFINE n == Cardinality(unread)
<1>0. PICK why : why = FirstFailure(ids, name, unread)
  OBVIOUS
<1>1. /\ why # NoMiss /\ why.about \in failing
      /\ why.about[1] = account /\ why.about[2] = name
  BY <1>0, UnreadAre
<1>2. n = NumberOf(name, failedReads \cup failing)
  BY UnreadNumber
<1>3. LeftUnread(ids, name, unread, F) = Left(partial(n, why, F))
  BY <1>0 DEF LeftUnread
<1>. HIDE DEF n
<1>4. n = Unmeasured(why.about, failedReads \cup failing)
  BY <1>1, <1>2 DEF Unmeasured, NumberOf
<1>5. Settles(F, failing, Left(partial(n, why, F)))
  BY <1>1, <1>4, LeftSettles
<1>. QED
  BY <1>3, <1>5

LEMMA ServersUnreadHandled ==
  ASSUME TurnInv, ServersUnread
  PROVE  Handled
<1>1. At("sql")
  BY DEF ServersUnread
<1>2. /\ step = 7 /\ Steps[step] = "sql" /\ account \in DOMAIN estates
      /\ DueHere = {f \in Fields : f[1] = "sql"}
      /\ ReadsOf[step] = {"sql", "databases", "tde"}
  BY <1>1, WhereIs, StepNames, ReadNames
<1>3. PICK list, why, o, fd :
        /\ list = Read("sql", "") /\ why = failed(list)
        /\ o = Left(LeaveOutBlock(why, "sql"))
        /\ fd = [found EXCEPT !.serversMiss = why]
        /\ Done({list}, o, fd)
  BY DEF ServersUnread
<1>4. /\ list[1] = account /\ list[2] = "sql"
      /\ why # NoMiss /\ why.about = list
  <2>1. list[1] = account /\ list[2] = "sql"
    BY <1>3 DEF Read
  <2>2. why # NoMiss /\ why.about = list
    BY <1>3, Misses
  <2>. QED
    BY <2>1, <2>2
<1>5. Own({list})
  BY <1>2, <1>4 DEF Own
<1>6. Settles(DueHere, {list}, o)
  <2>1. DueHere = {f \in Fields : f[1] = Steps[step]} /\ o = Left(LeaveOutBlock(why, Steps[step]))
    BY <1>2, <1>3
  <2>2. \A f \in DueHere : "sql" \in Sources(f)
    BY <1>2, SQLSources
  <2>. QED
    BY <1>4, <2>1, <2>2, StepOk, BlockSettles
<1>7. FoundOk(failedReads, 7, found)
  BY <1>2 DEF TurnInv, FoundInv
<1>8. /\ FoundShape(fd) /\ fd.serversMiss = why
      /\ fd.storageMiss = found.storageMiss /\ fd.keyVaultsMiss = found.keyVaultsMiss
      /\ fd.databasesMiss = found.databasesMiss /\ fd.machinesMiss = found.machinesMiss
      /\ fd.publicIPsMiss = found.publicIPsMiss /\ fd.storage = found.storage
      /\ fd.keyVaults = found.keyVaults
  BY <1>3, <1>7 DEF FoundOk, FoundShape
<1>9. FoundOk(failedReads \cup {list}, step + 1, fd)
  <2>1. \A n \in {"storage", "keyvault", "machines", "public_ips"} : n \notin ReadsOf[step]
    BY <1>2
  <2>2. Knows(failedReads \cup {list}, "sql", why)
    BY <1>4 DEF Knows
  <2>3. Knows(failedReads \cup {list}, "databases", found.databasesMiss)
    BY <1>4, <1>7 DEF FoundOk, ListsKnown, Knows
  <2>4. ListsKnown(failedReads \cup {list}, fd)
    BY <1>5, <1>7, <1>8, <2>1, <2>2, <2>3, KnowsKept DEF FoundOk, ListsKnown
  <2>5. ListsComplete(8, fd)
    BY <1>4, <1>7, <1>8 DEF FoundOk, ListsComplete
  <2>. QED
    BY <1>2, <1>8, <2>4, <2>5 DEF FoundOk
<1>10. step > 1
  BY <1>2
<1>. QED
  BY <1>2, <1>3, <1>5, <1>6, <1>9, <1>10, HandledBy, Zenon

LEMMA SQLHandled ==
  ASSUME TurnInv, CollectSQL
  PROVE  Handled
<1>1. At("sql")
  BY DEF CollectSQL
<1>2. /\ step = 7 /\ Steps[step] = "sql" /\ account \in DOMAIN estates
      /\ DueHere = {f \in Fields : f[1] = "sql"}
      /\ ReadsOf[step] = {"sql", "databases", "tde"}
      /\ estate \in Estate /\ IsEstate(estate)
  BY <1>1, WhereIs, StepNames, ReadNames
<1>. DEFINE G == {ServersCount} \cup Over(Len(estate.servers), {ServersPct})
            ids == IDs(estate.databases)
<1>3. PICK failing, listed, databases, unlisted, unreadTDE, why, fd :
        /\ failing \in SUBSET ({Read("databases", s) : s \in ToSet(estate.servers)}
                               \cup {Read("tde", d.id) : d \in ToSet(estate.databases)})
        /\ listed = ListedDatabases(failing)
        /\ databases = {d \in listed : ~d.master}
        /\ unlisted = Unread(estate.servers, "databases", failing)
        /\ unreadTDE = Unread(ids, "tde", failing)
        /\ why = FirstFailure(estate.servers, "databases", unlisted)
        /\ fd = [found EXCEPT !.databases = {d.id : d \in databases},
                              !.masters = {d.id : d \in listed \ databases},
                              !.databasesMiss = IF unlisted = {} THEN NoMiss ELSE why]
        /\ Done(failing, And(Wrote(G), DatabaseValues(databases, unlisted, unreadTDE)), fd)
  BY DEF CollectSQL
<1>4. /\ estate.servers \in Seq(STRING) /\ estate.databases \in Seq(Database)
      /\ ids \in Seq(STRING) /\ ToSet(ids) = {d.id : d \in ToSet(estate.databases)}
  <2>1. estate.servers \in Seq(STRING) /\ estate.databases \in Seq(Database)
    BY <1>2, EstateFields
  <2>2. \A d \in Database : d.id \in STRING
    BY DEF Database
  <2>. QED
    BY <2>1, <2>2, IDsOf
<1>5. \A r \in failing : \/ \E s \in ToSet(estate.servers) : r = Read("databases", s)
                         \/ \E id \in ToSet(ids) : r = Read("tde", id)
  BY <1>3, <1>4
<1>6. /\ Own(failing) /\ Unfailed("sql", failing)
      /\ OfMembers(failing, "databases", estate.servers)
      /\ OfMembers(failing, "tde", ids)
  <2>1. \A s : Read("databases", s)[1] = account /\ Read("databases", s)[2] = "databases"
    BY DEF Read
  <2>2. \A s : Read("tde", s)[1] = account /\ Read("tde", s)[2] = "tde"
    BY DEF Read
  <2>. QED
    BY <1>2, <1>5, <2>1, <2>2 DEF Own, Unfailed, OfMembers
<1>. HIDE DEF ids
<1>7. /\ unlisted = {} => Unfailed("databases", failing)
      /\ unlisted # {} => /\ why # NoMiss /\ why.about \in failing
                          /\ why.about[1] = account /\ why.about[2] = "databases"
  <2>1. "databases" \in ReadsOf[step]
    BY <1>2
  <2>. QED
    BY <1>3, <1>4, <1>6, <2>1, UnreadAre
<1>8. unreadTDE = {} => Unfailed("tde", failing)
  <2>1. "tde" \in ReadsOf[step]
    BY <1>2
  <2>. QED
    BY <1>3, <1>4, <1>6, <2>1, UnreadAre
<1>9. unlisted = {} => /\ listed = ToSet(estate.databases)
                       /\ databases = CountedDatabases(estate)
  BY <1>2, <1>3 DEF ListedDatabases, CountedDatabases, Unread, IsEstate
<1>10. /\ ServersCount \notin {ServersPct, DatabasesCount, TDEPct} /\ DatabasesCount # TDEPct
       /\ ServersPct \notin {DatabasesCount, TDEPct}
       /\ \A f \in {ServersCount, ServersPct} : Sources(f) = {"subscription", "sql"}
       /\ Sources(DatabasesCount) = {"subscription", "sql", "databases"}
       /\ Sources(TDEPct) = {"subscription", "sql", "databases", "tde"}
       /\ DueHere = {ServersCount, ServersPct} \cup ({DatabasesCount} \cup {TDEPct})
       /\ DueHere \in SUBSET Fields
  <2>1. /\ ServersCount \notin {ServersPct, DatabasesCount, TDEPct} /\ DatabasesCount # TDEPct
        /\ ServersPct \notin {DatabasesCount, TDEPct}
    BY DEF ServersCount, ServersPct, DatabasesCount, TDEPct
  <2>. QED
    BY <1>2, <2>1, SQLSources, FieldsOfBlocks
<1>11. Settles({ServersCount, ServersPct}, failing, Wrote(G))
  <2>1. estate.servers = <<>> <=> Len(estate.servers) = 0
    BY <1>4, ListsAreFinite
  <2>2. Len(estate.servers) \in Nat
    BY <1>4, ListsAreFinite
  <2>3. G \in SUBSET {ServersCount, ServersPct}
        /\ \A f \in {ServersCount, ServersPct} : f \in G <=> ~EmptyPopulation(estate, f)
    BY <1>10, <2>1, <2>2, OverIs, EmptyPopulations, NeverEmpty
  <2>. HIDE DEF G
  <2>4. \A f \in {ServersCount, ServersPct} : RestsOnReads(f, failing)
    BY <1>2, <1>6, <1>10, Rests
  <2>. QED
    BY <1>2, <1>10, <2>3, <2>4, WroteSettles
<1>12. Settles({DatabasesCount} \cup {TDEPct}, failing,
               DatabaseValues(databases, unlisted, unreadTDE))
  <2>. DEFINE a1 == LeftUnread(estate.servers, "databases", unlisted, {DatabasesCount})
              b1 == Left(leaveOut(why, {TDEPct}))
              a2 == Count(DatabasesCount, {Cardinality(databases)})
              b2 == LeftUnread(ids, "tde", unreadTDE, {TDEPct})
              b3 == Count(TDEPct, IF databases = {} THEN {}
                                  ELSE {Cardinality({d \in databases : d.tde})})
  <2>0. {DatabasesCount} \in SUBSET Fields /\ {TDEPct} \in SUBSET Fields
        /\ {DatabasesCount} \cap {TDEPct} = {}
        /\ DatabasesCount[1] = Steps[step] /\ TDEPct[1] = Steps[step]
    BY <1>2, <1>10
  <2>1. CASE unlisted # {}
    <3>1. DatabaseValues(databases, unlisted, unreadTDE) = And(a1, b1)
      BY <1>3, <2>1 DEF DatabaseValues
    <3>2. Settles({DatabasesCount}, failing, a1)
      <4>1. "databases" \in ReadsOf[step] /\ "databases" \notin Settings
        BY <1>2 DEF Settings
      <4>2. \A f \in {DatabasesCount} : f[1] = Steps[step] /\ "databases" \in Sources(f)
        BY <1>10, <2>0
      <4>. QED
        BY <1>3, <1>4, <1>6, <2>0, <2>1, <4>1, <4>2, UnreadSettles
    <3>3. Settles({TDEPct}, failing, b1)
      BY <1>7, <1>10, <2>0, <2>1, LeaveOutSettles
    <3>. HIDE DEF a1, b1
    <3>9. Settles({DatabasesCount} \cup {TDEPct}, failing, And(a1, b1))
      BY <2>0, <3>2, <3>3, AndSettles
    <3>. QED
      BY <3>1, <3>9, Zenon
  <2>2. ASSUME unlisted = {} PROVE Settles({DatabasesCount}, failing, a2)
    <3>1. RestsOnReads(DatabasesCount, failing)
      BY <1>2, <1>6, <1>7, <1>10, <2>2, Rests
    <3>2. Cardinality(databases) = Truth(estate, DatabasesCount)
      BY <1>9, <2>2, Truths
    <3>. QED
      BY <1>10, <2>0, <3>1, <3>2, NeverEmpty, CountSettles
  <2>3. CASE unlisted = {} /\ unreadTDE # {}
    <3>1. DatabaseValues(databases, unlisted, unreadTDE) = And(a2, b2)
      BY <2>3 DEF DatabaseValues, ids
    <3>2. Settles({TDEPct}, failing, b2)
      <4>1. "tde" \in ReadsOf[step] /\ "tde" \notin Settings
        BY <1>2 DEF Settings
      <4>2. \A f \in {TDEPct} : f[1] = Steps[step] /\ "tde" \in Sources(f)
        BY <1>10, <2>0
      <4>. QED
        BY <1>3, <1>4, <1>6, <2>0, <2>3, <4>1, <4>2, UnreadSettles
    <3>. HIDE DEF a2, b2
    <3>9. Settles({DatabasesCount} \cup {TDEPct}, failing, And(a2, b2))
      BY <2>0, <2>2, <2>3, <3>2, AndSettles
    <3>. QED
      BY <3>1, <3>9, Zenon
  <2>4. CASE unlisted = {} /\ unreadTDE = {}
    <3>1. DatabaseValues(databases, unlisted, unreadTDE) = And(a2, b3)
      BY <2>4 DEF DatabaseValues
    <3>2. RestsOnReads(TDEPct, failing)
      BY <1>2, <1>6, <1>7, <1>8, <1>10, <2>4, Rests
    <3>3. databases = {} <=> EmptyPopulation(estate, TDEPct)
      BY <1>9, <2>4, EmptyPopulations
    <3>4. Cardinality({d \in databases : d.tde}) = Truth(estate, TDEPct)
      BY <1>9, <2>4, Truths
    <3>. DEFINE ns == IF databases = {} THEN {} ELSE {Cardinality({d \in databases : d.tde})}
    <3>5. (ns = {} <=> databases = {}) /\ \A n \in ns : n = Truth(estate, TDEPct)
      BY <3>4
    <3>. HIDE DEF ns
    <3>6. Settles({TDEPct}, failing, Count(TDEPct, ns))
      BY <2>0, <3>2, <3>3, <3>5, CountSettles
    <3>7. b3 = Count(TDEPct, ns)
      BY DEF ns
    <3>. HIDE DEF a2, b3
    <3>9. Settles({DatabasesCount} \cup {TDEPct}, failing, And(a2, b3))
      BY <2>0, <2>2, <2>4, <3>6, <3>7, AndSettles
    <3>. QED
      BY <3>1, <3>9, Zenon
  <2>. QED
    BY <2>1, <2>3, <2>4
<1>13. Settles(DueHere, failing, And(Wrote(G), DatabaseValues(databases, unlisted, unreadTDE)))
  <2>. DEFINE a == Wrote(G)
              b == DatabaseValues(databases, unlisted, unreadTDE)
  <2>1. {ServersCount, ServersPct} \cap ({DatabasesCount} \cup {TDEPct}) = {}
    BY <1>10
  <2>. HIDE DEF a, b
  <2>2. Settles(DueHere, failing, And(a, b))
    BY <1>10, <1>11, <1>12, <2>1, AndSettles DEF a, b
  <2>. QED
    BY <2>2 DEF a, b
<1>14. FoundOk(failedReads, 7, found)
  BY <1>2 DEF TurnInv, FoundInv
<1>15. /\ FoundShape(fd) /\ fd.databases = {d.id : d \in databases}
       /\ fd.masters = {d.id : d \in listed \ databases}
       /\ fd.databasesMiss = IF unlisted = {} THEN NoMiss ELSE why
       /\ fd.storageMiss = found.storageMiss /\ fd.keyVaultsMiss = found.keyVaultsMiss
       /\ fd.serversMiss = found.serversMiss /\ fd.machinesMiss = found.machinesMiss
       /\ fd.publicIPsMiss = found.publicIPsMiss /\ fd.storage = found.storage
       /\ fd.keyVaults = found.keyVaults
  BY <1>3, <1>14 DEF FoundOk, FoundShape
<1>16. FoundOk(failedReads \cup failing, step + 1, fd)
  <2>1. \A n \in {"storage", "keyvault", "machines", "public_ips"} : n \notin ReadsOf[step]
    BY <1>2
  <2>2. Knows(failedReads \cup failing, "sql", found.serversMiss)
    BY <1>6, <1>14 DEF FoundOk, ListsKnown, Knows, Unfailed
  <2>3. Knows(failedReads \cup failing, "databases", fd.databasesMiss)
    <3>1. "databases" \in ReadsOf[step]
      BY <1>2
    <3>2. Unfailed("databases", failedReads)
      BY <3>1, FreshReads DEF Unfailed
    <3>. QED
      BY <1>7, <1>15, <3>2 DEF Knows, Unfailed
  <2>4. ListsKnown(failedReads \cup failing, fd)
    BY <1>6, <1>14, <1>15, <2>1, <2>2, <2>3, KnowsKept DEF FoundOk, ListsKnown
  <2>5. fd.databasesMiss = NoMiss => unlisted = {}
    BY <1>7, <1>15
  <2>6. ListsComplete(8, fd)
    BY <1>9, <1>14, <1>15, <2>5 DEF FoundOk, ListsComplete
  <2>. QED
    BY <1>2, <1>15, <2>4, <2>6 DEF FoundOk
<1>17. step > 1
  BY <1>2
<1>. HIDE DEF G
<1>. QED
  BY <1>2, <1>3, <1>6, <1>13, <1>16, <1>17, HandledBy, Zenon

LEMMA ComputeHandled ==
  ASSUME TurnInv, CollectCompute
  PROVE  Handled
<1>1. At("compute")
  BY DEF CollectCompute
<1>2. /\ step = 8 /\ Steps[step] = "compute" /\ account \in DOMAIN estates
      /\ DueHere = {f \in Fields : f[1] = "compute"}
      /\ ReadsOf[step] = {"machines", "public_ips"} /\ estate \in Estate
  BY <1>1, WhereIs, StepNames, ReadNames
<1>3. PICK list, ips, failing, why, ipsMiss, o, fd :
        /\ list = Read("machines", "") /\ ips = Read("public_ips", "")
        /\ failing \in SUBSET {list, ips}
        /\ why = missOf(list, failing) /\ ipsMiss = missOf(ips, failing)
        /\ o = IF why = NoMiss THEN machineValues(ipsMiss)
               ELSE Left(LeaveOutBlock(why, "compute"))
        /\ fd = [found EXCEPT
                   !.machines = IF why = NoMiss THEN ToSet(estate.machines) ELSE {},
                   !.machinesMiss = why,
                   !.publicIPs = IF ipsMiss = NoMiss THEN estate.publicIPs ELSE 0,
                   !.publicIPsMiss = ipsMiss]
        /\ Done(failing, o, fd)
  BY DEF CollectCompute
<1>4. /\ list[1] = account /\ list[2] = "machines"
      /\ ips[1] = account /\ ips[2] = "public_ips"
  <2>1. list[1] = account /\ list[2] = "machines"
    BY <1>3 DEF Read
  <2>2. ips[1] = account /\ ips[2] = "public_ips"
    BY <1>3 DEF Read
  <2>. QED
    BY <2>1, <2>2
<1>5. /\ why # NoMiss => why.about = list /\ list \in failing
      /\ why = NoMiss => list \notin failing
      /\ ipsMiss # NoMiss => ipsMiss.about = ips /\ ips \in failing
      /\ ipsMiss = NoMiss => ips \notin failing
  BY <1>3, Misses
<1>6. \A r \in failing : r = list \/ r = ips
  BY <1>3
<1>7. /\ Own(failing)
      /\ why = NoMiss => Unfailed("machines", failing)
      /\ ipsMiss = NoMiss => Unfailed("public_ips", failing)
  BY <1>2, <1>4, <1>5, <1>6 DEF Own, Unfailed
<1>8. /\ MachinesCount # DiskPct /\ PublicIPPct \notin {MachinesCount, DiskPct}
      /\ \A f \in {MachinesCount, DiskPct} : Sources(f) = {"subscription", "machines"}
      /\ Sources(PublicIPPct) = {"subscription", "machines", "public_ips"}
      /\ DueHere = {MachinesCount, DiskPct} \cup {PublicIPPct}
      /\ DueHere \in SUBSET Fields
  <2>1. MachinesCount # DiskPct /\ PublicIPPct \notin {MachinesCount, DiskPct}
    BY DEF MachinesCount, DiskPct, PublicIPPct
  <2>. QED
    BY <1>2, <2>1, ComputeSources, FieldsOfBlocks
<1>9. /\ EmptyPopulation(estate, DiskPct) <=> estate.machines = <<>>
      /\ EmptyPopulation(estate, PublicIPPct) <=> estate.machines = <<>>
  BY EmptyPopulations
<1>10. Len(estate.machines) \in Nat /\ (Len(estate.machines) = 0 <=> estate.machines = <<>>)
  BY <1>2, EstateFields, EmptyLists
<1>11. Settles(DueHere, failing, o)
  <2>1. CASE why # NoMiss
    <3>1. DueHere = {f \in Fields : f[1] = Steps[step]}
          /\ o = Left(LeaveOutBlock(why, Steps[step]))
      BY <1>2, <1>3, <2>1
    <3>. QED
      BY <1>4, <1>5, <1>8, <2>1, <3>1, StepOk, BlockSettles
  <2>2. CASE why = NoMiss /\ ipsMiss = NoMiss
    <3>. DEFINE G == {MachinesCount} \cup Over(Len(estate.machines), {DiskPct, PublicIPPct})
    <3>1. G \in SUBSET DueHere /\ \A f \in DueHere : f \in G <=> ~EmptyPopulation(estate, f)
      BY <1>8, <1>9, <1>10, OverIs, NeverEmpty
    <3>2. o = And(Wrote(G), Left({}))
      <4>1. {DiskPct} \cup {PublicIPPct} = {DiskPct, PublicIPPct}
        OBVIOUS
      <4>2. leaveOut(NoMiss, {PublicIPPct}) = {}
        BY DEF leaveOut, partial
      <4>. QED
        BY <1>3, <2>2, <4>1, <4>2 DEF machineValues
    <3>3. \A f \in DueHere : RestsOnReads(f, failing)
      BY <1>2, <1>7, <1>8, <2>2, Rests
    <3>. HIDE DEF G
    <3>4. Settles(DueHere, failing, Wrote(G))
      BY <1>2, <1>8, <3>1, <3>3, WroteSettles
    <3>5. Settles({}, failing, Left({}))
      BY DEF Settles, Left, Nothing
    <3>6. Settles(DueHere \cup {}, failing, And(Wrote(G), Left({})))
      BY <1>8, <3>4, <3>5, AndSettles
    <3>. QED
      BY <3>2, <3>6
  <2>3. CASE why = NoMiss /\ ipsMiss # NoMiss
    <3>. DEFINE G == {MachinesCount} \cup Over(Len(estate.machines), {DiskPct})
    <3>1. G \in SUBSET {MachinesCount, DiskPct}
          /\ \A f \in {MachinesCount, DiskPct} : f \in G <=> ~EmptyPopulation(estate, f)
      BY <1>8, <1>9, <1>10, OverIs, NeverEmpty
    <3>2. o = And(Wrote(G), Left(leaveOut(ipsMiss, {PublicIPPct})))
      <4>1. {DiskPct} \cup {} = {DiskPct}
        OBVIOUS
      <4>. QED
        BY <1>3, <2>3, <4>1 DEF machineValues
    <3>3. \A f \in {MachinesCount, DiskPct} : RestsOnReads(f, failing)
      BY <1>2, <1>7, <1>8, <2>3, Rests
    <3>. HIDE DEF G
    <3>4. Settles({MachinesCount, DiskPct}, failing, Wrote(G))
      BY <1>2, <1>8, <3>1, <3>3, WroteSettles
    <3>5. Settles({PublicIPPct}, failing, Left(leaveOut(ipsMiss, {PublicIPPct})))
      BY <1>2, <1>4, <1>5, <1>8, <2>3, LeaveOutSettles
    <3>6. Settles({MachinesCount, DiskPct} \cup {PublicIPPct}, failing,
                  And(Wrote(G), Left(leaveOut(ipsMiss, {PublicIPPct}))))
      BY <1>8, <3>4, <3>5, AndSettles
    <3>. QED
      BY <1>8, <3>2, <3>6
  <2>. QED
    BY <2>1, <2>2, <2>3
<1>12. FoundOk(failedReads, 8, found)
  BY <1>2 DEF TurnInv, FoundInv
<1>13. /\ FoundShape(fd) /\ fd.machinesMiss = why /\ fd.publicIPsMiss = ipsMiss
       /\ fd.machines = IF why = NoMiss THEN ToSet(estate.machines) ELSE {}
       /\ fd.storageMiss = found.storageMiss /\ fd.keyVaultsMiss = found.keyVaultsMiss
       /\ fd.serversMiss = found.serversMiss /\ fd.databasesMiss = found.databasesMiss
       /\ fd.storage = found.storage /\ fd.keyVaults = found.keyVaults
       /\ fd.databases = found.databases /\ fd.masters = found.masters
  BY <1>3, <1>12 DEF FoundOk, FoundShape
<1>14. FoundOk(failedReads \cup failing, step + 1, fd)
  <2>1. \A n \in {"storage", "keyvault", "sql", "databases"} : n \notin ReadsOf[step]
    BY <1>2
  <2>2. \A r \in failedReads : r[1] = account => r[2] \notin {"machines", "public_ips"}
    BY <1>2, FreshReads
  <2>3. Knows(failedReads \cup failing, "machines", why)
    BY <1>4, <1>5, <1>6, <2>2 DEF Knows
  <2>4. Knows(failedReads \cup failing, "public_ips", ipsMiss)
    BY <1>4, <1>5, <1>6, <2>2 DEF Knows
  <2>5. ListsKnown(failedReads \cup failing, fd)
    BY <1>7, <1>12, <1>13, <2>1, <2>3, <2>4, KnowsKept DEF FoundOk, ListsKnown
  <2>6. ListsComplete(9, fd)
    BY <1>12, <1>13 DEF FoundOk, ListsComplete
  <2>. QED
    BY <1>2, <1>13, <2>5, <2>6 DEF FoundOk
<1>15. step > 1
  BY <1>2
<1>. QED
  BY <1>2, <1>3, <1>7, <1>11, <1>14, <1>15, HandledBy, Zenon

LEMMA NetworkHandled ==
  ASSUME TurnInv, CollectNetwork
  PROVE  Handled
<1>. DEFINE F == {GroupsCount} \cup OpenPcts
            G == {GroupsCount} \cup Over(estate.groups, OpenPcts)
            ips == IF found.publicIPsMiss = NoMiss THEN Wrote({PublicIPCount})
                   ELSE Left(leaveOut(found.publicIPsMiss, {PublicIPCount}))
            groups(list, failing) ==
              IF list \in failing THEN Left(leaveOut(failed(list), F)) ELSE Wrote(G)
<1>1. At("network")
  BY DEF CollectNetwork
<1>2. /\ step = 10 /\ Steps[step] = "network" /\ account \in DOMAIN estates
      /\ DueHere = {f \in Fields : f[1] = "network"}
      /\ ReadsOf[step] = {"security_groups"} /\ estate \in Estate
  BY <1>1, WhereIs, StepNames, ReadNames
<1>3. PICK list, failing :
        /\ list = Read("security_groups", "") /\ failing \in SUBSET {list}
        /\ Done(failing, And(ips, groups(list, failing)), found)
  BY DEF CollectNetwork
<1>4. /\ list[1] = account /\ list[2] = "security_groups"
      /\ \A r \in failing : r = list
      /\ failed(list) # NoMiss /\ failed(list).about = list
  <2>1. list[1] = account /\ list[2] = "security_groups"
    BY <1>3 DEF Read
  <2>2. failed(list) # NoMiss /\ failed(list).about = list
    BY Misses
  <2>. QED
    BY <1>3, <2>1, <2>2
<1>5. Own(failing) /\ (list \notin failing => Unfailed("security_groups", failing))
  BY <1>2, <1>4 DEF Own, Unfailed
<1>6. /\ DueHere = {PublicIPCount} \cup F /\ DueHere \in SUBSET Fields
      /\ PublicIPCount \notin F /\ GroupsCount \notin OpenPcts
      /\ Sources(PublicIPCount) = {"subscription", "public_ips"}
      /\ \A f \in F : Sources(f) = {"subscription", "security_groups"}
  <2>1. PublicIPCount \notin F /\ GroupsCount \notin OpenPcts
    BY DEF PublicIPCount, GroupsCount, OpenPcts
  <2>2. Sources(PublicIPCount) = {"subscription", "public_ips"}
    BY <2>1, NetworkSources, FieldsOfBlocks
  <2>3. \A f \in F : Sources(f) = {"subscription", "security_groups"}
    BY <2>1, NetworkSources, FieldsOfBlocks
  <2>. QED
    BY <1>2, <2>1, <2>2, <2>3, NetworkSources, FieldsOfBlocks
<1>7. Knows(failedReads, "public_ips", found.publicIPsMiss)
  BY DEF TurnInv, FoundInv, FoundOk, ListsKnown
<1>8. Settles({PublicIPCount}, failing, ips)
  <2>1. CASE found.publicIPsMiss = NoMiss
    <3>1. Unfailed("public_ips", failedReads) /\ "public_ips" \notin ReadsOf[step]
      BY <1>2, <1>7, <2>1 DEF Knows, Unfailed
    <3>2. RestsOnReads(PublicIPCount, failing)
      BY <1>2, <1>5, <1>6, <3>1, Rests
    <3>3. Settles({PublicIPCount}, failing, Wrote({PublicIPCount}))
      BY <1>2, <1>6, <3>2, NeverEmpty, WroteSettles
    <3>. QED
      BY <2>1, <3>3
  <2>2. CASE found.publicIPsMiss # NoMiss
    <3>1. Settles({PublicIPCount}, failing, Left(leaveOut(found.publicIPsMiss, {PublicIPCount})))
      BY <1>2, <1>6, <1>7, <2>2, LeaveOutSettles DEF Knows
    <3>. QED
      BY <2>2, <3>1
  <2>. QED
    BY <2>1, <2>2
<1>9. Settles(F, failing, groups(list, failing))
  <2>1. \A f \in F : f \in Fields /\ f[1] = Steps[step]
    BY <1>2, <1>6
  <2>2. CASE list \in failing
    <3>1. Settles(F, failing, Left(leaveOut(failed(list), F)))
      <4>. HIDE DEF F
      <4>. QED
        BY <1>4, <1>6, <2>1, <2>2, LeaveOutSettles
    <3>. QED
      BY <2>2, <3>1
  <2>3. CASE list \notin failing
    <3>1. estate.groups \in Nat
      BY <1>2, EstateFields
    <3>2. G \in SUBSET F /\ \A f \in F : f \in G <=> ~EmptyPopulation(estate, f)
      BY <1>6, <3>1, OverIs, EmptyPopulations, NeverEmpty
    <3>. HIDE DEF F, G
    <3>3. \A f \in F : RestsOnReads(f, failing)
      BY <1>2, <1>5, <1>6, <2>3, Rests
    <3>4. Settles(F, failing, Wrote(G))
      BY <2>1, <3>2, <3>3, WroteSettles
    <3>. QED
      BY <2>3, <3>4
  <2>. QED
    BY <2>2, <2>3
<1>. HIDE DEF F, G, ips, groups
<1>10. Settles({PublicIPCount} \cup F, failing, And(ips, groups(list, failing)))
  BY <1>6, <1>8, <1>9, AndSettles
<1>11. FoundOk(failedReads \cup failing, step + 1, found)
  BY <1>2, <1>5, FoundKept
<1>12. step > 1 /\ DueHere = {PublicIPCount} \cup F
  BY <1>2, <1>6
<1>. QED
  BY <1>2, <1>3, <1>5, <1>10, <1>11, <1>12, HandledBy, Zenon

(* What the backup is measured over, as the handlers before it found it.   *)
LEMMA BackupMissIs ==
  ASSUME TurnInv, step = 9, account \in DOMAIN estates
  PROVE  /\ backupMiss # NoMiss =>
              /\ backupMiss.about \in failedReads /\ backupMiss.about[1] = account
              /\ backupMiss.about[2] \in {"machines", "sql", "databases"}
         /\ backupMiss = NoMiss =>
              /\ \A n \in {"machines", "sql", "databases"} : Unfailed(n, failedReads)
              /\ backupPopulation = BackedUp(estate)
<1>1. FoundOk(failedReads, 9, found)
  BY DEF TurnInv, FoundInv
<1>2. /\ Knows(failedReads, "sql", found.serversMiss)
      /\ Knows(failedReads, "databases", found.databasesMiss)
      /\ Knows(failedReads, "machines", found.machinesMiss)
  BY <1>1 DEF FoundOk, ListsKnown
<1>3. /\ found.serversMiss = NoMiss /\ found.databasesMiss = NoMiss =>
           found.databases = {d.id : d \in CountedDatabases(estate)}
      /\ found.machinesMiss = NoMiss => found.machines = ToSet(estate.machines)
  BY <1>1 DEF FoundOk, ListsComplete
<1>4. \/ backupMiss = found.machinesMiss /\ backupMiss # NoMiss
      \/ found.machinesMiss = NoMiss /\ backupMiss = found.serversMiss /\ backupMiss # NoMiss
      \/ /\ found.machinesMiss = NoMiss /\ found.serversMiss = NoMiss
         /\ backupMiss = found.databasesMiss
  BY DEF backupMiss, firstMissing
<1>. QED
  BY <1>2, <1>3, <1>4 DEF Knows, Unfailed, backupPopulation, BackedUp

LEMMA BackupFields ==
  /\ {f \in Fields : f[1] = "backup"} =
       ({VaultPct} \cup {ProtectedPct}) \cup ({RetentionMin} \cup ({BackupAge} \cup {FailedJobs}))
  /\ VaultPct \notin {ProtectedPct, RetentionMin, BackupAge, FailedJobs}
  /\ ProtectedPct \notin {RetentionMin, BackupAge, FailedJobs}
  /\ RetentionMin \notin {BackupAge, FailedJobs} /\ BackupAge # FailedJobs
  /\ Sources(VaultPct) = {"subscription", "backup"}
  /\ Sources(ProtectedPct) =
       {"subscription", "machines", "sql", "databases", "backup", "items"}
  /\ Sources(RetentionMin) = {"subscription", "backup", "policies", "items"}
  /\ \A f \in {BackupAge, FailedJobs} : Sources(f) = {"subscription", "backup", "jobs"}
<1>1. /\ VaultPct \notin {ProtectedPct, RetentionMin, BackupAge, FailedJobs}
      /\ ProtectedPct \notin {RetentionMin, BackupAge, FailedJobs}
      /\ RetentionMin \notin {BackupAge, FailedJobs} /\ BackupAge # FailedJobs
  BY DEF VaultPct, ProtectedPct, RetentionMin, BackupAge, FailedJobs
<1>2. {f \in Fields : f[1] = "backup"} =
        ({VaultPct} \cup {ProtectedPct}) \cup ({RetentionMin} \cup ({BackupAge} \cup {FailedJobs}))
  BY FieldsOfBlocks, BackupSources
<1>3. \A f \in {VaultPct, ProtectedPct, RetentionMin, BackupAge, FailedJobs} :
        f \in Fields /\ f[1] = "backup"
  BY FieldsOfBlocks
<1>. QED
  BY <1>1, <1>2, <1>3, BackupSources

LEMMA ProtectedSettles ==
  ASSUME TurnInv, step = 9, account \in DOMAIN estates, NEW failing, Own(failing),
         Unfailed("backup", failing)
  PROVE  /\ backupMiss # NoMiss =>
              Settles({ProtectedPct}, failing, Left(leaveOut(backupMiss, {ProtectedPct})))
         /\ backupMiss = NoMiss /\ Unfailed("items", failing) =>
              Settles({ProtectedPct}, failing,
                      Count(ProtectedPct, protectedResourcePct(ItemsOf(estate))))
<1>1. /\ ProtectedPct \in Fields /\ ProtectedPct[1] = Steps[step]
      /\ ReadsOf[step] = {"backup", "items", "policies", "jobs"}
  BY FieldsOfBlocks, StepNames, ReadNames
<1>2. CASE backupMiss # NoMiss
  <2>1. backupMiss.about \in failedReads /\ backupMiss.about[1] = account
        /\ backupMiss.about[2] \in Sources(ProtectedPct)
    BY <1>2, BackupMissIs, BackupFields
  <2>. QED
    BY <1>1, <1>2, <2>1, LeaveOutSettles
<1>3. ASSUME backupMiss = NoMiss, Unfailed("items", failing)
      PROVE  Settles({ProtectedPct}, failing,
                     Count(ProtectedPct, protectedResourcePct(ItemsOf(estate))))
  <2>1. /\ \A n \in {"machines", "sql", "databases"} : Unfailed(n, failedReads)
        /\ backupPopulation = BackedUp(estate)
    BY <1>3, BackupMissIs
  <2>2. RestsOnReads(ProtectedPct, failing)
    BY <1>1, <1>3, <2>1, BackupFields, Rests
  <2>. DEFINE ns == protectedResourcePct(ItemsOf(estate))
              protected == {r \in BackedUp(estate) :
                              \E i \in ItemsOf(estate) : i.active /\ i.source = r}
  <2>3. {i.source : i \in {j \in ItemsOf(estate) : j.active}} \cap backupPopulation = protected
    BY <2>1
  <2>4. /\ ns = {} <=> BackedUp(estate) = {}
        /\ \A n \in ns : n = Cardinality(protected)
    BY <2>1, <2>3 DEF protectedResourcePct
  <2>5. ns = {} <=> EmptyPopulation(estate, ProtectedPct)
    BY <2>4, EmptyPopulations
  <2>6. \A n \in ns : n = Truth(estate, ProtectedPct)
    BY <2>4, Truths
  <2>. HIDE DEF ns
  <2>7. Settles({ProtectedPct}, failing, Count(ProtectedPct, ns))
    BY <1>1, <2>2, <2>5, <2>6, CountSettles
  <2>. QED
    BY <2>7 DEF ns
<1>. QED
  BY <1>2, <1>3

LEMMA VaultsUnreadHandled ==
  ASSUME TurnInv, VaultsUnread
  PROVE  Handled
<1>1. At("backup")
  BY DEF VaultsUnread
<1>2. /\ step = 9 /\ Steps[step] = "backup" /\ account \in DOMAIN estates
      /\ DueHere = {f \in Fields : f[1] = "backup"} /\ "backup" \in ReadsOf[step]
  BY <1>1, WhereIs, StepNames, ReadNames
<1>3. PICK list, o :
        /\ list = Read("backup", "") /\ o = Left(LeaveOutBlock(failed(list), "backup"))
        /\ Done({list}, o, found)
  BY DEF VaultsUnread
<1>4. list[1] = account /\ list[2] = "backup"
  BY <1>3 DEF Read
<1>5. failed(list) # NoMiss /\ failed(list).about = list
  BY Misses
<1>6. Own({list})
  BY <1>2, <1>4 DEF Own
<1>7. Settles(DueHere, {list}, o)
  <2>1. DueHere = {f \in Fields : f[1] = Steps[step]}
        /\ o = Left(LeaveOutBlock(failed(list), Steps[step]))
    BY <1>2, <1>3
  <2>2. \A f \in DueHere : "backup" \in Sources(f)
    BY <1>2, BackupSources
  <2>. QED
    BY <1>4, <1>5, <2>1, <2>2, StepOk, BlockSettles
<1>8. FoundOk(failedReads \cup {list}, step + 1, found)
  BY <1>2, <1>6, FoundKept
<1>9. step > 1
  BY <1>2
<1>. QED
  BY <1>2, <1>3, <1>6, <1>7, <1>8, <1>9, HandledBy, Zenon

LEMMA NoVaultsHandled ==
  ASSUME TurnInv, NoVaults
  PROVE  Handled
<1>. DEFINE F == {VaultPct} \cup ({RetentionMin} \cup ({BackupAge} \cup {FailedJobs}))
<1>1. At("backup") /\ estate.vaults = <<>>
  BY DEF NoVaults
<1>2. /\ step = 9 /\ Steps[step] = "backup" /\ account \in DOMAIN estates
      /\ DueHere = {f \in Fields : f[1] = "backup"}
  BY <1>1, WhereIs, StepNames
<1>3. PICK a, b :
        /\ a = Wrote({RetentionRead})
        /\ b = IF backupMiss = NoMiss THEN Count(ProtectedPct, protectedResourcePct({}))
               ELSE Left(leaveOut(backupMiss, {ProtectedPct}))
        /\ Done({}, And(a, b), found)
  BY DEF NoVaults
<1>4. Own({}) /\ Unfailed("backup", {}) /\ Unfailed("items", {})
  BY DEF Own, Unfailed
<1>5. ToSet(estate.vaults) = {}
  BY <1>1 DEF ToSet
<1>6. F \in SUBSET Fields /\ {ProtectedPct} \in SUBSET Fields
      /\ F \cap {ProtectedPct} = {} /\ DueHere = F \cup {ProtectedPct}
  BY <1>2, BackupFields, FieldsOfBlocks
<1>7. \A f \in F : EmptyPopulation(estate, f)
  <2>1. RetentionsInUse(estate) = {} /\ AgesOfSuccesses(estate) = {}
    BY <1>5 DEF RetentionsInUse, AgesOfSuccesses, JobsOf
  <2>. QED
    BY <1>1, <2>1, EmptyPopulations
<1>8. Settles(F, {}, a)
  <2>1. \A f \in F : RestsOnReads(f, {})
    <3>1. \A n \in ReadsOf[step] : Unfailed(n, {})
      BY DEF Unfailed
    <3>2. \A f \in F : \A n \in Sources(f) \ Settings : n = "subscription" \/ n \in ReadsOf[step]
      BY <1>2, BackupFields, ReadNames
    <3>. QED
      BY <1>2, <1>4, <3>1, <3>2, Rests
  <2>. QED
    BY <1>2, <1>3, <1>6, <1>7, <2>1, RetentionReadSettles
<1>. HIDE DEF F
<1>9. Settles({ProtectedPct}, {}, b)
  <2>1. ItemsOf(estate) = {}
    BY <1>5 DEF ItemsOf
  <2>. QED
    BY <1>2, <1>3, <1>4, <2>1, ProtectedSettles
<1>10. Settles(DueHere, {}, And(a, b))
  BY <1>6, <1>8, <1>9, AndSettles
<1>11. FoundOk(failedReads \cup {}, step + 1, found)
  BY <1>2, <1>4, FoundKept
<1>12. step > 1
  BY <1>2
<1>. QED
  BY <1>2, <1>3, <1>4, <1>10, <1>11, <1>12, HandledBy, Zenon

LEMMA RetentionsAre ==
  ASSUME TurnInv, account \in DOMAIN estates, NEW policies,
         policies = UNION {v.policies : v \in ToSet(estate.vaults)}, NEW ns,
         ns = retentionDaysMin(policies, ItemsOf(estate))
  PROVE  /\ ns = {} <=> RetentionsInUse(estate) = {}
         /\ \A n \in ns : n = Min(RetentionsInUse(estate))
<1>1. estate.vaults \in Seq(Vault)
  BY HereOk, EstateFields DEF TurnInv
<1>2. ToSet(estate.vaults) \in SUBSET Vault
  BY <1>1, ListsAreFinite
<1>3. \A p \in policies : p.days \in Nat
  BY <1>2 DEF Vault, BackupPolicy
<1>. DEFINE inUse == {i.policy : i \in ItemsOf(estate)}
            days == {p.days : p \in {q \in policies : q.id \in inUse}} \ {0}
<1>4. days = RetentionsInUse(estate)
  BY <1>3 DEF RetentionsInUse
<1>5. ns = IF days = {} THEN {} ELSE {Min(days)}
  BY DEF retentionDaysMin
<1>. HIDE DEF days
<1>. QED
  BY <1>4, <1>5

LEMMA BackupHandled ==
  ASSUME TurnInv, CollectBackup
  PROVE  Handled
<1>. DEFINE ids == IDs(estate.vaults)
            kinds == {"items", "policies", "jobs"}
<1>1. At("backup") /\ estate.vaults # <<>>
  BY DEF CollectBackup
<1>2. /\ step = 9 /\ Steps[step] = "backup" /\ account \in DOMAIN estates
      /\ DueHere = {f \in Fields : f[1] = "backup"}
      /\ ReadsOf[step] = {"backup", "items", "policies", "jobs"} /\ estate \in Estate
  BY <1>1, WhereIs, StepNames, ReadNames
<1>3. PICK failing, items, policies, jobs, noItems, noPolicies, noJobs, a, b, c, d :
        /\ failing \in SUBSET UNION {{Read(name, v.id) : v \in ToSet(estate.vaults)} :
                                      name \in kinds}
        /\ noItems = Unread(ids, "items", failing)
        /\ noPolicies = Unread(ids, "policies", failing)
        /\ noJobs = Unread(ids, "jobs", failing)
        /\ items = UNION {v.items : v \in
             {v \in ToSet(estate.vaults) : Read("items", v.id) \notin failing}}
        /\ policies = UNION {v.policies : v \in
             {v \in ToSet(estate.vaults) : Read("policies", v.id) \notin failing}}
        /\ jobs = UNION {v.jobs : v \in
             {v \in ToSet(estate.vaults) : Read("jobs", v.id) \notin failing}}
        /\ a = Wrote({VaultPct}) /\ b = Protected(items, noItems)
        /\ c = Retention(policies, items, noPolicies, noItems) /\ d = Jobs(jobs, noJobs)
        /\ Done(failing, And(And(a, b), And(c, d)), found)
  BY DEF CollectBackup
<1>4. /\ ids \in Seq(STRING) /\ ToSet(ids) = {v.id : v \in ToSet(estate.vaults)}
      /\ estate.vaults \in Seq(Vault)
  <2>1. estate.vaults \in Seq(Vault)
    BY <1>2, EstateFields
  <2>2. \A v \in Vault : v.id \in STRING
    BY DEF Vault
  <2>. QED
    BY <2>1, <2>2, IDsOf
<1>5. \A r \in failing : \E name \in kinds : \E v \in ToSet(estate.vaults) : r = Read(name, v.id)
  BY <1>3
<1>6. \A r \in failing : \E name \in kinds : \E id \in ToSet(ids) : r = Read(name, id)
  BY <1>4, <1>5
<1>. HIDE DEF ids
<1>7. /\ Own(failing) /\ Unfailed("backup", failing)
      /\ \A name \in kinds : OfMembers(failing, name, ids)
  <2>1. \A r \in failing : \E name \in kinds : \E id \in ToSet(ids) :
          r = Read(name, id) /\ r[1] = account /\ r[2] = name
    BY <1>6 DEF Read
  <2>. QED
    BY <1>2, <2>1 DEF Own, Unfailed, OfMembers
<1>8. /\ noItems = {} => items = ItemsOf(estate)
      /\ noPolicies = {} => policies = UNION {v.policies : v \in ToSet(estate.vaults)}
      /\ noJobs = {} => jobs = JobsOf(estate)
  BY <1>3, <1>4 DEF Unread, ItemsOf, JobsOf
<1>9. \A name \in kinds : Unread(ids, name, failing) = {} => Unfailed(name, failing)
  <2>. SUFFICES ASSUME NEW name \in kinds, Unread(ids, name, failing) = {},
                       NEW r \in failing, r[1] = account, r[2] = name
       PROVE FALSE
    BY DEF Unfailed
  <2>. QED
    BY <1>7 DEF OfMembers, Unread
<1>10. ASSUME NEW name \in kinds, NEW unread, unread = Unread(ids, name, failing), unread # {},
              NEW F \in SUBSET Fields, \A f \in F : f[1] = Steps[step] /\ name \in Sources(f)
       PROVE  Settles(F, failing, LeftUnreadVaults(name, unread, F))
  <2>1. name \in ReadsOf[step] /\ name \notin Settings /\ OfMembers(failing, name, ids)
    BY <1>2, <1>7 DEF Settings
  <2>2. Settles(F, failing, LeftUnread(ids, name, unread, F))
    BY <1>4, <1>10, <2>1, UnreadSettles
  <2>. QED
    BY <2>2 DEF LeftUnreadVaults, ids
<1>11. \A f \in {VaultPct, ProtectedPct, RetentionMin, BackupAge, FailedJobs} :
         f \in Fields /\ f[1] = Steps[step]
  BY <1>2, FieldsOfBlocks
<1>12. Settles({VaultPct}, failing, a)
  <2>1. RestsOnReads(VaultPct, failing)
    BY <1>2, <1>7, BackupFields, Rests
  <2>2. ~EmptyPopulation(estate, VaultPct)
    BY <1>1, EmptyPopulations
  <2>. QED
    BY <1>3, <1>11, <2>1, <2>2, WroteSettles
<1>13. Settles({ProtectedPct}, failing, b)
  <2>1. CASE backupMiss # NoMiss
    <3>1. b = Left(leaveOut(backupMiss, {ProtectedPct}))
      BY <1>3, <2>1 DEF Protected
    <3>. QED
      BY <1>2, <1>7, <2>1, <3>1, ProtectedSettles
  <2>2. CASE backupMiss = NoMiss /\ noItems # {}
    <3>1. b = LeftUnreadVaults("items", noItems, {ProtectedPct})
      BY <1>3, <2>2 DEF Protected
    <3>2. \A f \in {ProtectedPct} : f[1] = Steps[step] /\ "items" \in Sources(f)
      BY <1>11, BackupFields
    <3>3. {ProtectedPct} \in SUBSET Fields /\ "items" \in kinds
      BY <1>11
    <3>. QED
      BY <1>3, <1>10, <2>2, <3>1, <3>2, <3>3
  <2>3. CASE backupMiss = NoMiss /\ noItems = {}
    <3>1. b = Count(ProtectedPct, protectedResourcePct(ItemsOf(estate)))
      BY <1>3, <1>8, <2>3 DEF Protected
    <3>2. Unfailed("items", failing)
      BY <1>3, <1>9, <2>3
    <3>. QED
      BY <1>2, <1>7, <2>3, <3>1, <3>2, ProtectedSettles
  <2>. QED
    BY <2>1, <2>2, <2>3
<1>14. Settles({RetentionMin}, failing, c)
  <2>0. {RetentionMin} \in SUBSET Fields /\ "items" \in kinds /\ "policies" \in kinds
    BY <1>11
  <2>1. CASE noPolicies # {}
    <3>1. c = LeftUnreadVaults("policies", noPolicies, {RetentionMin})
      BY <1>3, <2>1 DEF Retention
    <3>2. \A f \in {RetentionMin} : f[1] = Steps[step] /\ "policies" \in Sources(f)
      BY <1>11, BackupFields
    <3>. QED
      BY <1>3, <1>10, <2>0, <2>1, <3>1, <3>2
  <2>2. CASE noPolicies = {} /\ noItems # {}
    <3>1. c = LeftUnreadVaults("items", noItems, {RetentionMin})
      BY <1>3, <2>2 DEF Retention
    <3>2. \A f \in {RetentionMin} : f[1] = Steps[step] /\ "items" \in Sources(f)
      BY <1>11, BackupFields
    <3>. QED
      BY <1>3, <1>10, <2>0, <2>2, <3>1, <3>2
  <2>3. CASE noPolicies = {} /\ noItems = {}
    <3>1. PICK ns : ns = retentionDaysMin(policies, ItemsOf(estate))
      OBVIOUS
    <3>2. c = And(Wrote({RetentionRead}), Count(RetentionMin, ns))
      BY <1>3, <1>8, <2>3, <3>1 DEF Retention
    <3>3. RestsOnReads(RetentionMin, failing)
      BY <1>2, <1>3, <1>7, <1>9, <2>3, BackupFields, Rests
    <3>4. policies = UNION {v.policies : v \in ToSet(estate.vaults)}
      BY <1>8, <2>3
    <3>5. /\ ns = {} <=> EmptyPopulation(estate, RetentionMin)
          /\ \A n \in ns : n = Truth(estate, RetentionMin)
      BY <1>2, <3>1, <3>4, RetentionsAre, EmptyPopulations, Truths
    <3>6. Settles({RetentionMin}, failing, Count(RetentionMin, ns))
      BY <1>11, <3>3, <3>5, CountSettles
    <3>7. Settles({}, failing, Wrote({RetentionRead}))
      BY <1>2, RetentionReadSettles
    <3>8. Settles({} \cup {RetentionMin}, failing, c)
      BY <2>0, <3>2, <3>6, <3>7, AndSettles
    <3>. QED
      BY <3>8
  <2>. QED
    BY <2>1, <2>2, <2>3
<1>15. Settles({BackupAge} \cup {FailedJobs}, failing, d)
  <2>1. CASE noJobs # {}
    <3>1. d = LeftUnreadVaults("jobs", noJobs, {BackupAge, FailedJobs})
      BY <1>3, <2>1 DEF Jobs
    <3>2. \A f \in {BackupAge, FailedJobs} : f[1] = Steps[step] /\ "jobs" \in Sources(f)
      BY <1>11, BackupFields
    <3>3. {BackupAge, FailedJobs} \in SUBSET Fields /\ "jobs" \in kinds
      BY <1>11
    <3>4. Settles({BackupAge, FailedJobs}, failing, d)
      BY <1>3, <1>10, <2>1, <3>1, <3>2, <3>3
    <3>. QED
      BY <3>4
  <2>2. CASE noJobs = {}
    <3>. DEFINE ages == latestSuccessfulBackupAgeHoursMax(JobsOf(estate))
                fails == failedBackupJobs7dCount(JobsOf(estate))
    <3>1. d = And(Count(BackupAge, ages), Count(FailedJobs, fails))
      BY <1>3, <1>8, <2>2 DEF Jobs
    <3>2. Unfailed("jobs", failing)
      BY <1>3, <1>9, <2>2
    <3>3. RestsOnReads(BackupAge, failing) /\ RestsOnReads(FailedJobs, failing)
      <4>1. RestsOnReads(BackupAge, failing)
        BY <1>2, <1>7, <3>2, BackupFields, Rests
      <4>2. RestsOnReads(FailedJobs, failing)
        BY <1>2, <1>7, <3>2, BackupFields, Rests
      <4>. QED
        BY <4>1, <4>2
    <3>4. /\ ages = {} <=> AgesOfSuccesses(estate) = {}
          /\ \A n \in ages : n = Max(AgesOfSuccesses(estate))
      BY DEF latestSuccessfulBackupAgeHoursMax, AgesOfSuccesses
    <3>5. fails = {Cardinality({j \in JobsOf(estate) : ~j.succeeded /\ j.age <= 168})}
      <4>1. 7 * 24 = 168
        OBVIOUS
      <4>. QED
        BY <4>1, Zenon DEF failedBackupJobs7dCount
    <3>6. /\ ages = {} <=> EmptyPopulation(estate, BackupAge)
          /\ \A n \in ages : n = Truth(estate, BackupAge)
      BY <3>4, EmptyPopulations, Truths
    <3>7. /\ fails # {} /\ \A n \in fails : n = Truth(estate, FailedJobs)
          /\ ~EmptyPopulation(estate, FailedJobs)
      BY <1>1, <3>5, EmptyPopulations, Truths
    <3>. HIDE DEF ages, fails
    <3>8. Settles({BackupAge}, failing, Count(BackupAge, ages))
      BY <1>11, <3>3, <3>6, CountSettles
    <3>9. Settles({FailedJobs}, failing, Count(FailedJobs, fails))
      BY <1>11, <3>3, <3>7, CountSettles
    <3>10. {BackupAge} \in SUBSET Fields /\ {FailedJobs} \in SUBSET Fields
           /\ {BackupAge} \cap {FailedJobs} = {}
      BY <1>11, BackupFields
    <3>. QED
      BY <3>1, <3>8, <3>9, <3>10, AndSettles
  <2>. QED
    BY <2>1, <2>2
<1>16. Settles(DueHere, failing, And(And(a, b), And(c, d)))
  <2>1. /\ {VaultPct} \in SUBSET Fields /\ {ProtectedPct} \in SUBSET Fields
        /\ {RetentionMin} \in SUBSET Fields /\ ({BackupAge} \cup {FailedJobs}) \in SUBSET Fields
        /\ {VaultPct} \cap {ProtectedPct} = {}
        /\ {RetentionMin} \cap ({BackupAge} \cup {FailedJobs}) = {}
        /\ ({VaultPct} \cup {ProtectedPct})
             \cap ({RetentionMin} \cup ({BackupAge} \cup {FailedJobs})) = {}
    BY <1>11, BackupFields
  <2>2. Settles({VaultPct} \cup {ProtectedPct}, failing, And(a, b))
    BY <1>12, <1>13, <2>1, AndSettles
  <2>3. Settles({RetentionMin} \cup ({BackupAge} \cup {FailedJobs}), failing, And(c, d))
    BY <1>14, <1>15, <2>1, AndSettles
  <2>4. /\ ({VaultPct} \cup {ProtectedPct}) \in SUBSET Fields
        /\ ({RetentionMin} \cup ({BackupAge} \cup {FailedJobs})) \in SUBSET Fields
    BY <2>1
  <2>5. Settles(({VaultPct} \cup {ProtectedPct})
                  \cup ({RetentionMin} \cup ({BackupAge} \cup {FailedJobs})),
                failing, And(And(a, b), And(c, d)))
    BY <2>1, <2>2, <2>3, <2>4, AndSettles
  <2>. QED
    BY <1>2, <2>5, BackupFields
<1>17. FoundOk(failedReads \cup failing, step + 1, found)
  BY <1>2, <1>7, FoundKept
<1>18. step > 1 /\ account \in DOMAIN estates /\ Own(failing)
  BY <1>2, <1>7
<1>19. Done(failing, And(And(a, b), And(c, d)), found)
  BY <1>3
<1>. QED
  BY <1>16, <1>17, <1>18, <1>19, HandledBy, Zenon

(* The diagnostic settings of a resource and what they tell.               *)
SettingsOf(id) ==
  IF id \in found.storage THEN {"own_settings", "service_settings"} ELSE {"own_settings"}

SettingFails(id, failing) == \E s \in SettingsOf(id) : Read(s, id) \in failing
SettingSends(id, failing) ==
  \E s \in SettingsOf(id) : Read(s, id) \notin failing /\ <<id, s>> \in estate.logged

LEMMA SettingIDsAre ==
  ASSUME NEW id
  PROVE  /\ DOMAIN settingIDs(id) \in SUBSET Nat
         /\ \A n \in DOMAIN settingIDs(id) : \E s \in SettingsOf(id) :
              settingIDs(id)[n] = <<id, s>> /\ Setting(settingIDs(id)[n]) = Read(s, id)
         /\ \A s \in SettingsOf(id) : \E n \in DOMAIN settingIDs(id) :
              settingIDs(id)[n] = <<id, s>> /\ Setting(settingIDs(id)[n]) = Read(s, id)
<1>1. \A s : Setting(<<id, s>>) = Read(s, id)
  BY DEF Setting
<1>2. CASE id \in found.storage
  <2>1. settingIDs(id) = <<<<id, "own_settings">>, <<id, "service_settings">>>>
    BY <1>2 DEF settingIDs
  <2>2. DOMAIN settingIDs(id) = 1..2 /\ settingIDs(id)[1] = <<id, "own_settings">>
        /\ settingIDs(id)[2] = <<id, "service_settings">>
    BY <2>1
  <2>3. SettingsOf(id) = {"own_settings", "service_settings"}
    BY <1>2 DEF SettingsOf
  <2>4. \A n \in 1..2 : n = 1 \/ n = 2
    OBVIOUS
  <2>5. 1 \in 1..2 /\ 2 \in 1..2 /\ 1..2 \in SUBSET Nat
    OBVIOUS
  <2>. QED
    BY <1>1, <2>2, <2>3, <2>4, <2>5, Zenon
<1>3. CASE id \notin found.storage
  <2>1. settingIDs(id) = <<<<id, "own_settings">>>>
    BY <1>3 DEF settingIDs
  <2>2. DOMAIN settingIDs(id) = 1..1 /\ settingIDs(id)[1] = <<id, "own_settings">>
    BY <2>1
  <2>3. SettingsOf(id) = {"own_settings"}
    BY <1>3 DEF SettingsOf
  <2>4. (\A n \in 1..1 : n = 1) /\ 1 \in 1..1 /\ 1..1 \in SUBSET Nat
    OBVIOUS
  <2>. QED
    BY <1>1, <2>2, <2>3, <2>4, Zenon
<1>. QED
  BY <1>2, <1>3

LEMMA ResourceIs ==
  ASSUME NEW id, NEW failing, NEW is, is = resourceLogged(settingIDs(id), failing)
  PROVE  /\ is = "logged" <=> SettingSends(id, failing)
         /\ is = "error" <=> ~SettingSends(id, failing) /\ SettingFails(id, failing)
<1>. DEFINE ids == settingIDs(id)
            sends == \E n \in DOMAIN ids : Sends(ids[n], failing)
            clear == \A n \in DOMAIN ids : Setting(ids[n]) \notin failing
                                           /\ ids[n] \notin estate.logged
<1>1. sends <=> SettingSends(id, failing)
  <2>1. sends => SettingSends(id, failing)
    BY SettingIDsAre, Zenon DEF Sends, SettingSends
  <2>2. SettingSends(id, failing) => sends
    BY SettingIDsAre, Zenon DEF Sends, SettingSends
  <2>. QED
    BY <2>1, <2>2
<1>2. clear => ~sends /\ ~SettingFails(id, failing)
  BY SettingIDsAre DEF Sends, SettingFails
<1>3. ~sends /\ ~SettingFails(id, failing) => clear
  BY SettingIDsAre DEF Sends, SettingFails
<1>4. is = CASE sends -> "logged" [] clear -> "not_logged" [] OTHER -> "error"
  BY DEF resourceLogged
<1>. HIDE DEF sends, clear
<1>. QED
  BY <1>1, <1>2, <1>3, <1>4

(* The resources measured are all there are, once their lists were read.   *)
LEMMA MonitoredIs ==
  ASSUME TurnInv, step = 11, account \in DOMAIN estates
  PROVE  /\ monitoredMiss # NoMiss =>
              /\ monitoredMiss.about \in failedReads /\ monitoredMiss.about[1] = account
              /\ monitoredMiss.about[2] \in
                   {"machines", "sql", "databases", "storage", "keyvault"}
         /\ monitoredMiss = NoMiss =>
              /\ \A n \in {"machines", "sql", "databases", "storage", "keyvault"} :
                   Unfailed(n, failedReads)
              /\ found.storage = ToSet(estate.storage)
              /\ found.keyVaults = ToSet(estate.keyVaults)
              /\ found.databases = {d.id : d \in CountedDatabases(estate)}
              /\ found.masters = {d.id : d \in ToSet(estate.databases)
                                               \ CountedDatabases(estate)}
              /\ found.machines = ToSet(estate.machines)
<1>1. FoundOk(failedReads, 11, found)
  BY DEF TurnInv, FoundInv
<1>2. /\ Knows(failedReads, "storage", found.storageMiss)
      /\ Knows(failedReads, "keyvault", found.keyVaultsMiss)
      /\ Knows(failedReads, "sql", found.serversMiss)
      /\ Knows(failedReads, "databases", found.databasesMiss)
      /\ Knows(failedReads, "machines", found.machinesMiss)
  BY <1>1 DEF FoundOk, ListsKnown
<1>3. /\ found.storageMiss = NoMiss => found.storage = ToSet(estate.storage)
      /\ found.keyVaultsMiss = NoMiss => found.keyVaults = ToSet(estate.keyVaults)
      /\ found.serversMiss = NoMiss /\ found.databasesMiss = NoMiss =>
           /\ found.databases = {d.id : d \in CountedDatabases(estate)}
           /\ found.masters = {d.id : d \in ToSet(estate.databases)
                                            \ CountedDatabases(estate)}
      /\ found.machinesMiss = NoMiss => found.machines = ToSet(estate.machines)
  BY <1>1 DEF FoundOk, ListsComplete
<1>4. /\ monitoredMiss \in {found.storageMiss, found.keyVaultsMiss, found.serversMiss,
                            found.databasesMiss, found.machinesMiss}
      /\ monitoredMiss = NoMiss =>
           /\ found.storageMiss = NoMiss /\ found.keyVaultsMiss = NoMiss
           /\ found.serversMiss = NoMiss /\ found.databasesMiss = NoMiss
           /\ found.machinesMiss = NoMiss
  BY DEF monitoredMiss, firstMissing
<1>5. ASSUME monitoredMiss # NoMiss
      PROVE  /\ monitoredMiss.about \in failedReads /\ monitoredMiss.about[1] = account
             /\ monitoredMiss.about[2] \in
                  {"machines", "sql", "databases", "storage", "keyvault"}
  <2>. DEFINE names == {"machines", "sql", "databases", "storage", "keyvault"}
  <2>1. \E n \in names : Knows(failedReads, n, monitoredMiss)
    BY <1>2, <1>4
  <2>. HIDE DEF names
  <2>2. /\ monitoredMiss.about \in failedReads /\ monitoredMiss.about[1] = account
        /\ monitoredMiss.about[2] \in names
    BY <1>5, <2>1 DEF Knows
  <2>. QED
    BY <2>2 DEF names
<1>6. monitoredMiss = NoMiss =>
        \A n \in {"machines", "sql", "databases", "storage", "keyvault"} :
          Unfailed(n, failedReads)
  BY <1>2, <1>4 DEF Knows, Unfailed
<1>. QED
  BY <1>3, <1>4, <1>5, <1>6

LEMMA MonitoredListsAre ==
  /\ DOMAIN monitoredResourceList = 1..5
  /\ monitoredResourceList[1] = <<estate.storage, found.storage>>
  /\ monitoredResourceList[2] = <<estate.keyVaults, found.keyVaults>>
  /\ monitoredResourceList[3] = <<IDs(estate.databases), found.masters>>
  /\ monitoredResourceList[4] = <<IDs(estate.databases), found.databases>>
  /\ monitoredResourceList[5] = <<estate.machines, found.machines>>
  BY DEF monitoredResourceList

LEMMA MonitoredAre ==
  ASSUME TurnInv, step = 11, account \in DOMAIN estates, monitoredMiss = NoMiss
  PROVE  /\ monitored = Monitored(estate) /\ IsFiniteSet(monitored)
         /\ \A k \in 1..5 : /\ monitoredResourceList[k][1] \in Seq(STRING)
                            /\ monitoredResourceList[k][2] \in
                                 SUBSET ToSet(monitoredResourceList[k][1])
<1>. DEFINE e == estate
            ids == IDs(estate.databases)
<1>1. estate \in Estate
  BY HereOk DEF TurnInv
<1>2. /\ estate.storage \in Seq(STRING) /\ estate.keyVaults \in Seq(STRING)
      /\ estate.databases \in Seq(Database) /\ estate.machines \in Seq(STRING)
  BY <1>1, EstateFields
<1>3. ids \in Seq(STRING) /\ ToSet(ids) = {d.id : d \in ToSet(estate.databases)}
  <2>1. \A d \in Database : d.id \in STRING
    BY DEF Database
  <2>. QED
    BY <1>2, <2>1, IDsOf
<1>4. /\ found.storage = ToSet(estate.storage) /\ found.keyVaults = ToSet(estate.keyVaults)
      /\ found.databases = {d.id : d \in CountedDatabases(estate)}
      /\ found.masters = {d.id : d \in ToSet(estate.databases) \ CountedDatabases(estate)}
      /\ found.machines = ToSet(estate.machines)
  BY MonitoredIs
<1>5. CountedDatabases(estate) \in SUBSET ToSet(estate.databases)
  BY DEF CountedDatabases
<1>6. found.databases \cup found.masters = ToSet(ids)
  BY <1>3, <1>4, <1>5
<1>. HIDE DEF ids
<1>7. monitored = found.storage \cup found.keyVaults \cup found.masters
                    \cup found.databases \cup found.machines
  <2>1. monitored = UNION {monitoredResourceList[k][2] : k \in 1..5}
    BY MonitoredListsAre DEF monitored
  <2>2. \A k \in 1..5 : k = 1 \/ k = 2 \/ k = 3 \/ k = 4 \/ k = 5
    OBVIOUS
  <2>3. /\ 1 \in 1..5 /\ 2 \in 1..5 /\ 3 \in 1..5 /\ 4 \in 1..5 /\ 5 \in 1..5
    OBVIOUS
  <2>4. /\ monitoredResourceList[1][2] = found.storage
        /\ monitoredResourceList[2][2] = found.keyVaults
        /\ monitoredResourceList[3][2] = found.masters
        /\ monitoredResourceList[4][2] = found.databases
        /\ monitoredResourceList[5][2] = found.machines
    BY MonitoredListsAre
  <2>5. \A x : x \in monitored <=>
          \/ x \in found.storage \/ x \in found.keyVaults \/ x \in found.masters
          \/ x \in found.databases \/ x \in found.machines
    BY <2>1, <2>2, <2>3, <2>4, Zenon
  <2>. QED
    BY <2>5
<1>8. monitored = Monitored(estate)
  BY <1>3, <1>4, <1>6, <1>7 DEF Monitored
<1>9. IsFiniteSet(monitored)
  <2>1. /\ IsFiniteSet(ToSet(estate.storage)) /\ IsFiniteSet(ToSet(estate.keyVaults))
        /\ IsFiniteSet(ToSet(ids)) /\ IsFiniteSet(ToSet(estate.machines))
    BY <1>2, <1>3, ListsAreFinite
  <2>2. monitored = ToSet(estate.storage) \cup (ToSet(estate.keyVaults)
                      \cup (ToSet(ids) \cup ToSet(estate.machines)))
    BY <1>4, <1>6, <1>7
  <2>3. IsFiniteSet(ToSet(ids) \cup ToSet(estate.machines))
    BY <2>1, FS_Union
  <2>4. IsFiniteSet(ToSet(estate.keyVaults) \cup (ToSet(ids) \cup ToSet(estate.machines)))
    BY <2>1, <2>3, FS_Union
  <2>. QED
    BY <2>1, <2>2, <2>4, FS_Union
<1>10. ASSUME NEW k \in 1..5
       PROVE  /\ monitoredResourceList[k][1] \in Seq(STRING)
              /\ monitoredResourceList[k][2] \in SUBSET ToSet(monitoredResourceList[k][1])
  <2>1. CASE k = 1
    BY <1>2, <1>4, <2>1, MonitoredListsAre
  <2>2. CASE k = 2
    BY <1>2, <1>4, <2>2, MonitoredListsAre
  <2>3. CASE k = 3
    BY <1>3, <1>6, <2>3, MonitoredListsAre DEF ids
  <2>4. CASE k = 4
    BY <1>3, <1>6, <2>4, MonitoredListsAre DEF ids
  <2>5. CASE k = 5
    BY <1>2, <1>4, <2>5, MonitoredListsAre
  <2>. QED
    BY <2>1, <2>2, <2>3, <2>4, <2>5
<1>. QED
  BY <1>8, <1>9, <1>10

(* What the reads of one run of the handler tell of a resource.            *)
SettingReads(failing) ==
  \A r \in failing : \/ r = Read("activity", "")
                     \/ \E id \in monitored : \E s \in SettingsOf(id) : r = Read(s, id)

LEMMA SettingFacts ==
  ASSUME TurnInv, step = 11, account \in DOMAIN estates, monitoredMiss = NoMiss,
         NEW failing, SettingReads(failing), NEW id \in monitored, NEW s \in Settings
  PROVE  /\ Read(s, id) \in failedReads \cup failing <=> Read(s, id) \in failing
         /\ Read(s, id) \in failing => s \in SettingsOf(id)
         /\ <<id, s>> \in estate.logged => s \in SettingsOf(id)
         /\ SettingsOf(id) \in SUBSET Settings
<1>1. Settings = {"own_settings", "service_settings"}
      /\ "own_settings" \in SettingsOf(id) /\ SettingsOf(id) \in SUBSET Settings
      /\ (id \in found.storage => "service_settings" \in SettingsOf(id))
  BY DEF Settings, SettingsOf
<1>2. Read(s, id)[1] = account /\ Read(s, id)[2] = s /\ Read(s, id)[3] = id
  BY ReadIs
<1>3. Read(s, id) \notin failedReads
  <2>1. s \in ReadsOf[step]
    BY <1>1, ReadNames
  <2>. QED
    BY <1>2, <2>1, FreshReads
<1>4. Read(s, id) \in failing => s \in SettingsOf(id)
  <2>1. s # "activity"
    BY <1>1
  <2>2. Read(s, id) # Read("activity", "")
    <3>1. Read("activity", "")[2] = "activity"
      BY ReadIs
    <3>. QED
      BY <1>2, <2>1, <3>1, Zenon
  <2>3. \A id2, s2 : Read(s, id) = Read(s2, id2) => s = s2 /\ id = id2
    BY DEF Read
  <2>. QED
    BY <2>2, <2>3, Zenon DEF SettingReads
<1>5. <<id, s>> \in estate.logged => s \in SettingsOf(id)
  <2>1. IsEstate(estate) /\ found.storage = ToSet(estate.storage)
    BY HereOk, MonitoredIs DEF TurnInv
  <2>2. \A x \in estate.logged : x[2] = "service_settings" => x[1] \in found.storage
    BY <2>1 DEF IsEstate
  <2>3. <<id, s>>[1] = id /\ <<id, s>>[2] = s
    OBVIOUS
  <2>4. <<id, s>> \in estate.logged /\ s = "service_settings" => id \in found.storage
    BY <2>2, <2>3
  <2>. QED
    BY <1>1, <2>4
<1>. QED
  BY <1>1, <1>3, <1>4, <1>5

LEMMA UndecidedAre ==
  ASSUME TurnInv, step = 11, account \in DOMAIN estates, monitoredMiss = NoMiss,
         NEW failing, SettingReads(failing), NEW id \in monitored
  PROVE  UndecidedBy(account, id, failedReads \cup failing) <=>
           SettingFails(id, failing) /\ ~SettingSends(id, failing)
<1>. DEFINE unread == {s \in Settings : Read(s, id) \in failedReads \cup failing}
<1>1. UndecidedBy(account, id, failedReads \cup failing) <=>
        unread # {} /\ \A s \in Settings \ unread : <<id, s>> \notin estate.logged
  BY DEF UndecidedBy, Read, estate
<1>2. unread = {s \in Settings : Read(s, id) \in failing}
  BY SettingFacts
<1>3. SettingsOf(id) \in SUBSET Settings
  <2>1. "own_settings" \in Settings
    BY DEF Settings
  <2>. QED
    BY <2>1, SettingFacts
<1>4. unread # {} <=> SettingFails(id, failing)
  BY <1>2, <1>3, SettingFacts DEF SettingFails
<1>5. (\A s \in Settings \ unread : <<id, s>> \notin estate.logged)
        <=> ~SettingSends(id, failing)
  BY <1>2, <1>3, SettingFacts DEF SettingSends
<1>. QED
  BY <1>1, <1>4, <1>5

LEMMA LoggedAre ==
  ASSUME TurnInv, step = 11, account \in DOMAIN estates, monitoredMiss = NoMiss,
         NEW failing, SettingReads(failing),
         \A id \in monitored : SettingFails(id, failing) => SettingSends(id, failing)
  PROVE  {id \in monitored : SettingSends(id, failing)} = Logged(estate)
<1>1. Logged(estate) = {id \in monitored : \E x \in estate.logged : x[1] = id}
  BY MonitoredAre DEF Logged
<1>2. estate.logged \in SUBSET (STRING \X Settings)
  BY HereOk, EstateFields DEF TurnInv
<1>3. ASSUME NEW id \in monitored, SettingSends(id, failing)
      PROVE  \E x \in estate.logged : x[1] = id
  <2>1. PICK s : <<id, s>> \in estate.logged
    BY <1>3 DEF SettingSends
  <2>2. <<id, s>>[1] = id
    OBVIOUS
  <2>. QED
    BY <2>1, <2>2
<1>4. ASSUME NEW id \in monitored, NEW x \in estate.logged, x[1] = id
      PROVE  SettingSends(id, failing)
  <2>1. x = <<id, x[2]>> /\ x[2] \in Settings
    BY <1>2, <1>4
  <2>2. x[2] \in SettingsOf(id)
    BY <2>1, SettingFacts
  <2>3. CASE Read(x[2], id) \in failing
    BY <1>4, <2>2, <2>3 DEF SettingFails
  <2>4. CASE Read(x[2], id) \notin failing
    BY <2>1, <2>2, <2>4 DEF SettingSends
  <2>. QED
    BY <2>3, <2>4
<1>. QED
  BY <1>1, <1>3, <1>4

(* The read a gap of the logging names is that of a setting that failed.   *)
LEMMA FirstErrorIs ==
  ASSUME TurnInv, step = 11, account \in DOMAIN estates, monitoredMiss = NoMiss,
         NEW failing, NEW unread \in SUBSET monitored, unread # {},
         \A id \in unread : SettingFails(id, failing)
  PROVE  \E id, s : /\ FirstError(unread, failing) = Read(s, id)
                    /\ Read(s, id) \in failing /\ s \in Settings
<1>. DEFINE at == {k \in 1..5 : monitoredResourceList[k][2] \cap unread # {}}
<1>1. at # {} /\ at \in SUBSET Nat
  <2>1. monitored = UNION {monitoredResourceList[k][2] : k \in 1..5}
    BY MonitoredListsAre DEF monitored
  <2>2. PICK id \in unread : \E k \in 1..5 : id \in monitoredResourceList[k][2]
    BY <2>1
  <2>3. PICK k \in 1..5 : id \in monitoredResourceList[k][2]
    BY <2>2
  <2>. QED
    BY <2>3
<1>2. PICK k : k = Min(at)
  OBVIOUS
<1>3. k \in at
  <2>. HIDE DEF at
  <2>. QED
    BY <1>1, <1>2, LeastOfNaturals
<1>4. PICK list : list = monitoredResourceList[k]
  OBVIOUS
<1>5. /\ list[1] \in Seq(STRING) /\ list[2] \cap unread # {}
      /\ list[2] \in SUBSET ToSet(list[1])
  BY <1>3, <1>4, MonitoredAre
<1>6. PICK id : id = FirstOf(list[1], list[2] \cap unread)
  OBVIOUS
<1>7. id \in unread
  <2>1. (list[2] \cap unread) \in SUBSET ToSet(list[1])
    BY <1>5
  <2>2. id \in list[2] \cap unread
    BY <1>5, <1>6, <2>1, FirstOfIs
  <2>. QED
    BY <2>2
<1>8. PICK ids : ids = settingIDs(id)
  OBVIOUS
<1>. DEFINE fail == {n \in DOMAIN ids : Setting(ids[n]) \in failing}
<1>9. fail # {} /\ fail \in SUBSET Nat
  <2>1. DOMAIN ids \in SUBSET Nat
    BY <1>8, SettingIDsAre
  <2>2. PICK s \in SettingsOf(id) : Read(s, id) \in failing
    BY <1>7 DEF SettingFails
  <2>3. \E n \in DOMAIN ids : Setting(ids[n]) = Read(s, id)
    BY <1>8, <2>2, SettingIDsAre
  <2>. QED
    BY <2>1, <2>2, <2>3
<1>10. PICK n : n = Min(fail)
  OBVIOUS
<1>11. n \in fail
  <2>. HIDE DEF fail
  <2>. QED
    BY <1>9, <1>10, LeastOfNaturals
<1>12. FirstError(unread, failing) = Setting(ids[n])
  <2>1. DOMAIN monitoredResourceList = 1..5
    BY MonitoredListsAre
  <2>. QED
    BY <1>2, <1>4, <1>6, <1>8, <1>10, <2>1 DEF FirstError
<1>13. PICK s \in SettingsOf(id) : Setting(ids[n]) = Read(s, id)
  BY <1>8, <1>11, SettingIDsAre
<1>14. s \in Settings
  BY <1>13 DEF SettingsOf, Settings
<1>. QED
  BY <1>11, <1>12, <1>13, <1>14

LEMMA ResourcesSettle ==
  ASSUME TurnInv, step = 11, account \in DOMAIN estates, monitoredMiss = NoMiss,
         NEW failing, SettingReads(failing), Own(failing)
  PROVE  Settles({MonitoredCount} \cup {LoggedPct, UnloggedCount}, failing,
                 ResourceSettings(failing))
<1>. DEFINE F == {LoggedPct, UnloggedCount}
            errors == {id \in monitored :
                         resourceLogged(settingIDs(id), failing) = "error"}
            sending == {id \in monitored :
                          resourceLogged(settingIDs(id), failing) = "logged"}
            first == FirstError(errors, failing)
            a == Count(MonitoredCount, {Cardinality(monitored)})
            b == Left(partial(Cardinality(errors), failed(first), F))
            c == And(Count(LoggedPct, {Cardinality(sending)}),
                     Count(UnloggedCount, {Cardinality(monitored) - Cardinality(sending)}))
<1>1. /\ ResourceSettings(failing) =
           And(a, CASE monitored = {} -> Nothing
                    [] monitored # {} /\ errors # {} -> b
                    [] OTHER -> c)
  BY Zenon DEF ResourceSettings
<1>2. /\ errors = {id \in monitored :
                     SettingFails(id, failing) /\ ~SettingSends(id, failing)}
      /\ sending = {id \in monitored : SettingSends(id, failing)}
  BY ResourceIs
<1>3. monitored = Monitored(estate) /\ IsFiniteSet(monitored)
  BY MonitoredAre
<1>4. Steps[step] = "logging"
      /\ ReadsOf[step] = {"activity", "own_settings", "service_settings"}
  BY StepNames, ReadNames
<1>5. /\ \A f \in {MonitoredCount, LoggedPct, UnloggedCount} : f \in Fields /\ f[1] = Steps[step]
      /\ MonitoredCount \notin F /\ LoggedPct # UnloggedCount
      /\ Sources(MonitoredCount) =
           {"subscription", "machines", "sql", "databases", "storage", "keyvault"}
      /\ \A f \in F : Sources(f) =
           {"subscription", "machines", "sql", "databases", "storage", "keyvault",
            "own_settings", "service_settings"}
  <2>1. /\ \A f \in {MonitoredCount, LoggedPct, UnloggedCount} : f \in Fields /\ f[1] = "logging"
    BY FieldsOfBlocks
  <2>2. /\ MonitoredCount \notin F /\ LoggedPct # UnloggedCount
        /\ \A f \in {MonitoredCount, LoggedPct, UnloggedCount} :
             f \notin {SettingsEnabled, ActivityExported}
    BY DEF MonitoredCount, LoggedPct, UnloggedCount, SettingsEnabled, ActivityExported
  <2>. QED
    BY <1>4, <2>1, <2>2, LoggingSources
<1>6. \A n \in {"machines", "sql", "databases", "storage", "keyvault"} :
        Unfailed(n, failedReads) /\ n \notin ReadsOf[step]
  BY <1>4, MonitoredIs
<1>7. \A f \in {MonitoredCount, LoggedPct, UnloggedCount} : RestsOnReads(f, failing)
  <2>1. Settings = {"own_settings", "service_settings"}
    BY DEF Settings
  <2>2. \A f \in {MonitoredCount, LoggedPct, UnloggedCount} : \A n \in Sources(f) \ Settings :
          n = "subscription" \/ (n \notin ReadsOf[step] /\ Unfailed(n, failedReads))
    BY <1>5, <1>6, <2>1
  <2>. QED
    BY <2>2, Rests
<1>. HIDE DEF errors, sending
<1>8. Settles({MonitoredCount}, failing, a)
  <2>1. \A n \in {Cardinality(monitored)} : n = Truth(estate, MonitoredCount)
    BY <1>3, Truths
  <2>. QED
    BY <1>5, <1>7, <2>1, NeverEmpty, CountSettles
<1>9. CASE monitored = {}
  <2>1. \A f \in F : EmptyPopulation(estate, f)
    BY <1>3, <1>9, EmptyPopulations
  <2>2. Settles(F, failing, Nothing)
    BY <1>7, <2>1 DEF Settles, Settled, Nothing
  <2>3. ResourceSettings(failing) = And(a, Nothing)
    BY <1>1, <1>9
  <2>4. {MonitoredCount} \in SUBSET Fields /\ F \in SUBSET Fields /\ {MonitoredCount} \cap F = {}
    BY <1>5
  <2>. HIDE DEF a, F
  <2>5. Settles({MonitoredCount} \cup F, failing, And(a, Nothing))
    BY <1>8, <2>2, <2>4, AndSettles
  <2>. QED
    BY <2>3, <2>5 DEF F
<1>10. CASE monitored # {} /\ errors # {}
  <2>1. PICK x, s : first = Read(s, x) /\ Read(s, x) \in failing /\ s \in Settings
    <3>1. errors \in SUBSET monitored /\ \A id \in errors : SettingFails(id, failing)
      BY <1>2
    <3>. QED
      BY <1>10, <3>1, FirstErrorIs
  <2>. HIDE DEF first
  <2>2. first \in failing /\ first[1] = account /\ first[2] \in Settings
    BY <2>1, ReadIs
  <2>3. Cardinality(errors) = Unmeasured(first, failedReads \cup failing)
    <3>1. errors = {id \in Monitored(estate) :
                      UndecidedBy(account, id, failedReads \cup failing)}
      BY <1>2, <1>3, UndecidedAre
    <3>. QED
      BY <2>2, <3>1 DEF Unmeasured, estate
  <2>4. failed(first) # NoMiss /\ failed(first).about = first
    BY Misses
  <2>5. \A f \in F : f[1] = Steps[step] /\ first[2] \in Sources(f)
    BY <1>5, <2>2 DEF Settings
  <2>6. F \in SUBSET Fields
    BY <1>5
  <2>7. Settles(F, failing, b)
    BY <2>2, <2>3, <2>4, <2>5, <2>6, LeftSettles
  <2>8. ResourceSettings(failing) = And(a, b)
    BY <1>1, <1>10
  <2>9. {MonitoredCount} \in SUBSET Fields /\ {MonitoredCount} \cap F = {}
    BY <1>5
  <2>. HIDE DEF a, b, F
  <2>10. Settles({MonitoredCount} \cup F, failing, And(a, b))
    BY <1>8, <2>6, <2>7, <2>9, AndSettles
  <2>. QED
    BY <2>8, <2>10 DEF F
<1>11. CASE monitored # {} /\ errors = {}
  <2>1. sending = Logged(estate)
    BY <1>2, <1>11, LoggedAre
  <2>2. Cardinality(sending) = Truth(estate, LoggedPct)
    BY <2>1, Truths
  <2>3. Cardinality(monitored) - Cardinality(sending) = Truth(estate, UnloggedCount)
    <3>1. monitored \cap sending = sending
      BY <1>2
    <3>2. Cardinality(monitored \ sending) =
            Cardinality(monitored) - Cardinality(monitored \cap sending)
      BY <1>3, FS_Difference, Zenon
    <3>. QED
      BY <1>3, <2>1, <3>1, <3>2, Truths
  <2>0. ~EmptyPopulation(estate, LoggedPct) /\ ~EmptyPopulation(estate, UnloggedCount)
    BY <1>3, <1>11, EmptyPopulations
  <2>4. Settles({LoggedPct}, failing, Count(LoggedPct, {Cardinality(sending)}))
    BY <1>5, <1>7, <2>0, <2>2, CountSettles
  <2>5. Settles({UnloggedCount}, failing,
                Count(UnloggedCount, {Cardinality(monitored) - Cardinality(sending)}))
    BY <1>5, <1>7, <2>0, <2>3, CountSettles
  <2>6. {LoggedPct} \in SUBSET Fields /\ {UnloggedCount} \in SUBSET Fields
        /\ {LoggedPct} \cap {UnloggedCount} = {}
    BY <1>5
  <2>7. Settles({LoggedPct} \cup {UnloggedCount}, failing, c)
    BY <2>4, <2>5, <2>6, AndSettles
  <2>8. ResourceSettings(failing) = And(a, c)
    BY <1>1, <1>11
  <2>9. /\ {MonitoredCount} \in SUBSET Fields /\ F \in SUBSET Fields
        /\ {MonitoredCount} \cap F = {} /\ {LoggedPct} \cup {UnloggedCount} = F
    BY <1>5
  <2>. HIDE DEF a, c, F
  <2>10. Settles({MonitoredCount} \cup F, failing, And(a, c))
    BY <1>8, <2>7, <2>9, AndSettles
  <2>. QED
    BY <2>8, <2>10 DEF F
<1>. QED
  BY <1>9, <1>10, <1>11

LEMMA LoggingHandled ==
  ASSUME TurnInv, CollectLogging
  PROVE  Handled
<1>. DEFINE A == {SettingsEnabled, ActivityExported}
            R == {MonitoredCount} \cup {LoggedPct, UnloggedCount}
            activity == Read("activity", "")
<1>1. At("logging")
  BY DEF CollectLogging
<1>2. /\ step = 11 /\ Steps[step] = "logging" /\ account \in DOMAIN estates
      /\ DueHere = {f \in Fields : f[1] = "logging"}
      /\ ReadsOf[step] = {"activity", "own_settings", "service_settings"}
  BY <1>1, WhereIs, StepNames, ReadNames
<1>3. PICK failing, a, b :
        /\ failing \in SUBSET ({activity} \cup
             IF monitoredMiss = NoMiss
             THEN UNION {{Setting(s) : s \in ToSet(settingIDs(id))} : id \in monitored}
             ELSE {})
        /\ a = SubscriptionSettings(failing)
        /\ b = IF monitoredMiss # NoMiss
               THEN Left(leaveOut(monitoredMiss,
                                  {MonitoredCount, LoggedPct, UnloggedCount}))
               ELSE ResourceSettings(failing)
        /\ Done(failing, And(a, b), found)
  BY DEF CollectLogging
<1>4. activity[1] = account /\ activity[2] = "activity" /\ activity = Read("activity", "")
  BY DEF Read
<1>. HIDE DEF activity
<1>5. /\ SettingReads(failing)
      /\ monitoredMiss # NoMiss => \A r \in failing : r = activity
  <2>1. \A r \in failing : r = activity \/
          (monitoredMiss = NoMiss /\ \E id \in monitored :
             \E s \in ToSet(settingIDs(id)) : r = Setting(s))
    BY <1>3
  <2>2. \A id : \A s \in ToSet(settingIDs(id)) :
          \E k \in SettingsOf(id) : Setting(s) = Read(k, id)
    BY SettingIDsAre, Zenon DEF ToSet
  <2>3. SettingReads(failing)
    <3>. SUFFICES ASSUME NEW r \in failing, r # activity
         PROVE  \E id \in monitored : \E s \in SettingsOf(id) : r = Read(s, id)
      BY <1>4, Zenon DEF SettingReads
    <3>1. PICK id \in monitored : \E s \in ToSet(settingIDs(id)) : r = Setting(s)
      BY <2>1
    <3>2. \E s \in SettingsOf(id) : r = Read(s, id)
      BY <2>2, <3>1
    <3>. QED
      BY <3>2
  <2>. QED
    BY <2>1, <2>3, Zenon
<1>6. Own(failing) /\ (activity \notin failing => Unfailed("activity", failing))
  <2>1. \A r \in failing : \/ r = activity
                           \/ r[1] = account /\ r[2] \in {"own_settings", "service_settings"}
    <3>1. \A id : \A s \in SettingsOf(id) : Read(s, id)[1] = account
            /\ Read(s, id)[2] \in {"own_settings", "service_settings"}
      BY ReadIs DEF SettingsOf
    <3>. QED
      BY <1>4, <1>5, <3>1, Zenon DEF SettingReads
  <2>. QED
    BY <1>2, <1>4, <2>1 DEF Own, Unfailed
<1>7. /\ A \in SUBSET Fields /\ R \in SUBSET Fields /\ A \cap R = {} /\ DueHere = A \cup R
      /\ \A f \in A \cup R : f[1] = Steps[step]
      /\ \A f \in A : Sources(f) = {"subscription", "activity"}
      /\ \A f \in R : {"machines", "sql", "databases", "storage", "keyvault"} \subseteq Sources(f)
  <2>1. A \cap R = {}
    BY DEF SettingsEnabled, ActivityExported, MonitoredCount, LoggedPct, UnloggedCount
  <2>2. \A f \in A \cup R : f \in Fields /\ f[1] = "logging"
    BY FieldsOfBlocks
  <2>3. \A f \in A : Sources(f) = {"subscription", "activity"}
    BY <2>1, <2>2, LoggingSources
  <2>4. \A f \in R : {"machines", "sql", "databases", "storage", "keyvault"} \subseteq Sources(f)
    BY <2>1, <2>2, LoggingSources
  <2>. QED
    BY <1>2, <2>1, <2>2, <2>3, <2>4, LoggingSources
<1>8. {MonitoredCount, LoggedPct, UnloggedCount} = R
  OBVIOUS
<1>9. Settles(A, failing, a)
  <2>1. CASE activity \in failing
    <3>1. a = Left(leaveOut(failed(activity), A))
      BY <1>3, <1>4, <2>1 DEF SubscriptionSettings
    <3>2. failed(activity) # NoMiss /\ failed(activity).about = activity
      BY Misses
    <3>. HIDE DEF A
    <3>. QED
      BY <1>4, <1>7, <2>1, <3>1, <3>2, LeaveOutSettles
  <2>2. CASE activity \notin failing
    <3>1. a = Wrote(A)
      BY <1>3, <1>4, <2>2 DEF SubscriptionSettings
    <3>2. \A f \in A : RestsOnReads(f, failing)
      BY <1>2, <1>6, <1>7, <2>2, Rests
    <3>3. \A f \in A : ~EmptyPopulation(estate, f)
      BY NeverEmpty
    <3>. HIDE DEF A
    <3>. QED
      BY <1>7, <3>1, <3>2, <3>3, WroteSettles
  <2>. QED
    BY <2>1, <2>2
<1>10. Settles(R, failing, b)
  <2>1. CASE monitoredMiss # NoMiss
    <3>1. b = Left(leaveOut(monitoredMiss, R))
      BY <1>3, <1>8, <2>1
    <3>2. /\ monitoredMiss.about \in failedReads \cup failing
          /\ monitoredMiss.about[1] = account
          /\ \A f \in R : monitoredMiss.about[2] \in Sources(f)
      BY <1>2, <1>7, <2>1, MonitoredIs
    <3>. HIDE DEF R
    <3>. QED
      BY <1>7, <2>1, <3>1, <3>2, LeaveOutSettles
  <2>2. CASE monitoredMiss = NoMiss
    BY <1>2, <1>3, <1>5, <1>6, <2>2, ResourcesSettle
  <2>. QED
    BY <2>1, <2>2
<1>. HIDE DEF A, R
<1>11. Settles(DueHere, failing, And(a, b))
  BY <1>7, <1>9, <1>10, AndSettles
<1>12. FoundOk(failedReads \cup failing, step + 1, found)
  BY <1>2, <1>6, FoundKept
<1>13. step > 1 /\ account \in DOMAIN estates /\ Own(failing)
  BY <1>2, <1>6
<1>14. Done(failing, And(a, b), found)
  BY <1>3
<1>. QED
  BY <1>11, <1>12, <1>13, <1>14, HandledBy, Zenon

-----------------------------------------------------------------------------
(* Whatever the next step is, the run stays in turn.                       *)
Advance(failing, o, fd) ==
  /\ failedReads' = failedReads \cup failing
  /\ written' = written \cup {pointer(f) : f \in o.fields}
  /\ numbers' = numbers \cup o.nums /\ gaps' = gaps \cup o.left
  /\ level' = level /\ estates' = estates /\ unreadable' = unreadable
  /\ \/ step = 12 /\ account' = account + 1 /\ step' = 1 /\ found' = NothingFound
     \/ step < 12 /\ account' = account /\ step' = step + 1 /\ found' = fd

Handles(failing, o, fd) ==
  /\ account \in DOMAIN estates
  /\ \A r \in failing : r[1] = account /\ r[2] \in ReadsOf[step] /\ step > 1
  /\ Settles(DueHere, failing, o)
  /\ FoundOk(failedReads \cup failing, step + 1, fd)

LEMMA HandledAdvances ==
  ASSUME TurnInv, Handled
  PROVE  \E failing, o, fd : Advance(failing, o, fd) /\ Handles(failing, o, fd)
<1>1. PICK failing, o, fd :
        /\ account \in DOMAIN estates
        /\ Done(failing, o, fd)
        /\ \A r \in failing : r[1] = account /\ r[2] \in ReadsOf[step] /\ step > 1
        /\ Settles(DueHere, failing, o)
        /\ FoundOk(failedReads \cup failing, step + 1, fd)
  BY Zenon DEF Handled
<1>2. Handles(failing, o, fd)
  BY <1>1, Zenon DEF Handles
<1>3. Done(failing, o, fd)
  BY <1>1, Zenon
<1>4. step \in 1..12 /\ Len(Steps) = 12
  BY StepsAre DEF TurnInv, PlaceOk
<1>5. Advance(failing, o, fd)
  <2>1. Fail(failing) /\ Settle(o) /\ Proceed(fd) /\ UNCHANGED unreadable
    BY <1>3 DEF Done
  <2>2. Proceed(fd) => \/ step = 12 /\ account' = account + 1 /\ step' = 1
                                  /\ found' = NothingFound
                       \/ step < 12 /\ account' = account /\ step' = step + 1 /\ found' = fd
    BY <1>4 DEF Proceed, NextAccount
  <2>. QED
    BY <2>1, <2>2, Zenon DEF Fail, Settle, Advance
<1>. QED
  BY <1>2, <1>5, Zenon

LEMMA OutcomeIs ==
  ASSUME TurnInv, NEW failing, NEW o, NEW fd, Handles(failing, o, fd)
  PROVE  /\ account \in 1..Len(estates)
         /\ \A f \in o.fields : /\ f = <<f[1], f[2]>> /\ f[1] = Steps[step] /\ step > 1
                                /\ f \in DueHere \/ f = RetentionRead
         /\ \A g \in o.left : /\ g.at = <<account, Steps[step], g.at[3]>> /\ step > 1
                              /\ Names(g, failedReads \cup failing)
                              /\ \A f \in Fields : Covers(g, account, f) => f \in DueHere
         /\ \A n \in o.nums : TrueOf(n, o)
         /\ \A f \in DueHere : Settled(f, failing, o)
<1>1. account \in 1..Len(estates) /\ step \in 1..12
  BY HereOk DEF TurnInv, PlaceOk, Handles
<1>2. /\ o.fields \subseteq DueHere \cup {RetentionRead}
      /\ \A f \in o.fields : f[1] = Steps[step]
      /\ \A g \in o.left : /\ Names(g, failedReads \cup failing)
                           /\ \A f \in Fields : Covers(g, account, f) => f \in DueHere
      /\ \A n \in o.nums : TrueOf(n, o)
      /\ \A f \in DueHere : Settled(f, failing, o)
  BY DEF Handles, Settles
<1>3. ASSUME NEW f \in o.fields PROVE f = <<f[1], f[2]>> /\ step > 1
  <2>1. \A k, n \in 1..12 : Steps[k] = Steps[n] => k = n
    BY StepsAre
  <2>2. CASE f \in DueHere
    <3>1. f = <<f[1], f[2]>> /\ \E k \in 2..12 : f[1] = Steps[k]
      BY <2>2, BlocksOfFields DEF DueHere
    <3>. QED
      BY <1>1, <1>2, <2>1, <3>1
  <2>3. CASE f = RetentionRead
    <3>1. f = <<f[1], f[2]>> /\ f[1] = Steps[9]
      BY <2>3, FieldsOfBlocks, StepNames
    <3>. QED
      BY <1>1, <1>2, <2>1, <3>1
  <2>. QED
    BY <1>2, <2>2, <2>3
<1>4. ASSUME NEW g \in o.left PROVE g.at = <<account, Steps[step], g.at[3]>> /\ step > 1
  <2>1. /\ g.at = <<account, Steps[step], g.at[3]>>
        /\ g.why.about \in failedReads \cup failing /\ g.why.about[1] = account
    BY <1>2 DEF Names
  <2>2. CASE g.why.about \in failing
    BY <2>1, <2>2 DEF Handles
  <2>3. CASE g.why.about \in failedReads
    BY <1>1, <2>1, <2>3 DEF TurnInv, ReadsInTurn
  <2>. QED
    BY <2>1, <2>2, <2>3
<1>. QED
  BY <1>1, <1>2, <1>3, <1>4

LEMMA AdvanceKeepsTurn ==
  ASSUME TurnInv, NEW failing, NEW o, NEW fd, Advance(failing, o, fd), Handles(failing, o, fd)
  PROVE  TurnInv'
<1>1. account \in 1..Len(estates) /\ step \in 1..12 /\ Len(estates) \in Nat
      /\ estates \in Configurations /\ DOMAIN unreadable = DOMAIN estates
  BY OutcomeIs, HereOk DEF TurnInv, PlaceOk
<1>2. /\ estates' = estates /\ unreadable' = unreadable
      /\ \/ step = 12 /\ account' = account + 1 /\ step' = 1
         \/ step < 12 /\ account' = account /\ step' = step + 1
  BY DEF Advance
<1>3. PlaceOk'
  BY <1>1, <1>2 DEF PlaceOk
<1>4. ReadsInTurn'
  <2>. SUFFICES ASSUME NEW r \in failedReads'
       PROVE  /\ r[1] \in 1..account' /\ r[1] <= Len(estates')
              /\ r[1] = account' => \E k \in 2..step' - 1 : r[2] \in ReadsOf[k]
    BY DEF ReadsInTurn
  <2>1. CASE r \in failing
    <3>1. r[1] = account /\ r[2] \in ReadsOf[step] /\ step > 1
      BY <2>1 DEF Handles
    <3>. QED
      BY <1>1, <1>2, <3>1
  <2>2. CASE r \in failedReads
    <3>1. /\ r[1] \in 1..account /\ r[1] <= Len(estates)
          /\ r[1] = account => \E k \in 2..step - 1 : r[2] \in ReadsOf[k]
      BY <2>2 DEF TurnInv, ReadsInTurn
    <3>. QED
      BY <1>1, <1>2, <3>1
  <2>. QED
    BY <2>1, <2>2 DEF Advance
<1>5. SettledInTurn'
  <2>1. ASSUME NEW at, InTurn(at) \/ (at = <<account, Steps[step], at[3]>> /\ step > 1)
        PROVE  InTurn(at)'
    <3>1. CASE InTurn(at)
      BY <1>1, <1>2, <3>1 DEF InTurn
    <3>2. CASE at = <<account, Steps[step], at[3]>> /\ step > 1
      <4>1. at = <<at[1], at[2], at[3]>> /\ at[1] = account /\ at[2] = Steps[step]
        BY <3>2
      <4>. QED
        BY <1>1, <1>2, <3>2, <4>1 DEF InTurn
    <3>. QED
      BY <2>1, <3>1, <3>2
  <2>2. ASSUME NEW w \in written' PROVE InTurn(w)'
    <3>1. CASE w \in written
      BY <2>1, <3>1 DEF TurnInv, SettledInTurn
    <3>2. CASE w \notin written
      <4>1. PICK f \in o.fields : w = pointer(f)
        BY <3>2 DEF Advance
      <4>2. w = <<account, Steps[step], w[3]>> /\ step > 1
        BY <4>1, OutcomeIs DEF pointer
      <4>. QED
        BY <2>1, <4>2
    <3>. QED
      BY <3>1, <3>2
  <2>3. ASSUME NEW g \in gaps' PROVE InTurn(g.at)'
    <3>1. CASE g \in gaps
      BY <2>1, <3>1 DEF TurnInv, SettledInTurn
    <3>2. CASE g \in o.left
      BY <2>1, <3>2, OutcomeIs
    <3>. QED
      BY <3>1, <3>2 DEF Advance
  <2>4. ASSUME NEW n \in numbers' PROVE n.at \in written'
    <3>1. CASE n \in numbers
      BY <3>1 DEF TurnInv, SettledInTurn, Advance
    <3>2. CASE n \in o.nums
      <4>1. TrueOf(n, o)
        BY <3>2, OutcomeIs
      <4>2. PICK f \in o.fields : n.at = pointer(f)
        BY <4>1 DEF TrueOf
      <4>. QED
        BY <4>2 DEF Advance
    <3>. QED
      BY <3>1, <3>2 DEF Advance
  <2>. QED
    BY <2>2, <2>3, <2>4 DEF SettledInTurn
<1>6. FoundInv'
  <2>1. CASE step < 12
    <3>1. /\ failedReads' = failedReads \cup failing /\ step' = step + 1 /\ found' = fd
          /\ account' = account /\ estates' = estates
      BY <1>1, <2>1 DEF Advance
    <3>2. FoundOk(failedReads \cup failing, step + 1, fd)
      BY DEF Handles
    <3>. QED
      BY <3>1, <3>2 DEF FoundInv, FoundOk, FoundShape, ListsKnown, Knows, ListsComplete, estate
  <2>2. CASE step = 12
    <3>1. found' = NothingFound /\ step' = 1 /\ account' = account + 1
      BY <2>2 DEF Advance
    <3>2. \A r \in failedReads' : r[1] # account'
      <4>1. \A r \in failedReads' : r[1] \in 1..account
        BY DEF Advance, Handles, TurnInv, PlaceOk, ReadsInTurn
      <4>. QED
        BY <1>1, <3>1, <4>1
    <3>3. FoundShape(NothingFound)
      BY DEF FoundShape, NothingFound
    <3>4. ListsKnown(failedReads, found)'
      BY <3>1, <3>2 DEF ListsKnown, Knows, NothingFound
    <3>5. ListsComplete(step, found)'
      BY <3>1 DEF ListsComplete
    <3>6. FoundShape(found)'
      BY <3>1, <3>3 DEF FoundShape
    <3>. QED
      BY <3>4, <3>5, <3>6 DEF FoundInv, FoundOk
  <2>. QED
    BY <1>1, <2>1, <2>2
<1>. QED
  BY <1>3, <1>4, <1>5, <1>6 DEF TurnInv

(* An unreadable subscription takes the run to the next one.               *)
Gap(b, why) == [at |-> <<account, b, Whole>>, why |-> why, unmeasured |-> 0]

Abandons(read, why) ==
  /\ account \in DOMAIN estates /\ step = 1
  /\ read = <<account, "subscription", "">> /\ why # NoMiss /\ why.about = read
  /\ failedReads' = failedReads \cup {read}
  /\ written' = written /\ numbers' = numbers
  /\ gaps' = gaps \cup {Gap(b, why) : b \in UnreadableBlocks}
  /\ level' = level /\ estates' = estates
  /\ unreadable' = [unreadable EXCEPT ![account] = why]
  /\ account' = account + 1 /\ step' = 1 /\ found' = NothingFound

LEMMA UnreadableAbandons ==
  ASSUME TurnInv, SubscriptionUnreadable
  PROVE  \E read, why : Abandons(read, why)
<1>1. At("subscription")
  BY DEF SubscriptionUnreadable
<1>2. step = 1 /\ account \in DOMAIN estates
  BY <1>1, WhereIs, StepNames
<1>3. PICK read, why, o :
        /\ read = Read("subscription", "") /\ why \in {failed(read), configInvalid(read)}
        /\ o = Left(UNION {LeaveOutBlock(why, b) : b \in UnreadableBlocks})
        /\ unreadable' = [unreadable EXCEPT ![account] = why]
        /\ Fail({read}) /\ Settle(o) /\ LeaveSubscription
  BY DEF SubscriptionUnreadable
<1>4. why # NoMiss /\ why.about = read
  BY <1>3, Misses
<1>5. o.fields = {} /\ o.nums = {} /\ o.left = {Gap(b, why) : b \in UnreadableBlocks}
  <2>1. \A b : LeaveOutBlock(why, b) = {Gap(b, why)}
    BY <1>4 DEF LeaveOutBlock, leaveOut, partial, pointer, Gap
  <2>2. o.fields = {} /\ o.nums = {}
        /\ o.left = UNION {LeaveOutBlock(why, b) : b \in UnreadableBlocks}
    BY <1>3 DEF Left, Nothing
  <2>. QED
    BY <2>1, <2>2
<1>6. read = <<account, "subscription", "">>
  BY <1>3 DEF Read
<1>7. written' = written /\ numbers' = numbers /\ gaps' = gaps \cup o.left
      /\ level' = level /\ estates' = estates
  BY <1>3, <1>5 DEF Settle
<1>8. account' = account + 1 /\ step' = 1 /\ found' = NothingFound
  BY <1>3 DEF LeaveSubscription, NextAccount
<1>9. failedReads' = failedReads \cup {read}
  BY <1>3 DEF Fail
<1>10. unreadable' = [unreadable EXCEPT ![account] = why]
  BY <1>3
<1>. QED
  BY <1>2, <1>4, <1>5, <1>6, <1>7, <1>8, <1>9, <1>10, Zenon DEF Abandons

LEMMA ScopeOfUnreadable ==
  \A f \in Fields : f[1] \in UnreadableBlocks <=> InScope(f)
  BY DEF UnreadableBlocks, azureAccountBlocks, Blocks, InScope

LEMMA AbandonKeepsTurn ==
  ASSUME TurnInv, NEW read, NEW why, Abandons(read, why)
  PROVE  TurnInv'
<1>1. account \in 1..Len(estates) /\ Len(estates) \in Nat /\ step = 1
      /\ estates \in Configurations /\ DOMAIN unreadable = DOMAIN estates
  BY HereOk DEF TurnInv, PlaceOk, Abandons
<1>2. /\ estates' = estates /\ account' = account + 1 /\ step' = 1
      /\ DOMAIN unreadable' = DOMAIN unreadable
  BY DEF Abandons
<1>3. PlaceOk'
  BY <1>1, <1>2 DEF PlaceOk
<1>4. \A r \in failedReads' : r[1] \in 1..account
  <2>1. read[1] = account
    <3>1. read = <<account, "subscription", "">>
      BY Zenon DEF Abandons
    <3>. QED
      BY <3>1
  <2>2. failedReads' = failedReads \cup {read}
    BY Zenon DEF Abandons
  <2>. QED
    BY <1>1, <2>1, <2>2 DEF TurnInv, ReadsInTurn
<1>5. ReadsInTurn'
  BY <1>1, <1>2, <1>4 DEF ReadsInTurn
<1>6. SettledInTurn'
  <2>1. ASSUME NEW at, InTurn(at) PROVE InTurn(at)'
    BY <1>1, <1>2, <2>1 DEF InTurn
  <2>2. ASSUME NEW b, NEW at, at = Gap(b, why).at PROVE InTurn(at)'
    <3>1. at = <<account, b, Whole>>
      BY <2>2 DEF Gap
    <3>2. at = <<at[1], at[2], at[3]>> /\ at[1] = account
      BY <3>1
    <3>. QED
      BY <1>1, <1>2, <3>2 DEF InTurn
  <2>3. ASSUME NEW g \in gaps' PROVE InTurn(g.at)'
    <3>1. gaps' = gaps \cup {Gap(b, why) : b \in UnreadableBlocks}
      BY Zenon DEF Abandons
    <3>2. CASE g \in gaps
      BY <2>1, <3>2 DEF TurnInv, SettledInTurn
    <3>3. CASE g \notin gaps
      BY <2>2, <3>1, <3>3
    <3>. QED
      BY <3>2, <3>3
  <2>4. \A w \in written' : InTurn(w)'
    BY <2>1 DEF TurnInv, SettledInTurn, Abandons
  <2>5. \A n \in numbers' : n.at \in written'
    BY DEF TurnInv, SettledInTurn, Abandons
  <2>. QED
    BY <2>3, <2>4, <2>5 DEF SettledInTurn
<1>7. FoundInv'
  <2>1. found' = NothingFound /\ step' = 1 /\ \A r \in failedReads' : r[1] # account'
    <3>1. found' = NothingFound
      BY Zenon DEF Abandons
    <3>. QED
      BY <1>1, <1>2, <1>4, <3>1
  <2>2. FoundShape(NothingFound)
    BY DEF FoundShape, NothingFound
  <2>3. ListsKnown(failedReads, found)'
    BY <2>1 DEF ListsKnown, Knows, NothingFound
  <2>4. ListsComplete(step, found)'
    BY <2>1 DEF ListsComplete
  <2>5. FoundShape(found)'
    BY <2>1, <2>2 DEF FoundShape
  <2>. QED
    BY <2>3, <2>4, <2>5 DEF FoundInv, FoundOk
<1>. QED
  BY <1>3, <1>5, <1>6, <1>7 DEF TurnInv

LEMMA StepsOfTheRun ==
  ASSUME TurnInv, [Next]_azureVars
  PROVE  \/ \E failing, o, fd : Advance(failing, o, fd) /\ Handles(failing, o, fd)
         \/ \E read, why : Abandons(read, why)
         \/ UNCHANGED azureVars
<1>1. CASE Handled
  BY <1>1, HandledAdvances
<1>2. CASE SubscriptionUnreadable
  BY <1>2, UnreadableAbandons
<1>3. CASE UNCHANGED azureVars
  BY <1>3
<1>4. Next => Handled \/ SubscriptionUnreadable
  BY SubscriptionHandled, DefenderHandled, RBACHandled, PolicyHandled, StorageHandled,
     KeyVaultHandled, ServersUnreadHandled, SQLHandled, ComputeHandled,
     VaultsUnreadHandled, NoVaultsHandled, BackupHandled, NetworkHandled,
     LoggingHandled, InventoryHandled, SkipInventoryHandled, Zenon DEF Next
<1>. QED
  BY <1>1, <1>2, <1>3, <1>4

LEMMA InitTurnInv ==
  Init => TurnInv
<1>. SUFFICES ASSUME Init PROVE TurnInv
  OBVIOUS
<1>1. estates \in Configurations /\ account = 1 /\ step = 1 /\ found = NothingFound
      /\ DOMAIN unreadable = DOMAIN estates
      /\ failedReads = {} /\ written = {} /\ numbers = {} /\ gaps = {}
  BY DEF Init
<1>2. Len(estates) \in Nat /\ Len(estates) # 0
  BY <1>1, ConfigurationsAssumption
<1>3. FoundInv
  BY <1>1 DEF FoundInv, FoundOk, FoundShape, ListsKnown, Knows, ListsComplete, NothingFound
<1>4. PlaceOk /\ ReadsInTurn /\ SettledInTurn
  BY <1>1, <1>2 DEF PlaceOk, ReadsInTurn, SettledInTurn
<1>. QED
  BY <1>3, <1>4 DEF TurnInv

LEMMA NextTurnInv ==
  TurnInv /\ [Next]_azureVars => TurnInv'
<1>. SUFFICES ASSUME TurnInv, [Next]_azureVars PROVE TurnInv'
  OBVIOUS
<1>1. CASE UNCHANGED azureVars
  BY <1>1 DEF azureVars, TurnInv, PlaceOk, ReadsInTurn, SettledInTurn, InTurn, FoundInv,
     FoundOk, FoundShape, ListsKnown, Knows, ListsComplete, estate
<1>. QED
  BY <1>1, StepsOfTheRun, AdvanceKeepsTurn, AbandonKeepsTurn

(* Every run is in turn: the reads, values and gaps are those of the       *)
(* handlers that have run, and what a later handler measures over is the   *)
(* whole list an earlier one read, or known not to be.                     *)
THEOREM RunIsInTurn == Spec => []TurnInv
<1>1. Init => TurnInv
  BY InitTurnInv
<1>2. TurnInv /\ [Next]_azureVars => TurnInv'
  BY NextTurnInv
<1>. QED
  BY <1>1, <1>2, PTL DEF Spec

-----------------------------------------------------------------------------
(* What a step does to the field of one subscription.                      *)
LEMMA ValuesNow ==
  ASSUME TurnInv, NEW failing, NEW o, NEW fd, Advance(failing, o, fd),
         Handles(failing, o, fd), NEW i, NEW f \in Fields
  PROVE  HasValue(i, f)' <=> HasValue(i, f) \/ (i = account /\ f \in o.fields)
<1>1. f = <<f[1], f[2]>>
  BY BlocksOfFields
<1>2. \A h \in o.fields : h = <<h[1], h[2]>>
  BY OutcomeIs
<1>3. <<i, f[1], f[2]>> \in {pointer(h) : h \in o.fields} <=> i = account /\ f \in o.fields
  <2>1. ASSUME NEW h \in o.fields, <<i, f[1], f[2]>> = pointer(h)
        PROVE  i = account /\ f = h
    <3>1. i = account /\ f[1] = h[1] /\ f[2] = h[2]
      BY <2>1 DEF pointer
    <3>. QED
      BY <1>1, <1>2, <3>1
  <2>2. i = account => <<i, f[1], f[2]>> = pointer(f)
    BY DEF pointer
  <2>. QED
    BY <2>1, <2>2
<1>4. written' = written \cup {pointer(h) : h \in o.fields}
  BY DEF Advance
<1>. QED
  BY <1>3, <1>4 DEF HasValue

(* A field of a handler yet to run has no value and no gap.                *)
LEMMA NothingYet ==
  ASSUME TurnInv, NEW f \in Fields, NEW k \in 2..12, f[1] = Steps[k], k >= step
  PROVE  ~HasValue(account, f) /\ GapsOf(account, f) = {}
<1>1. \A m, n \in 1..12 : Steps[m] = Steps[n] => m = n
  BY StepsAre
<1>2. step \in 1..12
  BY DEF TurnInv, PlaceOk
<1>3. ASSUME NEW at, InTurn(at), at[1] = account, at[2] = Steps[k] PROVE FALSE
  BY <1>1, <1>2, <1>3 DEF InTurn
<1>4. ~HasValue(account, f)
  <2>1. PICK at : at = <<account, f[1], f[2]>>
    OBVIOUS
  <2>2. at[1] = account /\ at[2] = Steps[k]
    BY <2>1
  <2>3. at \notin written
    BY <1>3, <2>2 DEF TurnInv, SettledInTurn
  <2>. QED
    BY <2>1, <2>3 DEF HasValue
<1>5. ASSUME NEW g \in gaps, Covers(g, account, f) PROVE FALSE
  <2>1. g.at[1] = account /\ g.at[2] = Steps[k]
    BY <1>5 DEF Covers
  <2>2. InTurn(g.at)
    BY DEF TurnInv, SettledInTurn
  <2>. QED
    BY <1>3, <2>1, <2>2
<1>. QED
  BY <1>4, <1>5 DEF GapsOf

(* A subscription the run has not come to has none either.                 *)
LEMMA NothingAhead ==
  ASSUME TurnInv, NEW f \in Fields, NEW i \in DOMAIN estates, i > account
  PROVE  ~HasValue(i, f) /\ GapsOf(i, f) = {}
<1>1. \A at : InTurn(at) => at[1] \in 1..account
  BY DEF InTurn
<1>2. i \notin 1..account
  BY HereOk DEF TurnInv, PlaceOk
<1>3. ~HasValue(i, f)
  <2>1. <<i, f[1], f[2]>>[1] = i
    OBVIOUS
  <2>. QED
    BY <1>1, <1>2, <2>1 DEF HasValue, TurnInv, SettledInTurn
<1>4. ASSUME NEW g \in gaps, Covers(g, i, f) PROVE FALSE
  <2>1. g.at[1] = i
    BY <1>4 DEF Covers
  <2>. QED
    BY <1>1, <1>2, <2>1 DEF TurnInv, SettledInTurn
<1>. QED
  BY <1>3, <1>4 DEF GapsOf

(* The gaps of a field change only when its handler runs.                  *)
LEMMA GapsNow ==
  ASSUME TurnInv, NEW failing, NEW o, NEW fd, Advance(failing, o, fd),
         Handles(failing, o, fd), NEW i, NEW f \in Fields
  PROVE  /\ i = account => GapsOf(i, f)' = GapsOf(i, f) \cup {g \in o.left : Covers(g, i, f)}
         /\ i # account \/ f \notin DueHere => GapsOf(i, f)' = GapsOf(i, f)
<1>1. GapsOf(i, f)' = GapsOf(i, f) \cup {g \in o.left : Covers(g, i, f)}
  BY DEF Advance, GapsOf, Covers
<1>2. ASSUME NEW g \in o.left, Covers(g, i, f) PROVE i = account /\ f \in DueHere
  <2>1. g.at[1] = i
    BY <1>2 DEF Covers
  <2>2. g.at[1] = account
    <3>1. g.at = <<account, Steps[step], g.at[3]>>
      BY OutcomeIs
    <3>. QED
      BY <3>1
  <2>3. Covers(g, account, f) => f \in DueHere
    BY OutcomeIs
  <2>. QED
    BY <1>2, <2>1, <2>2, <2>3
<1>. QED
  BY <1>1, <1>2

(* A field is due once its handler has run in the subscription's turn, or  *)
(* once the turn is over.                                                  *)
LEMMA DueNow ==
  ASSUME TurnInv, NEW failing, NEW o, NEW fd, Advance(failing, o, fd),
         Handles(failing, o, fd), NEW i \in Int, NEW f \in Fields
  PROVE  Due(i, f)' <=> Due(i, f) \/ (i = account /\ f \in DueHere)
<1>0. account \in 1..Len(estates) + 1 /\ step \in 1..12 /\ DOMAIN estates = 1..Len(estates)
      /\ Len(estates) \in Nat
  BY HereOk DEF TurnInv, PlaceOk
<1>1. PICK k \in 2..12 : f[1] = Steps[k]
  BY BlocksOfFields
<1>2. StepOf(f[1]) = k
  BY <1>1, StepsAre
<1>3. /\ InScope(f)' <=> InScope(f)
      /\ \/ step = 12 /\ account' = account + 1 /\ step' = 1
         \/ step < 12 /\ account' = account /\ step' = step + 1
  BY DEF Advance, InScope, audit
<1>4. f \in DueHere <=> InScope(f) /\ k = step
  BY <1>0, <1>1, StepsAre DEF DueHere
<1>. QED
  BY <1>0, <1>2, <1>3, <1>4 DEF Due

(* An unreadable subscription leaves a gap at each of its fields.          *)
LEMMA AbandonLeaves ==
  ASSUME TurnInv, NEW read, NEW why, Abandons(read, why), NEW i \in Int, NEW f \in Fields
  PROVE  /\ HasValue(i, f)' <=> HasValue(i, f)
         /\ Due(i, f)' <=> Due(i, f) \/ (i = account /\ InScope(f))
         /\ i = account /\ InScope(f) => GapsOf(i, f)' = {Gap(f[1], why)} /\ ~HasValue(i, f)
         /\ ~(i = account /\ InScope(f)) => GapsOf(i, f)' = GapsOf(i, f)
<1>0. account \in 1..Len(estates) + 1 /\ step \in 1..12 /\ Len(estates) \in Nat
  BY HereOk DEF TurnInv, PlaceOk
<1>1. PICK k \in 2..12 : f[1] = Steps[k]
  BY BlocksOfFields
<1>2. StepOf(f[1]) = k
  BY <1>1, StepsAre
<1>3. /\ written' = written /\ gaps' = gaps \cup {Gap(b, why) : b \in UnreadableBlocks}
      /\ step = 1 /\ account' = account + 1 /\ step' = 1 /\ estates' = estates
      /\ level' = level
  BY Zenon DEF Abandons
<1>4. InScope(f)' <=> InScope(f)
  BY <1>3 DEF InScope, audit
<1>5. HasValue(i, f)' <=> HasValue(i, f)
  BY <1>3 DEF HasValue
<1>6. \A b : Covers(Gap(b, why), i, f) <=> i = account /\ b = f[1]
  BY BlocksOfFields DEF Covers, Gap
<1>7. GapsOf(i, f)' =
        GapsOf(i, f) \cup (IF i = account /\ InScope(f) THEN {Gap(f[1], why)} ELSE {})
  <2>1. GapsOf(i, f)' = GapsOf(i, f)
          \cup {g \in {Gap(b, why) : b \in UnreadableBlocks} : Covers(g, i, f)}
    BY <1>3 DEF GapsOf, Covers
  <2>2. {g \in {Gap(b, why) : b \in UnreadableBlocks} : Covers(g, i, f)} =
          IF i = account /\ InScope(f) THEN {Gap(f[1], why)} ELSE {}
    BY <1>6, ScopeOfUnreadable
  <2>. QED
    BY <2>1, <2>2
<1>8. Due(i, f)' <=> Due(i, f) \/ (i = account /\ InScope(f))
  <2>1. step = 1 /\ account' = account + 1 /\ step' = 1
    BY <1>3, Zenon
  <2>. QED
    BY <1>0, <1>2, <1>4, <2>1 DEF Due
<1>9. i = account => ~HasValue(i, f) /\ GapsOf(i, f) = {}
  <2>1. step = 1
    BY <1>3, Zenon
  <2>2. k >= step
    BY <2>1
  <2>. QED
    BY <1>1, <2>2, NothingYet
<1>. QED
  BY <1>5, <1>7, <1>8, <1>9

RestOn(r, f) ==
  r[2] \in Sources(f) \ Settings =>
    ~HasValue(r[1], f) /\ (Due(r[1], f) => GapsOf(r[1], f) # {})

(* Whether the read fails now, which its own handler minds, or failed      *)
(* before, which a later handler does.                                     *)
LEMMA NextRests ==
  TurnInv /\ ValuesRestOnTheirReads /\ [Next]_azureVars => ValuesRestOnTheirReads'
<1>. SUFFICES ASSUME TurnInv, ValuesRestOnTheirReads, [Next]_azureVars
     PROVE ValuesRestOnTheirReads'
  OBVIOUS
<1>0. \A r \in failedReads, f \in Fields : RestOn(r, f)
  BY DEF ValuesRestOnTheirReads, RestOn
<1>. SUFFICES \A r \in failedReads', f \in Fields : RestOn(r, f)'
  BY DEF ValuesRestOnTheirReads, RestOn
<1>. SUFFICES ASSUME NEW r \in failedReads', NEW f \in Fields, r[2] \in Sources(f) \ Settings
     PROVE  ~HasValue(r[1], f)' /\ (Due(r[1], f)' => GapsOf(r[1], f)' # {})
  BY DEF RestOn
<1>4. r \in failedReads => r[1] \in Int
  <2>1. r \in failedReads => r[1] \in 1..account
    BY DEF TurnInv, ReadsInTurn
  <2>2. account \in Int
    BY DEF TurnInv, PlaceOk
  <2>. QED
    BY <2>1, <2>2
<1>5. account \in Int /\ step \in 1..12
  BY DEF TurnInv, PlaceOk
<1>6. r \in failedReads =>
        ~HasValue(r[1], f) /\ (Due(r[1], f) => GapsOf(r[1], f) # {})
  BY <1>0 DEF RestOn
<1>1. ASSUME NEW failing, NEW o, NEW fd, Advance(failing, o, fd), Handles(failing, o, fd)
      PROVE  ~HasValue(r[1], f)' /\ (Due(r[1], f)' => GapsOf(r[1], f)' # {})
  <2>1. r \in failedReads \/ r \in failing
    BY <1>1 DEF Advance
  <2>2. r \in failing => r[1] = account /\ r[2] \in ReadsOf[step] /\ step > 1
    BY <1>1 DEF Handles
  <2>3. r[1] \in Int
    BY <1>4, <1>5, <2>1, <2>2
  <2>4. /\ HasValue(r[1], f)' <=> HasValue(r[1], f) \/ (r[1] = account /\ f \in o.fields)
        /\ Due(r[1], f)' <=> Due(r[1], f) \/ (r[1] = account /\ f \in DueHere)
    BY <1>1, <2>3, ValuesNow, DueNow
  <2>5. f \in o.fields => f \in DueHere
    BY <1>1, OutcomeIs, FieldsOfBlocks
  <2>6. CASE r[1] = account /\ f \in DueHere
    <3>. DEFINE of == {g \in o.left : Covers(g, account, f)}
    <3>1. Settled(f, failing, o)
      BY <1>1, <2>6, OutcomeIs
    <3>2. ~RestsOnReads(f, failing)
      BY <2>1, <2>6 DEF RestsOnReads
    <3>3. f \notin o.fields /\ of # {}
      BY <3>1, <3>2 DEF Settled
    <3>4. GapsOf(r[1], f)' = GapsOf(r[1], f) \cup of
      BY <1>1, <2>6, GapsNow
    <3>5. ~HasValue(account, f)
      <4>1. PICK k \in 2..12 : f[1] = Steps[k]
        BY BlocksOfFields
      <4>2. k = step
        BY <1>5, <2>6, <4>1, StepsAre DEF DueHere
      <4>. QED
        BY <1>5, <4>1, <4>2, NothingYet
    <3>. HIDE DEF of
    <3>6. GapsOf(r[1], f)' # {}
      BY <3>3, <3>4
    <3>. QED
      BY <2>4, <2>6, <3>3, <3>5, <3>6
  <2>7. CASE ~(r[1] = account /\ f \in DueHere) /\ r \in failedReads
    <3>1. GapsOf(r[1], f)' = GapsOf(r[1], f)
      BY <1>1, <2>7, GapsNow
    <3>. QED
      BY <1>6, <2>4, <2>5, <2>7, <3>1
  <2>8. CASE ~(r[1] = account /\ f \in DueHere) /\ r \in failing
    <3>1. r[1] = account /\ r[2] \in ReadsOf[step] /\ step > 1
      BY <2>2, <2>8
    <3>2. PICK k \in 2..12 : f[1] = Steps[k]
      BY BlocksOfFields
    <3>3. ~(step > k)
      BY <1>5, <3>1, <3>2, SourcesComeFirst
    <3>4. ~HasValue(r[1], f)
      BY <1>5, <3>1, <3>2, <3>3, NothingYet
    <3>5. ~Due(r[1], f)
      <4>1. StepOf(f[1]) = k
        BY <3>2, StepsAre
      <4>. QED
        BY <1>5, <3>1, <3>3, <4>1 DEF Due
    <3>. QED
      BY <2>4, <2>5, <2>8, <3>4, <3>5
  <2>. QED
    BY <2>1, <2>6, <2>7, <2>8
<1>2. ASSUME NEW read, NEW why, Abandons(read, why)
      PROVE  ~HasValue(r[1], f)' /\ (Due(r[1], f)' => GapsOf(r[1], f)' # {})
  <2>1. /\ failedReads' = failedReads \cup {read} /\ step = 1
        /\ read = <<account, "subscription", "">>
    BY <1>2, Zenon DEF Abandons
  <2>2. read[1] = account
    BY <2>1
  <2>3. r \in failedReads \/ r = read
    BY <2>1
  <2>4. r[1] \in Int
    BY <1>4, <1>5, <2>2, <2>3
  <2>5. /\ HasValue(r[1], f)' <=> HasValue(r[1], f)
        /\ Due(r[1], f)' <=> Due(r[1], f) \/ (r[1] = account /\ InScope(f))
        /\ r[1] = account /\ InScope(f) =>
             GapsOf(r[1], f)' = {Gap(f[1], why)} /\ ~HasValue(r[1], f)
        /\ ~(r[1] = account /\ InScope(f)) => GapsOf(r[1], f)' = GapsOf(r[1], f)
    BY <1>2, <2>4, AbandonLeaves
  <2>6. r = read => ~HasValue(r[1], f)
    <3>1. PICK k \in 2..12 : f[1] = Steps[k]
      BY BlocksOfFields
    <3>2. k >= step
      <4>1. step = 1
        BY <2>1, Zenon
      <4>. QED
        BY <4>1
    <3>. QED
      BY <2>2, <3>1, <3>2, NothingYet
  <2>7. Due(r[1], f) => InScope(f)
    BY DEF Due
  <2>8. CASE r[1] = account /\ InScope(f)
    BY <2>5, <2>8
  <2>9. CASE ~(r[1] = account /\ InScope(f))
    <3>1. r \in failedReads \/ ~InScope(f)
      BY <2>2, <2>3, <2>9
    <3>. QED
      BY <1>6, <2>3, <2>5, <2>6, <2>7, <2>9, <3>1
  <2>. QED
    BY <2>8, <2>9
<1>3. ASSUME UNCHANGED azureVars
      PROVE  ~HasValue(r[1], f)' /\ (Due(r[1], f)' => GapsOf(r[1], f)' # {})
  <2>1. /\ failedReads' = failedReads
        /\ HasValue(r[1], f)' <=> HasValue(r[1], f)
        /\ Due(r[1], f)' <=> Due(r[1], f)
        /\ GapsOf(r[1], f)' = GapsOf(r[1], f)
    BY <1>3 DEF azureVars, Due, InScope, audit, HasValue, GapsOf, Covers
  <2>. QED
    BY <1>6, <2>1
<1>. QED
  BY <1>1, <1>2, <1>3, StepsOfTheRun

(* No field of any subscription is written, or null without a gap, after a *)
(* read it is taken from failed, whether its own handler made the read or  *)
(* an earlier one.                                                         *)
THEOREM ValuesRest == Spec => []ValuesRestOnTheirReads
<1>1. Init => ValuesRestOnTheirReads
  BY DEF Init, ValuesRestOnTheirReads
<1>2. TurnInv /\ ValuesRestOnTheirReads /\ [Next]_azureVars => ValuesRestOnTheirReads'
  BY NextRests
<1>. QED
  BY <1>1, <1>2, RunIsInTurn, PTL DEF Spec

LEMMA NextNumbers ==
  TurnInv /\ NumbersAreTrue /\ [Next]_azureVars => NumbersAreTrue'
<1>. SUFFICES ASSUME TurnInv, NumbersAreTrue, [Next]_azureVars PROVE NumbersAreTrue'
  OBVIOUS
<1>1. ASSUME NEW failing, NEW o, NEW fd, Advance(failing, o, fd), Handles(failing, o, fd)
      PROVE  NumbersAreTrue'
  <2>1. numbers' = numbers \cup o.nums /\ estates' = estates
    BY <1>1 DEF Advance
  <2>2. ASSUME NEW n \in o.nums
        PROVE  n.num = Truth(estates[n.at[1]], <<n.at[2], n.at[3]>>)
    <3>1. TrueOf(n, o)
      BY <1>1, OutcomeIs
    <3>2. PICK f \in o.fields : n.at = pointer(f) /\ n.num = Truth(estate, f)
      BY <3>1 DEF TrueOf
    <3>3. f = <<f[1], f[2]>>
      BY <1>1, OutcomeIs
    <3>4. n.at[1] = account /\ n.at[2] = f[1] /\ n.at[3] = f[2]
      BY <3>2 DEF pointer
    <3>5. <<n.at[2], n.at[3]>> = f
      BY <3>3, <3>4
    <3>. QED
      BY <3>2, <3>4, <3>5 DEF estate
  <2>. QED
    BY <2>1, <2>2 DEF NumbersAreTrue
<1>2. ASSUME NEW read, NEW why, Abandons(read, why) PROVE NumbersAreTrue'
  <2>1. numbers' = numbers /\ estates' = estates
    BY <1>2, Zenon DEF Abandons
  <2>. QED
    BY <2>1 DEF NumbersAreTrue
<1>3. CASE UNCHANGED azureVars
  BY <1>3 DEF azureVars, NumbersAreTrue
<1>. QED
  BY <1>1, <1>2, <1>3, StepsOfTheRun

(* The numbers put together from several reads are those of the whole      *)
(* subscription, whichever reads failed around them.                       *)
THEOREM NumbersHold == Spec => []NumbersAreTrue
<1>1. Init => NumbersAreTrue
  BY DEF Init, NumbersAreTrue
<1>2. TurnInv /\ NumbersAreTrue /\ [Next]_azureVars => NumbersAreTrue'
  BY NextNumbers
<1>. QED
  BY <1>1, <1>2, RunIsInTurn, PTL DEF Spec

Explained(i, f) ==
  CASE Due(i, f) /\ HasValue(i, f) ->
         GapsOf(i, f) = {} /\ ~EmptyPopulation(estates[i], f)
    [] Due(i, f) /\ ~HasValue(i, f) ->
         \/ Cardinality(GapsOf(i, f)) = 1
         \/ GapsOf(i, f) = {} /\ EmptyPopulation(estates[i], f)
    [] OTHER -> ~HasValue(i, f) /\ GapsOf(i, f) = {}

LEMMA ExplainedIs ==
  AzureNullsExplained <=> \A i \in DOMAIN estates, f \in Fields : Explained(i, f)
  BY DEF AzureNullsExplained, Explained

LEMMA NextExplained ==
  TurnInv /\ AzureNullsExplained /\ [Next]_azureVars => AzureNullsExplained'
<1>. SUFFICES ASSUME TurnInv, AzureNullsExplained, [Next]_azureVars
     PROVE AzureNullsExplained'
  OBVIOUS
<1>0. account \in 1..Len(estates) + 1 /\ step \in 1..12 /\ DOMAIN estates = 1..Len(estates)
      /\ Len(estates) \in Nat
  BY HereOk DEF TurnInv, PlaceOk
<1>1. ASSUME NEW failing, NEW o, NEW fd, Advance(failing, o, fd), Handles(failing, o, fd),
             NEW i \in DOMAIN estates, NEW f \in Fields
      PROVE  Explained(i, f)'
  <2>1. PICK k \in 2..12 : f[1] = Steps[k]
    BY BlocksOfFields
  <2>2. StepOf(f[1]) = k
    BY <2>1, StepsAre
  <2>3. /\ estates' = estates /\ (InScope(f)' <=> InScope(f))
        /\ \/ step = 12 /\ account' = account + 1 /\ step' = 1
           \/ step < 12 /\ account' = account /\ step' = step + 1
    BY <1>1 DEF Advance, InScope, audit
  <2>4. f \in DueHere <=> InScope(f) /\ k = step
    BY <1>0, <2>1, StepsAre DEF DueHere
  <2>5. Explained(i, f)
    BY ExplainedIs
  <2>6. CASE i = account /\ f \in DueHere
    <3>1. Due(i, f)'
      BY <1>0, <2>2, <2>3, <2>4, <2>6 DEF Due
    <3>2. ~HasValue(i, f) /\ GapsOf(i, f) = {}
      BY <1>0, <2>1, <2>4, <2>6, NothingYet
    <3>. DEFINE of == {g \in o.left : Covers(g, account, f)}
    <3>3. GapsOf(i, f)' = of
      BY <1>1, <2>6, <3>2, GapsNow
    <3>4. HasValue(i, f)' <=> f \in o.fields
      BY <1>1, <2>6, <3>2, ValuesNow
    <3>5. \/ f \in o.fields /\ of = {} /\ ~EmptyPopulation(estate, f)
          \/ f \notin o.fields /\ \E g : of = {g}
          \/ f \notin o.fields /\ of = {} /\ EmptyPopulation(estate, f)
      <4>1. Settled(f, failing, o)
        BY <1>1, <2>6, OutcomeIs
      <4>. QED
        BY <4>1, Zenon DEF Settled
    <3>. HIDE DEF of
    <3>6. \A g : of = {g} => Cardinality(of) = 1
      BY FS_Singleton
    <3>7. EmptyPopulation(estate, f) <=> EmptyPopulation(estates[i], f)
      BY <2>6 DEF estate
    <3>. QED
      BY <2>3, <3>1, <3>3, <3>4, <3>5, <3>6, <3>7 DEF Explained
  <2>7. CASE ~(i = account /\ f \in DueHere)
    <3>1. GapsOf(i, f)' = GapsOf(i, f)
      BY <1>1, <2>7, GapsNow
    <3>2. HasValue(i, f)' <=> HasValue(i, f)
      <4>1. f \in o.fields => f \in DueHere
        BY <1>1, OutcomeIs, FieldsOfBlocks
      <4>. QED
        BY <1>1, <2>7, <4>1, ValuesNow
    <3>3. Due(i, f)' <=> Due(i, f)
      BY <1>0, <2>2, <2>3, <2>4, <2>7 DEF Due
    <3>. QED
      BY <2>3, <2>5, <3>1, <3>2, <3>3 DEF Explained
  <2>. QED
    BY <2>6, <2>7
<1>2. ASSUME NEW read, NEW why, Abandons(read, why), NEW i \in DOMAIN estates, NEW f \in Fields
      PROVE  Explained(i, f)'
  <2>1. Explained(i, f) /\ i \in Int
    BY <1>0, ExplainedIs
  <2>2. estates' = estates
    BY <1>2, Zenon DEF Abandons
  <2>3. /\ HasValue(i, f)' <=> HasValue(i, f)
        /\ Due(i, f)' <=> Due(i, f) \/ (i = account /\ InScope(f))
        /\ i = account /\ InScope(f) => GapsOf(i, f)' = {Gap(f[1], why)} /\ ~HasValue(i, f)
        /\ ~(i = account /\ InScope(f)) => GapsOf(i, f)' = GapsOf(i, f)
    BY <1>2, <2>1, AbandonLeaves
  <2>4. CASE i = account /\ InScope(f)
    <3>1. Cardinality(GapsOf(i, f)') = 1
      BY <2>3, <2>4, FS_Singleton
    <3>. QED
      BY <2>3, <2>4, <3>1 DEF Explained
  <2>5. CASE ~(i = account /\ InScope(f))
    BY <2>1, <2>2, <2>3, <2>5 DEF Explained
  <2>. QED
    BY <2>4, <2>5
<1>3. ASSUME \A i \in DOMAIN estates, f \in Fields : Explained(i, f)', estates' = estates
      PROVE  AzureNullsExplained'
  BY <1>3 DEF AzureNullsExplained, Explained
<1>4. ASSUME UNCHANGED azureVars, NEW i \in DOMAIN estates, NEW f \in Fields
      PROVE  Explained(i, f)'
  <2>1. Explained(i, f)
    BY ExplainedIs
  <2>2. /\ Due(i, f)' <=> Due(i, f)
        /\ HasValue(i, f)' <=> HasValue(i, f)
        /\ GapsOf(i, f)' = GapsOf(i, f) /\ estates' = estates
    BY <1>4 DEF azureVars, Due, InScope, audit, HasValue, GapsOf, Covers
  <2>. QED
    BY <2>1, <2>2 DEF Explained
<1>7. UNCHANGED azureVars => estates' = estates
  BY DEF azureVars
<1>5. \A failing, o, fd : Advance(failing, o, fd) => estates' = estates
  BY DEF Advance
<1>6. \A read, why : Abandons(read, why) => estates' = estates
  BY Zenon DEF Abandons
<1>. QED
  BY <1>1, <1>2, <1>3, <1>4, <1>5, <1>6, <1>7, StepsOfTheRun

LEMMA InitExplained ==
  Init => AzureNullsExplained
<1>. SUFFICES ASSUME Init, NEW i \in DOMAIN estates, NEW f \in Fields PROVE Explained(i, f)
  BY ExplainedIs
<1>1. account = 1 /\ step = 1 /\ written = {} /\ gaps = {}
  BY DEF Init
<1>2. PICK k \in 2..12 : f[1] = Steps[k]
  BY BlocksOfFields
<1>3. StepOf(f[1]) = k
  BY <1>2, StepsAre
<1>4. DOMAIN estates \in SUBSET Nat /\ ~(1 > i)
  <2>1. DOMAIN estates = 1..Len(estates) /\ Len(estates) \in Nat
    BY ConfigurationsAssumption DEF Init
  <2>. QED
    BY <2>1
<1>5. ~Due(i, f) /\ ~HasValue(i, f) /\ GapsOf(i, f) = {}
  BY <1>1, <1>3, <1>4 DEF Due, HasValue, GapsOf
<1>. QED
  BY <1>5 DEF Explained

(* Every field in scope whose handler has run has a value, or exactly one  *)
(* gap, or is a null over the empty population it is documented for, and   *)
(* stays so whatever happens to the rest of the run.                       *)
THEOREM NullsAreExplained == Spec => []AzureNullsExplained
<1>1. TurnInv /\ AzureNullsExplained /\ [Next]_azureVars => AzureNullsExplained'
  BY NextExplained
<1>. QED
  BY InitExplained, <1>1, RunIsInTurn, PTL DEF Spec

(* What a gap counts is counted once and for all when its handler runs.    *)
CauseOf(g, reads) ==
  /\ g.why.about \in reads /\ g.why.about[1] = g.at[1]
  /\ \A f \in Fields : Covers(g, g.at[1], f) => g.why.about[2] \in Sources(f)
  /\ g.unmeasured > 0 => g.unmeasured = Unmeasured(g.why.about, reads)

LEMMA CausesAre ==
  AzureGapsNameTheirCause <=> \A g \in gaps : CauseOf(g, failedReads)
<1>1. \A i, id : Undecided(i, id) <=> UndecidedBy(i, id, failedReads)
  BY DEF Undecided, UndecidedBy
<1>2. \A i : {id \in Monitored(estates[i]) : Undecided(i, id)} =
               {id \in Monitored(estates[i]) : UndecidedBy(i, id, failedReads)}
  BY <1>1
<1>3. \A g : CauseOf(g, failedReads) <=>
        LET i == g.at[1]
            name == g.why.about[2]
        IN /\ g.why.about \in failedReads
           /\ g.why.about[1] = i
           /\ \A f \in Fields : Covers(g, i, f) => name \in Sources(f)
           /\ g.unmeasured > 0 =>
                g.unmeasured =
                  IF name \in Settings
                  THEN Cardinality({id \in Monitored(estates[i]) : Undecided(i, id)})
                  ELSE Cardinality({r \in failedReads : r[1] = i /\ r[2] = name})
  <2>. SUFFICES ASSUME NEW g
       PROVE  CauseOf(g, failedReads) <=>
        LET i == g.at[1]
            name == g.why.about[2]
        IN /\ g.why.about \in failedReads
           /\ g.why.about[1] = i
           /\ \A f \in Fields : Covers(g, i, f) => name \in Sources(f)
           /\ g.unmeasured > 0 =>
                g.unmeasured =
                  IF name \in Settings
                  THEN Cardinality({id \in Monitored(estates[i]) : Undecided(i, id)})
                  ELSE Cardinality({r \in failedReads : r[1] = i /\ r[2] = name})
    OBVIOUS
  <2>. DEFINE about == g.why.about
              i == g.at[1]
              m == Cardinality({id \in Monitored(estates[i]) : Undecided(i, id)})
              n == Cardinality({r \in failedReads : r[1] = i /\ r[2] = about[2]})
  <2>1. about[1] = i => Unmeasured(about, failedReads) = IF about[2] \in Settings THEN m ELSE n
    BY <1>2 DEF Unmeasured
  <2>. HIDE DEF m, n
  <2>2. CauseOf(g, failedReads) <=>
          /\ about \in failedReads /\ about[1] = i
          /\ \A f \in Fields : Covers(g, i, f) => about[2] \in Sources(f)
          /\ g.unmeasured > 0 => g.unmeasured = IF about[2] \in Settings THEN m ELSE n
    BY <2>1 DEF CauseOf
  <2>. QED
    BY <2>2 DEF m, n
<1>. QED
  BY <1>3 DEF AzureGapsNameTheirCause

(* The later reads of a run are not those a gap already counted.           *)
LEMMA CountsAreKept ==
  ASSUME TurnInv, NEW about \in failedReads, NEW failing,
         \A r \in failing : r[1] = account /\ r[2] \in ReadsOf[step]
  PROVE  Unmeasured(about, failedReads \cup failing) = Unmeasured(about, failedReads)
<1>1. \A r \in failing : r[1] = about[1] => r[2] # about[2]
  BY FreshReads
<1>2. ASSUME about[2] \in Settings, NEW r \in failing, r[1] = about[1]
      PROVE  r[2] \notin Settings
  <2>1. about[1] = account /\ r[2] \in ReadsOf[step]
    BY <1>2
  <2>2. PICK k \in 2..step - 1 : about[2] \in ReadsOf[k]
    BY <2>1 DEF TurnInv, ReadsInTurn
  <2>3. step \in 1..12 /\ k \in 1..12 /\ k < step
    BY DEF TurnInv, PlaceOk
  <2>4. Settings \subseteq ReadsOf[11]
    BY ReadNames DEF Settings
  <2>5. k = 11
    BY <1>2, <2>2, <2>3, <2>4, ReadsAreOfOneHandler
  <2>. QED
    BY <2>1, <2>3, <2>4, <2>5, ReadsAreOfOneHandler
<1>3. CASE about[2] \in Settings
  <2>1. ASSUME NEW id PROVE UndecidedBy(about[1], id, failedReads \cup failing) <=>
                              UndecidedBy(about[1], id, failedReads)
    <3>1. ASSUME NEW s \in Settings
          PROVE  <<about[1], s, id>> \in failedReads \cup failing
                   <=> <<about[1], s, id>> \in failedReads
      <4>1. PICK r : r = <<about[1], s, id>>
        OBVIOUS
      <4>2. r[1] = about[1] /\ r[2] = s
        BY <4>1
      <4>3. r \notin failing
        BY <1>2, <1>3, <4>2
      <4>. QED
        BY <4>1, <4>3
    <3>2. {s \in Settings : <<about[1], s, id>> \in failedReads \cup failing} =
            {s \in Settings : <<about[1], s, id>> \in failedReads}
      BY <3>1
    <3>. QED
      BY <3>2 DEF UndecidedBy
  <2>. QED
    BY <1>3, <2>1 DEF Unmeasured
<1>4. CASE about[2] \notin Settings
  <2>1. {r \in failedReads \cup failing : r[1] = about[1] /\ r[2] = about[2]} =
          {r \in failedReads : r[1] = about[1] /\ r[2] = about[2]}
    BY <1>1
  <2>. QED
    BY <1>4, <2>1 DEF Unmeasured
<1>. QED
  BY <1>3, <1>4

LEMMA NextCauses ==
  TurnInv /\ AzureGapsNameTheirCause /\ [Next]_azureVars => AzureGapsNameTheirCause'
<1>. SUFFICES ASSUME TurnInv, \A g \in gaps : CauseOf(g, failedReads), [Next]_azureVars
     PROVE (\A g \in gaps : CauseOf(g, failedReads))'
  <2>1. (\A g \in gaps : CauseOf(g, failedReads))' <=> AzureGapsNameTheirCause'
    BY CausesAre, PTL
  <2>. QED
    BY <2>1, CausesAre
<1>1. ASSUME NEW failing, NEW o, NEW fd, Advance(failing, o, fd), Handles(failing, o, fd),
             NEW g \in gaps'
      PROVE  CauseOf(g, failedReads)'
  <2>1. failedReads' = failedReads \cup failing /\ gaps' = gaps \cup o.left
        /\ estates' = estates
    BY <1>1 DEF Advance
  <2>2. \A r \in failing : r[1] = account /\ r[2] \in ReadsOf[step]
    BY <1>1 DEF Handles
  <2>3. CauseOf(g, failedReads)' <=> CauseOf(g, failedReads \cup failing)
    BY <2>1 DEF CauseOf, Unmeasured, UndecidedBy, Covers
  <2>4. CASE g \in gaps
    <3>1. CauseOf(g, failedReads)
      BY <2>4
    <3>2. Unmeasured(g.why.about, failedReads \cup failing) =
            Unmeasured(g.why.about, failedReads)
      BY <2>2, <3>1, CountsAreKept DEF CauseOf
    <3>. QED
      BY <2>3, <3>1, <3>2 DEF CauseOf
  <2>5. CASE g \in o.left
    <3>1. g.at = <<account, Steps[step], g.at[3]>> /\ Names(g, failedReads \cup failing)
      BY <1>1, <2>5, OutcomeIs
    <3>2. g.at[1] = account
      BY <3>1
    <3>. QED
      BY <2>3, <3>1, <3>2 DEF CauseOf, Names
  <2>. QED
    BY <2>1, <2>4, <2>5
<1>2. ASSUME NEW read, NEW why, Abandons(read, why), NEW g \in gaps'
      PROVE  CauseOf(g, failedReads)'
  <2>1. /\ failedReads' = failedReads \cup {read} /\ estates' = estates
        /\ gaps' = gaps \cup {Gap(b, why) : b \in UnreadableBlocks}
    BY <1>2, Zenon DEF Abandons
  <2>2. /\ read = <<account, "subscription", "">> /\ step = 1 /\ why.about = read
    BY <1>2, Zenon DEF Abandons
  <2>3. read[1] = account /\ read[2] = "subscription"
    <3>1. \A r, a, b, c : r = <<a, b, c>> => r[1] = a /\ r[2] = b
      OBVIOUS
    <3>. QED
      BY <2>2, <3>1, Zenon
  <2>4. CauseOf(g, failedReads)' <=> CauseOf(g, failedReads \cup {read})
    BY <2>1 DEF CauseOf, Unmeasured, UndecidedBy, Covers
  <2>5. CASE g \in gaps
    <3>1. CauseOf(g, failedReads)
      BY <2>5
    <3>2. \A r \in {read} : r[1] = account /\ r[2] \in ReadsOf[step]
      BY <2>2, <2>3 DEF ReadsOf
    <3>3. Unmeasured(g.why.about, failedReads \cup {read}) =
            Unmeasured(g.why.about, failedReads)
      BY <3>1, <3>2, CountsAreKept DEF CauseOf
    <3>. QED
      BY <2>4, <3>1, <3>3 DEF CauseOf
  <2>6. CASE g \notin gaps
    <3>1. PICK b : g = Gap(b, why)
      BY <2>1, <2>6
    <3>2. g.at = <<account, b, Whole>> /\ g.why = why /\ g.unmeasured = 0
      BY <3>1 DEF Gap
    <3>3. g.at[1] = account /\ ~(g.unmeasured > 0)
      BY <3>2
    <3>4. \A f \in Fields : "subscription" \in Sources(f)
      BY BlocksOfFields, SourcesComeFirst
    <3>5. g.why.about = read
      BY <2>2, <3>2
    <3>. QED
      BY <2>3, <2>4, <3>3, <3>4, <3>5 DEF CauseOf
  <2>. QED
    BY <2>5, <2>6
<1>3. ASSUME UNCHANGED azureVars, NEW g \in gaps'
      PROVE  CauseOf(g, failedReads)'
  <2>1. failedReads' = failedReads /\ estates' = estates /\ gaps' = gaps
    BY <1>3 DEF azureVars
  <2>2. CauseOf(g, failedReads)' <=> CauseOf(g, failedReads)
    BY <2>1 DEF CauseOf, Unmeasured, UndecidedBy, Covers
  <2>. QED
    BY <2>1, <2>2
<1>. QED
  BY <1>1, <1>2, <1>3, StepsOfTheRun

(* Every gap names a read of its own subscription that did fail and that   *)
(* each field it covers is taken from, and counts what could not be        *)
(* measured as the whole run knows it, not only the handler that wrote it. *)
THEOREM GapsNameTheirCause == Spec => []AzureGapsNameTheirCause
<1>1. Init => AzureGapsNameTheirCause
  BY DEF Init, AzureGapsNameTheirCause
<1>2. TurnInv /\ AzureGapsNameTheirCause /\ [Next]_azureVars => AzureGapsNameTheirCause'
  BY NextCauses
<1>. QED
  BY <1>1, <1>2, RunIsInTurn, PTL DEF Spec

(* The invariant, for the modules that extend the collection.              *)
AzureInv ==
  TurnInv /\ AzureNullsExplained /\ ValuesRestOnTheirReads /\ AzureGapsNameTheirCause

LEMMA InitAzureInv == Init => AzureInv
  BY InitTurnInv, InitExplained
     DEF AzureInv, Init, ValuesRestOnTheirReads, AzureGapsNameTheirCause

LEMMA NextAzureInv == AzureInv /\ [Next]_azureVars => AzureInv'
  BY NextTurnInv, NextExplained, NextRests, NextCauses DEF AzureInv

(* A gap at the settings of a resource names one that failed just now.     *)
LEMMA NewGapsAre ==
  AzureInv /\ [Next]_azureVars =>
    \A g \in gaps' :
      /\ g.why.about \in failedReads' /\ g.why.about[1] = g.at[1]
      /\ g \notin gaps /\ g.why.about[2] \in Settings => g.why.about \notin failedReads
<1>. SUFFICES ASSUME AzureInv, [Next]_azureVars, NEW g \in gaps'
     PROVE  /\ g.why.about \in failedReads' /\ g.why.about[1] = g.at[1]
            /\ g \notin gaps /\ g.why.about[2] \in Settings => g.why.about \notin failedReads
  OBVIOUS
<1>1. TurnInv
  BY DEF AzureInv
<1>2. g.why.about \in failedReads' /\ g.why.about[1] = g.at[1]
  <2>1. AzureGapsNameTheirCause'
    BY NextAzureInv DEF AzureInv
  <2>. QED
    BY <2>1 DEF AzureGapsNameTheirCause
<1>3. ASSUME g \notin gaps, g.why.about[2] \in Settings, g.why.about \in failedReads
      PROVE  FALSE
  <2>1. ASSUME NEW failing, NEW o, NEW fd, Advance(failing, o, fd), Handles(failing, o, fd)
        PROVE  FALSE
    <3>1. g \in o.left
      BY <1>3, <2>1 DEF Advance
    <3>2. /\ g.at = <<account, Steps[step], g.at[3]>> /\ step > 1
          /\ Names(g, failedReads \cup failing)
          /\ \A f \in Fields : Covers(g, account, f) => f \in DueHere
      BY <1>1, <2>1, <3>1, OutcomeIs
    <3>3. PICK f \in DueHere : g.why.about[2] \in Sources(f)
      BY <3>2 DEF Names
    <3>4. g.why.about[1] = account
      BY <3>2 DEF Names
    <3>5. PICK k \in 2..step - 1 : g.why.about[2] \in ReadsOf[k]
      BY <1>1, <1>3, <3>4 DEF TurnInv, ReadsInTurn
    <3>6. k \in 1..12 /\ step \in 1..12 /\ k < step
      BY <1>1 DEF TurnInv, PlaceOk
    <3>7. k = 11
      <4>1. g.why.about[2] \in ReadsOf[11]
        BY <1>3 DEF ReadsOf, Settings
      <4>. QED
        BY <3>5, <3>6, <4>1, ReadsAreOfOneHandler
    <3>8. step = 12 /\ f \in Fields /\ f[1] = "inventory"
      BY <3>6, <3>7, StepNames DEF DueHere
    <3>9. g.why.about[2] \in {"subscription", "inventory"}
      BY <3>3, <3>8, BlockSources
    <3>. QED
      BY <1>3, <3>9 DEF Settings
  <2>2. ASSUME NEW read, NEW why, Abandons(read, why) PROVE FALSE
    <3>1. gaps' = gaps \cup {Gap(b, why) : b \in UnreadableBlocks}
      BY <2>2, Zenon DEF Abandons
    <3>2. PICK b : g = Gap(b, why)
      BY <1>3, <3>1
    <3>3. g.why = why
      BY <3>2 DEF Gap
    <3>4. why.about = <<account, "subscription", "">>
      BY <2>2, Zenon DEF Abandons
    <3>5. \A r, a, b1, c : r = <<a, b1, c>> => r[2] = b1
      OBVIOUS
    <3>6. g.why.about[2] = "subscription"
      BY <3>3, <3>4, <3>5, Zenon
    <3>. QED
      BY <1>3, <3>6 DEF Settings
  <2>3. UNCHANGED azureVars => FALSE
    BY <1>3 DEF azureVars
  <2>. QED
    BY <1>1, <2>1, <2>2, <2>3, StepsOfTheRun
<1>. QED
  BY <1>2, <1>3

-----------------------------------------------------------------------------
(* The steps of the collection are steps of Evidence.  A field that is due *)
(* is not touched again.                                                   *)
LEMMA DueStays ==
  ASSUME TurnInv, [Next]_azureVars, NEW i \in DOMAIN estates, NEW f \in Fields, Due(i, f)
  PROVE  Due(i, f)' /\ (HasValue(i, f)' <=> HasValue(i, f)) /\ GapsOf(i, f)' = GapsOf(i, f)
<1>0. account \in 1..Len(estates) + 1 /\ step \in 1..12 /\ DOMAIN estates = 1..Len(estates)
      /\ Len(estates) \in Nat
  BY HereOk DEF TurnInv, PlaceOk
<1>1. PICK k \in 2..12 : f[1] = Steps[k]
  BY BlocksOfFields
<1>2. StepOf(f[1]) = k
  BY <1>1, StepsAre
<1>3. i < account \/ (i = account /\ step > k)
  BY <1>0, <1>2 DEF Due
<1>4. ASSUME NEW failing, NEW o, NEW fd, Advance(failing, o, fd), Handles(failing, o, fd)
      PROVE  /\ Due(i, f)' /\ (HasValue(i, f)' <=> HasValue(i, f))
             /\ GapsOf(i, f)' = GapsOf(i, f)
  <2>1. /\ InScope(f)' <=> InScope(f)
        /\ \/ step = 12 /\ account' = account + 1 /\ step' = 1
           \/ step < 12 /\ account' = account /\ step' = step + 1
    BY <1>4 DEF Advance, InScope, audit
  <2>2. i = account => f \notin DueHere
    BY <1>0, <1>1, <1>3, StepsAre DEF DueHere
  <2>3. i = account => f \notin o.fields
    BY <1>4, <2>2, OutcomeIs, FieldsOfBlocks
  <2>4. Due(i, f)'
    BY <1>0, <1>2, <1>3, <2>1 DEF Due
  <2>. QED
    BY <1>4, <2>2, <2>3, <2>4, ValuesNow, GapsNow
<1>5. ASSUME NEW read, NEW why, Abandons(read, why)
      PROVE  /\ Due(i, f)' /\ (HasValue(i, f)' <=> HasValue(i, f))
             /\ GapsOf(i, f)' = GapsOf(i, f)
  <2>1. /\ written' = written /\ gaps' = gaps \cup {Gap(b, why) : b \in UnreadableBlocks}
        /\ step = 1 /\ account' = account + 1 /\ step' = 1 /\ level' = level
    BY <1>5, Zenon DEF Abandons
  <2>2. i < account
    BY <1>3, <2>1
  <2>3. InScope(f)' <=> InScope(f)
    BY <2>1 DEF InScope, audit
  <2>4. Due(i, f)'
    BY <1>0, <2>1, <2>2, <2>3 DEF Due
  <2>5. HasValue(i, f)' <=> HasValue(i, f)
    BY <2>1 DEF HasValue
  <2>6. \A b : ~Covers(Gap(b, why), i, f)
    BY <1>0, <2>2 DEF Covers, Gap
  <2>7. GapsOf(i, f)' = GapsOf(i, f)
    BY <2>1, <2>6 DEF GapsOf, Covers
  <2>. QED
    BY <2>4, <2>5, <2>7
<1>6. CASE UNCHANGED azureVars
  BY <1>6 DEF azureVars, Due, InScope, audit, HasValue, GapsOf, Covers
<1>. QED
  BY <1>4, <1>5, <1>6, StepsOfTheRun

(* What is recorded stays, and a run that is over takes no step.           *)
LEMMA StepsAdd ==
  ASSUME TurnInv, [Next]_azureVars
  PROVE  /\ estates' = estates /\ level' = level
         /\ written \subseteq written' /\ gaps \subseteq gaps'
         /\ ~ UNCHANGED azureVars => account <= Len(estates)
<1>1. DOMAIN estates = 1..Len(estates) /\ Len(estates) \in Nat
  BY HereOk DEF TurnInv, PlaceOk
<1>2. ASSUME NEW failing, NEW o, NEW fd, Advance(failing, o, fd), Handles(failing, o, fd)
      PROVE  /\ estates' = estates /\ level' = level
             /\ written \subseteq written' /\ gaps \subseteq gaps' /\ account <= Len(estates)
  <2>1. account \in DOMAIN estates
    BY <1>2 DEF Handles
  <2>2. /\ estates' = estates /\ level' = level
        /\ written \subseteq written' /\ gaps \subseteq gaps'
    BY <1>2 DEF Advance
  <2>. QED
    BY <1>1, <2>1, <2>2
<1>3. ASSUME NEW read, NEW why, Abandons(read, why)
      PROVE  /\ estates' = estates /\ level' = level
             /\ written \subseteq written' /\ gaps \subseteq gaps' /\ account <= Len(estates)
  <2>1. /\ estates' = estates /\ level' = level /\ written' = written
        /\ gaps' = gaps \cup {Gap(b, why) : b \in UnreadableBlocks}
        /\ account \in DOMAIN estates
    BY <1>3, Zenon DEF Abandons
  <2>. QED
    BY <1>1, <2>1
<1>4. CASE UNCHANGED azureVars
  BY <1>4 DEF azureVars
<1>. QED
  BY <1>2, <1>3, <1>4, StepsOfTheRun

LEMMA OnlyPendingIsSettled ==
  ASSUME TurnInv, AzureNullsExplained, AzureNullsExplained', [Next]_azureVars,
         NEW i, NEW f \in Fields, Status(i, f)' # Status(i, f)
  PROVE  Status(i, f) = "pending" /\ Status(i, f)' \in {"value", "gap", "empty"}
<1>1. /\ estates' = estates /\ level' = level
      /\ written \subseteq written' /\ gaps \subseteq gaps'
  BY StepsAdd
<1>2. InScope(f)' <=> InScope(f)
  BY <1>1 DEF InScope, audit
<1>3. i \in DOMAIN estates /\ InScope(f)
  BY <1>1, <1>2 DEF Status
<1>4. HasValue(i, f) => HasValue(i, f)'
  BY <1>1 DEF HasValue
<1>5. GapsOf(i, f) # {} => GapsOf(i, f)' # {}
  BY <1>1 DEF GapsOf, Covers
<1>6. Explained(i, f) /\ Explained(i, f)'
  BY <1>1, <1>3 DEF AzureNullsExplained, Explained
<1>7. GapsOf(i, f) # {} => ~HasValue(i, f) /\ ~HasValue(i, f)'
  BY <1>5, <1>6 DEF Explained
<1>8. Due(i, f) => /\ Due(i, f)' /\ (HasValue(i, f)' <=> HasValue(i, f))
                   /\ GapsOf(i, f)' = GapsOf(i, f)
  BY <1>3, DueStays
<1>9. EmptyPopulation(estates[i], f)' <=> EmptyPopulation(estates[i], f)
  BY <1>1
<1>. QED
  BY <1>1, <1>2, <1>3, <1>4, <1>5, <1>7, <1>8, <1>9 DEF Status

LEMMA NonePendingInTheEnd ==
  TurnInv /\ AzureNullsExplained /\ account > Len(estates)
    => \A i : \A f \in Fields : Status(i, f) # "pending"
<1>. SUFFICES ASSUME TurnInv, AzureNullsExplained, account > Len(estates),
                     NEW i, NEW f \in Fields
              PROVE  Status(i, f) # "pending"
  OBVIOUS
<1>1. CASE i \in DOMAIN estates /\ InScope(f)
  <2>1. account > i
    <3>1. DOMAIN estates = 1..Len(estates) /\ Len(estates) \in Nat
          /\ account \in 1..Len(estates) + 1
      BY HereOk DEF TurnInv, PlaceOk
    <3>. QED
      BY <1>1, <3>1
  <2>2. Due(i, f)
    BY <1>1, <2>1 DEF Due
  <2>3. Explained(i, f)
    BY <1>1, ExplainedIs
  <2>4. Cardinality(GapsOf(i, f)) = 1 => GapsOf(i, f) # {}
    BY FS_EmptySet
  <2>5. HasValue(i, f) \/ GapsOf(i, f) # {} \/ EmptyPopulation(estates[i], f)
    BY <2>2, <2>3, <2>4 DEF Explained
  <2>. QED
    BY <1>1, <2>2, <2>5 DEF Status
<1>2. CASE ~(i \in DOMAIN estates /\ InScope(f))
  BY <1>2 DEF Status
<1>. QED
  BY <1>1, <1>2

LEMMA InitImplementsEvidence ==
  Init => Promise!EvidenceInit
<1>. SUFFICES ASSUME Init PROVE Promise!EvidenceInit
  OBVIOUS
<1>1. account = 1 /\ step = 1 /\ written = {} /\ gaps = {}
  BY DEF Init
<1>2. DOMAIN estates = 1..Len(estates) /\ Len(estates) \in Nat /\ Len(estates) # 0
  BY ConfigurationsAssumption DEF Init
<1>3. ASSUME NEW i, NEW f \in Fields PROVE Status(i, f) \in {"pending", "out_of_scope"}
  <2>1. PICK k \in 2..12 : f[1] = Steps[k]
    BY BlocksOfFields
  <2>2. StepOf(f[1]) = k
    BY <2>1, StepsAre
  <2>3. i \in DOMAIN estates => ~Due(i, f)
    BY <1>1, <1>2, <2>2 DEF Due
  <2>4. ~HasValue(i, f) /\ GapsOf(i, f) = {}
    BY <1>1 DEF HasValue, GapsOf
  <2>. QED
    BY <2>3, <2>4 DEF Status
<1>4. \A a \in AccountFields : Status(a[1], a[2]) \in {"pending", "out_of_scope"}
  BY <1>3 DEF AccountFields
<1>5. ~(account > Len(estates))
  BY <1>1, <1>2
<1>. QED
  BY <1>4, <1>5 DEF Promise!EvidenceInit

LEMMA StepImplementsEvidence ==
  ASSUME TurnInv, TurnInv', AzureNullsExplained, AzureNullsExplained', [Next]_azureVars
  PROVE  [Promise!EvidenceNext]_(Promise!evidenceVars)
<1>1. CASE UNCHANGED azureVars
  <2>1. \A i, f : Status(i, f)' = Status(i, f)
    BY <1>1 DEF azureVars, Status, InScope, audit, HasValue, GapsOf, Covers, Due
  <2>2. account' = account /\ estates' = estates
    BY <1>1 DEF azureVars
  <2>. QED
    BY <2>1, <2>2 DEF Promise!evidenceVars
<1>2. CASE ~ UNCHANGED azureVars
  <2>1. ~(account > Len(estates))
    <3>1. account <= Len(estates) /\ account \in Nat /\ Len(estates) \in Nat
      BY <1>2, StepsAdd, HereOk DEF TurnInv, PlaceOk
    <3>. QED
      BY <3>1
  <2>2. ASSUME NEW a \in AccountFields
        PROVE  /\ Status(a[1], a[2])' \in
                    {"value", "gap", "empty"} \cup {"pending", "out_of_scope"}
               /\ Status(a[1], a[2])' # Status(a[1], a[2]) =>
                    /\ Status(a[1], a[2]) = "pending"
                    /\ Status(a[1], a[2])' \in {"value", "gap", "empty"}
    <3>1. a[2] \in Fields
      BY DEF AccountFields
    <3>2. Status(a[1], a[2])' \in {"value", "gap", "empty", "pending", "out_of_scope"}
      BY DEF Status
    <3>. QED
      BY <3>1, <3>2, OnlyPendingIsSettled
  <2>3. Promise!Settle
    BY <2>2 DEF Promise!Settle, Promise!Settled
  <2>4. ASSUME (account > Len(estates))', NEW a \in AccountFields
        PROVE  Status(a[1], a[2])' # "pending"
    <3>1. a[2] \in Fields
      BY DEF AccountFields
    <3>2. (\A i : \A f \in Fields : Status(i, f) # "pending")'
      BY <2>4, NonePendingInTheEnd, PTL
    <3>. QED
      BY <3>1, <3>2
  <2>. QED
    BY <2>1, <2>3, <2>4 DEF Promise!EvidenceNext, Promise!SettleAndEnd
<1>. QED
  BY <1>1, <1>2

(* The collection keeps the promise of Evidence: whatever happens to the   *)
(* subscriptions around it, each field of each account is settled once,    *)
(* and when the run is over none is pending.  That it comes to be over is  *)
(* the part of AzureKeepsThePromise left to TLC.                           *)
THEOREM AccountsKeepThePromise == Spec => Promise!EvidenceSafety
<1>1. TurnInv /\ TurnInv' /\ AzureNullsExplained /\ AzureNullsExplained' /\ [Next]_azureVars
        => [Promise!EvidenceNext]_(Promise!evidenceVars)
  BY StepImplementsEvidence
<1>. QED
  BY <1>1, InitImplementsEvidence, RunIsInTurn, NullsAreExplained, PTL
     DEF Spec, Promise!EvidenceSafety
=============================================================================
