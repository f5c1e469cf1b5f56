---------------------------- MODULE CloudPosture ----------------------------
(***************************************************************************)
(* The normalized cloud posture, taken from the Azure artifact when the    *)
(* last subscription is read.  Each account keeps its index.  A gap on an  *)
(* Azure value carries over to what is taken from it, and a subscription   *)
(* that could not be read has its four blocks left out.                    *)
(*                                                                         *)
(* The SDK's Mirror is external: a gap at a block is taken to stand for    *)
(* every field of the block, as it does in the Azure artifact.             *)
(***************************************************************************)
EXTENDS AzureCollect

VARIABLES
  cloud,       \* the value at each normalized field of each account
  cloudGaps,   \* the gaps recorded in the normalized artifact
  cloudDone    \* whether it has been taken

cloudVars == <<azureVars, cloud, cloudGaps, cloudDone>>

-----------------------------------------------------------------------------
PresentFields == {<<"storage", "storage_resources_present">>,
                  <<"network", "security_groups_present">>}
StorageCounts == {<<"storage", "storage_resource_count">>,
                  <<"storage", "encrypted_storage_resource_count">>,
                  <<"storage", "public_access_blocked_storage_resource_count">>}
NetworkCounts == {<<"network", "security_group_count">>,
                  <<"network", "ssh_open_security_group_count">>,
                  <<"network", "rdp_open_security_group_count">>}
StorageShares == {<<"storage", "encryption_pct">>,
                  <<"storage", "public_access_blocked_pct">>}
LoggingFlags == {<<"logging", "audit_log_enabled">>, <<"logging", "audit_log_all_regions">>,
                 <<"logging", "cloudtrail_enabled">>,
                 <<"logging", "cloudtrail_multiregion">>}

(* The counts, which only the audit level writes.                          *)
CloudCounts == StorageCounts \cup NetworkCounts
CloudFields == PresentFields \cup CloudCounts \cup StorageShares \cup OpenPcts
                 \cup LoggingFlags \cup {RetentionMin}
CloudBlocks == {f[1] : f \in CloudFields}

(* The Azure field each is taken from.                                     *)
cloudPostureSources ==
  [f \in CloudFields |->
     CASE f \in {<<"storage", "storage_resources_present">>,
                 <<"storage", "storage_resource_count">>} -> StorageCount
       [] f \in {<<"storage", "encrypted_storage_resource_count">>,
                 <<"storage", "encryption_pct">>} -> <<"storage", "encryption_cmk_pct">>
       [] f \in {<<"storage", "public_access_blocked_storage_resource_count">>,
                 <<"storage", "public_access_blocked_pct">>} ->
            <<"storage", "public_access_blocked_pct">>
       [] f \in LoggingFlags -> ActivityExported
       [] f \in {<<"network", "security_groups_present">>,
                 <<"network", "security_group_count">>} -> GroupsCount
       [] f = <<"network", "ssh_open_security_group_count">> ->
            <<"network", "ssh_open_to_world_pct">>
       [] f = <<"network", "rdp_open_security_group_count">> ->
            <<"network", "rdp_open_to_world_pct">>
       [] OTHER -> f]

-----------------------------------------------------------------------------
ValueIf(b) == IF b THEN "value" ELSE "absent"
cloudAudit(f) == f \in CloudCounts => audit

(* Mutant: a total that was not counted is zero.                           *)
cloudShareOfUncounted(read, total) == IF read /\ total > 0 THEN "value" ELSE "null"

cloudShare(read, total) ==
  IF read /\ total = 0 THEN "null" ELSE ValueIf(read)

cloudPostureStorage(i, f) ==
  IF f \in StorageShares
  THEN cloudShare(HasValue(i, StorageCount), Len(estates[i].storage))
  ELSE ValueIf(HasValue(i, StorageCount) /\ cloudAudit(f))

cloudPostureNetwork(i, f) ==
  IF f \in OpenPcts
  THEN cloudShare(HasValue(i, GroupsCount), estates[i].groups)
  ELSE ValueIf(HasValue(i, GroupsCount) /\ cloudAudit(f))

(* A retention that was read is null when no policy in use sets one.       *)
cloudPostureBackup(i) ==
  IF HasValue(i, RetentionRead) /\ ~HasValue(i, RetentionMin) THEN "null"
  ELSE ValueIf(HasValue(i, RetentionRead))

ToCloudPosture ==
  [i \in DOMAIN estates |->
     [f \in CloudFields |->
        CASE unreadable[i] # NoMiss -> "absent"
          [] unreadable[i] = NoMiss /\ f[1] = "storage" -> cloudPostureStorage(i, f)
          [] unreadable[i] = NoMiss /\ f[1] = "network" -> cloudPostureNetwork(i, f)
          [] unreadable[i] = NoMiss /\ f[1] = "backup"  -> cloudPostureBackup(i)
          [] OTHER -> ValueIf(HasValue(i, ActivityExported))]]

(* Mutant: the accounts that could be read are counted on their own.       *)
CloudAccountOfReadable(i) == Cardinality({j \in 1..i : unreadable[j] = NoMiss})

CloudAccount(i) == i

Mirror(i, f) ==
  {[at |-> <<CloudAccount(i), f[1], f[2]>>, why |-> g.why, unmeasured |-> g.unmeasured] :
     g \in GapsOf(i, cloudPostureSources[f])}

mirrorCloudPostureGaps ==
  UNION {IF unreadable[i] # NoMiss
         THEN {[at |-> <<i, b, Whole>>, why |-> unreadable[i], unmeasured |-> 0] :
                 b \in CloudBlocks}
         ELSE UNION {Mirror(i, f) : f \in CloudFields} : i \in DOMAIN estates}

CloudInit ==
  /\ Init
  /\ cloud = [i \in DOMAIN estates |-> [f \in CloudFields |-> "absent"]]
  /\ cloudGaps = {}
  /\ cloudDone = FALSE

Collect == Next /\ UNCHANGED <<cloud, cloudGaps, cloudDone>>

TakeCloudPosture ==
  /\ account > Len(estates) /\ ~cloudDone
  /\ cloud' = ToCloudPosture
  /\ cloudGaps' = mirrorCloudPostureGaps
  /\ cloudDone' = TRUE
  /\ UNCHANGED azureVars

CloudNext == Collect \/ TakeCloudPosture

CloudSpec == CloudInit /\ [][CloudNext]_cloudVars /\ WF_cloudVars(CloudNext)

-----------------------------------------------------------------------------
CloudGapsOf(i, f) == {g \in cloudGaps : Covers(g, i, f)}

(* Whether the null is over an empty population, or of a retention that no *)
(* policy in use sets.                                                     *)
NothingToMeasure(i, f) ==
  /\ unreadable[i] = NoMiss
  /\ EmptyPopulation(estates[i], cloudPostureSources[f])

(* A value the Azure artifact left out is absent from the cloud posture,   *)
(* with the same gap and no other: the same reason, of the same account.   *)
(* The counts are absent below the audit level, with a gap or without.     *)
(* What is written is there in the Azure artifact too, or, where there was *)
(* nothing to measure, is null, a count excepted, which is then zero.      *)
CloudFollowsAzure ==
  cloudDone => \A i \in DOMAIN estates, f \in CloudFields :
    LET azureGaps == GapsOf(i, cloudPostureSources[f])
        given == HasValue(i, cloudPostureSources[f])
    IN /\ {g.why : g \in CloudGapsOf(i, f)} = {g.why : g \in azureGaps}
       /\ cloud[i][f] = "absent" <=> azureGaps # {} \/ ~cloudAudit(f)
       /\ cloud[i][f] = "value" =>
            given \/ (f \in CloudCounts /\ NothingToMeasure(i, f))
       /\ cloud[i][f] = "null" => ~given /\ NothingToMeasure(i, f)
=============================================================================
