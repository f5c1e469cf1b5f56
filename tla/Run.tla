-------------------------------- MODULE Run ---------------------------------
(***************************************************************************)
(* One run of the collector: the sign-in, the Entra collection, the Azure  *)
(* collection over the same diagnostics, the copies of the diagnostics in  *)
(* the artifacts, and the iam block each subscription's cloud posture      *)
(* takes from Entra.                                                       *)
(***************************************************************************)
EXTENDS EntraCollect, Sequences

CONSTANTS
  Configurations,    \* the subscriptions a run may have
  MaxAzureFailures   \* bound on the Azure reads that fail

VARIABLES
  phase,        \* where Collect is
  estates, account, step, found, unreadable, failedReads, numbers,
  azureWritten, azureGaps,  \* the Azure collection
  diagnostics,  \* the run's diagnostics, filled by both
  copies,       \* the copy each artifact and the result has
  iam,          \* the fields of each account's iam block
  iamGaps       \* and the gaps recorded at them

azureVars == <<estates, account, step, found, unreadable, failedReads, numbers,
               azureWritten, azureGaps>>
entraVars == <<pc, tenant, miss, written, gaps, unavailable>>
outVars == <<copies, iam, iamGaps>>
runVars == <<phase, level, entraVars, azureVars, diagnostics, outVars>>

Azure == INSTANCE AzureCollect
  WITH written <- azureWritten, gaps <- azureGaps, MaxFailures <- MaxAzureFailures

ASSUME ConfigurationsAssumption ==
  \A c \in Configurations :
    c \in Seq(Azure!Estate) /\ c # <<>> /\ \A i \in DOMAIN c : Azure!IsEstate(c[i])
ASSUME MaxAzureFailuresAssumption == MaxAzureFailures \in Nat

Holders == {"entra", "azure", "result"}
IAMRoot == {"root_mfa_enabled", "root_access_protected"}
MFACoverage == "/posture/mfa_coverage"
Ended == {"done", "failed"}

(* What the diagnostics name: the Graph and the Azure reads warned of, and *)
(* the subscriptions among the subscription errors.  No handler adds to    *)
(* the tenant errors.                                                      *)
NewDiagnostics ==
  [subscriptionErrors |-> {}, warned |-> {}, azureWarned |-> {}, capabilities |-> {}]
NoCopy == [NewDiagnostics EXCEPT !.warned = {"not copied"}]

RunInit ==
  /\ Init
  /\ Azure!Init
  /\ phase = "graph_token"
  /\ diagnostics = NewDiagnostics
  /\ copies = [h \in Holders |-> NoCopy]
  /\ iam = [i \in DOMAIN estates |-> {}]
  /\ iamGaps = {}

(* Both tokens and the organization; the only calls that fail the run.     *)
signIn ==
  /\ phase \in {"graph_token", "arm_token", "organization"}
  /\ \/ phase' = IF phase = "graph_token" THEN "arm_token"
                 ELSE IF phase = "arm_token" THEN "organization" ELSE "entra"
     \/ phase' = "failed"
  /\ UNCHANGED <<level, entraVars, azureVars, diagnostics, outVars>>

(* Mutant: a handler warns in its license and permission cases only.       *)
warnsOfCapabilities(r) == miss'[r].code \in {"not_licensed", "permission_denied"}

(* Every case of a Graph handler but the good one warns.                   *)
warns(r) == miss'[r] # NoMiss

Copy(holders, of) ==
  copies' = [h \in Holders |-> IF h \in holders THEN of ELSE copies[h]]

(* One Graph read, with what it adds to the diagnostics.  The artifact     *)
(* gets a copy once its collection is over.                                *)
collectEntra ==
  /\ phase = "entra" /\ pc # "collected"
  /\ Next
  /\ diagnostics' = [diagnostics EXCEPT !.warned = @ \cup {r \in {pc} : warns(r)},
                                        !.capabilities = unavailable']
  /\ IF pc' = "collected"
     THEN phase' = "azure" /\ Copy({"entra"}, diagnostics')
     ELSE UNCHANGED <<phase, copies>>
  /\ UNCHANGED <<azureVars, iam, iamGaps>>

SettingReads == {"own_settings", "service_settings"}

(* A subscription that cannot be read is among the errors.                 *)
subscriptionErrors ==
  {r[1] : r \in {f \in failedReads' \ failedReads : f[2] = "subscription"}}

(* Every other failed Azure read is warned of, but of the settings of the  *)
(* resources only the first error of the first resource that is unread.    *)
azureWarnings ==
  LET new == failedReads' \ failedReads IN
  {r \in new : r[2] \notin SettingReads \cup {"subscription"}}
    \cup {r \in new : r[2] \in SettingReads /\ \E g \in azureGaps' : g.why.about = r}

(* Mutant: the loop waits for one more subscription than there is.         *)
azureOverLate == account' > Len(estates) + 1

azureOver == account' > Len(estates)

(* One step of the Azure collection, over the diagnostics Entra left.      *)
collectAzure ==
  /\ phase = "azure"
  /\ Azure!Next
  /\ diagnostics' = [diagnostics EXCEPT
                       !.subscriptionErrors = @ \cup subscriptionErrors,
                       !.azureWarned = @ \cup azureWarnings]
  /\ IF azureOver
     THEN phase' = "finish" /\ Copy({"azure"}, diagnostics')
     ELSE UNCHANGED <<phase, copies>>
  /\ UNCHANGED <<entraVars, iam, iamGaps>>

(* The block of privileged access is there when both lists were read.      *)
noPrivilegedAccess == firstMissing(miss["role_assignments"], miss["users"])

(* Mutant: any group that holds a privileged role hides the admins.        *)
globalAdminsMFAUnreadByAnyGroup ==
  firstMissing(miss["registrations"],
               IF tenant.groupHeld THEN notRead("group_role_members") ELSE NoMiss)

(* Why the Global Administrators' registration is not known.               *)
globalAdminsMFAUnread ==
  firstMissing(miss["registrations"],
               IF tenant.groupHeldGlobalAdmin THEN notRead("group_role_members")
               ELSE NoMiss)

At(i, fields, why) ==
  IF why = NoMiss THEN {} ELSE {[account |-> i, at |-> f, why |-> why] : f \in fields}

(* Mutant: the coverage's gap is not carried over.                         *)
mirrorNothing(from) == {}

(* The gaps recorded at an Entra value carry over to its copy.             *)
mirror(from) == {g.why : g \in {h \in gaps : h.at = from}}

rootMFAMiss ==
  IF noPrivilegedAccess # NoMiss THEN noPrivilegedAccess ELSE globalAdminsMFAUnread

(* The iam block is written into each account, if it would hold anything.  *)
addDeprecatedIAM ==
  LET fields == (IF MFACoverage \in written THEN {"mfa_coverage_pct"} ELSE {})
                  \cup (IF rootMFAMiss = NoMiss THEN IAMRoot ELSE {})
  IN /\ iam' = [i \in DOMAIN estates |-> fields]
     /\ iamGaps' = UNION {At(i, IAMRoot, rootMFAMiss)
                            \cup UNION {At(i, {"mfa_coverage_pct"}, w) :
                                          w \in mirror(MFACoverage)} :
                            i \in DOMAIN estates}

(* Mutant: the Entra artifact keeps the copy its collection left it.       *)
copiedToAzureOnly == {"azure", "result"}

copiedTo == Holders

(* Both artifacts get the diagnostics of the whole run.                    *)
finish ==
  /\ phase = "finish"
  /\ Copy(copiedTo, diagnostics)
  /\ addDeprecatedIAM
  /\ phase' = "done"
  /\ UNCHANGED <<level, entraVars, azureVars, diagnostics>>

RunNext == signIn \/ collectEntra \/ collectAzure \/ finish
RunSpec == RunInit /\ [][RunNext]_runVars /\ WF_runVars(RunNext)
-----------------------------------------------------------------------------
(* Every artifact names every read of the run it has no value for: the     *)
(* Entra artifact names Azure reads that failed after it was collected and *)
(* the Azure artifact the Entra ones, so that each can be read without the *)
(* other.  They agree, list the capabilities Entra lacked, and warn of     *)
(* nothing that did not fail (Collect, collectAzure, warnSubscription).    *)
EveryArtifactNamesEveryFailure ==
  phase = "done" =>
    LET unreadOfEntra == {r \in Reads : miss[r] # NoMiss} IN
    \A h \in Holders :
      /\ copies[h].warned = unreadOfEntra
      /\ copies[h].capabilities = unavailable
      /\ \A g \in azureGaps :
           \/ g.why.about \in copies[h].azureWarned
           \/ /\ g.why.about[2] = "subscription"
              /\ g.at[1] \in copies[h].subscriptionErrors
      /\ \A g \in Holders : copies[g] = copies[h]

(* The iam block follows Entra: the MFA coverage stands in each account    *)
(* where Entra has it and has Entra's gap where not, and the Global        *)
(* Administrators' MFA is known just when the users, the assignments and   *)
(* the report were read and no group holds that role, with one gap at each *)
(* of its values otherwise.  Another role a group holds, and an unreadable *)
(* subscription, take nothing away (addDeprecatedIAM).                     *)
IAMFollowsEntra ==
  phase = "done" =>
    \A i \in DOMAIN estates :
      LET whys(f) == {g.why : g \in {h \in iamGaps : h.account = i /\ h.at = f}}
          known == /\ \A r \in {"users", "role_assignments", "registrations"} :
                        miss[r] = NoMiss
                   /\ ~tenant.groupHeldGlobalAdmin
      IN /\ "mfa_coverage_pct" \in iam[i] <=> MFACoverage \in written
         /\ whys("mfa_coverage_pct") = {g.why : g \in {h \in gaps : h.at = MFACoverage}}
         /\ IF known THEN IAMRoot \subseteq iam[i] /\ \A f \in IAMRoot : whys(f) = {}
            ELSE /\ IAMRoot \cap iam[i] = {}
                 /\ \A f \in IAMRoot :
                      /\ Cardinality(whys(f)) = 1
                      /\ \A w \in whys(f) :
                           IF w.about \in Reads THEN miss[w.about] # NoMiss
                           ELSE tenant.groupHeldGlobalAdmin

(* Only the sign-in fails the run, and every other run comes to its        *)
(* artifacts: no failed read of either collection holds it up (Collect).   *)
RunCompletes == <>(phase \in Ended) /\ [](phase = "entra" => <>(phase = "done"))
=============================================================================
