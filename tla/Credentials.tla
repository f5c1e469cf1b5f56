---------------------------- MODULE Credentials -----------------------------
(***************************************************************************)
(* The application credentials of the Entra artifact, over several runs    *)
(* against a tenant that goes on issuing and withdrawing credentials.  A   *)
(* run reads the service principals, then the applications, and weighs     *)
(* what it read at a later time than either.                               *)
(*                                                                         *)
(* A day is an integer.  A count is kept as the set of credentials         *)
(* counted, with the set of those read, so that the artifacts of two runs  *)
(* can be compared.                                                        *)
(***************************************************************************)
EXTENDS Integers, FiniteSets

CONSTANTS
  Catalog,      \* the credentials the tenant may come to have
  NoDate,       \* the zero time
  BadDate,      \* a date that does not parse
  ExpiryWindow, \* how far ahead an expiry is announced (30)
  Year,         \* how long a credential may be valid (365)
  LastDay,      \* bound: the last day
  MaxCredentialChanges, \* bound: the credentials issued or withdrawn
  MaxRuns       \* bound: the runs

Owners == {"servicePrincipal", "application"}
Credential == [owner : Owners, kind : {"password", "key"},
               start : Int \cup {NoDate, BadDate}, end : Int \cup {NoDate, BadDate}]

ASSUME DatesAssumption == NoDate \notin Int /\ BadDate \notin Int
ASSUME CatalogAssumption ==
  \A c \in Catalog :
    /\ DOMAIN c = {"owner", "kind", "start", "end"}
    /\ c.owner \in Owners /\ c.kind \in {"password", "key"}
    /\ \A d \in {c.start, c.end} : d \in {NoDate, BadDate} \/ d \in Int
ASSUME CredentialsBoundsAssumption ==
  /\ ExpiryWindow \in Nat /\ Year \in Nat /\ LastDay \in Nat
  /\ MaxCredentialChanges \in Nat /\ MaxRuns \in Nat

VARIABLES
  tenant,    \* the credentials the tenant has
  day,       \* the day it is
  credentialChanges,  \* how often the tenant changed
  appsStep,  \* what the run does next
  servicePrincipals, applications,  \* the credentials read
  unchanged, \* the credentials the tenant has had since the run began
  met,       \* the credentials it has had at any time since
  runs,      \* the runs begun
  reports    \* what the finished runs wrote

appTenantVars == <<tenant, day, credentialChanges>>
appRunVars == <<appsStep, servicePrincipals, applications, runs, reports>>
credentialsVars == <<appTenantVars, appRunVars, unchanged, met>>

parseGraphTime(value) == IF value \in {NoDate, BadDate} THEN NoDate ELSE value
startOf(c) == parseGraphTime(c.start)
endOf(c) == parseGraphTime(c.end)

ownedBy(owner) == {c \in tenant : c.owner = owner}

CredentialsInit ==
  /\ tenant \in SUBSET Catalog
  /\ day = 0 /\ credentialChanges = 0
  /\ appsStep = "servicePrincipals" /\ runs = 0 /\ reports = {}
  /\ servicePrincipals = {} /\ applications = {}
  /\ unchanged = {} /\ met = {}

-----------------------------------------------------------------------------
(* The tenant and the clock.                                               *)
Issue(c) ==
  /\ credentialChanges < MaxCredentialChanges /\ c \notin tenant
  /\ tenant' = tenant \cup {c} /\ met' = met \cup {c}
  /\ credentialChanges' = credentialChanges + 1
  /\ UNCHANGED <<day, appRunVars, unchanged>>
Withdraw(c) ==
  /\ credentialChanges < MaxCredentialChanges /\ c \in tenant
  /\ tenant' = tenant \ {c} /\ unchanged' = unchanged \ {c}
  /\ credentialChanges' = credentialChanges + 1
  /\ UNCHANGED <<day, appRunVars, met>>
NextDay ==
  /\ day < LastDay /\ day' = day + 1
  /\ UNCHANGED <<tenant, credentialChanges, appRunVars, unchanged, met>>

-----------------------------------------------------------------------------
(* A run: a read that fails leaves the credentials out, and a failed read  *)
(* of the service principals leaves the applications to be read in vain.   *)
NextRun == appsStep' = "servicePrincipals"

ReadServicePrincipals ==
  /\ appsStep = "servicePrincipals" /\ runs < MaxRuns
  /\ appsStep' = "applications" /\ runs' = runs + 1
  /\ servicePrincipals' = ownedBy("servicePrincipal") /\ applications' = {}
  /\ unchanged' = tenant /\ met' = tenant
  /\ UNCHANGED <<appTenantVars, reports>>
FailServicePrincipals ==
  /\ appsStep = "servicePrincipals" /\ runs < MaxRuns
  /\ NextRun /\ runs' = runs + 1
  /\ UNCHANGED <<appTenantVars, servicePrincipals, applications, unchanged, met, reports>>
ReadApplications ==
  /\ appsStep = "applications" /\ appsStep' = "count"
  /\ applications' = ownedBy("application")
  /\ UNCHANGED <<appTenantVars, servicePrincipals, unchanged, met, runs, reports>>
FailApplications ==
  /\ appsStep = "applications" /\ NextRun
  /\ UNCHANGED <<appTenantVars, servicePrincipals, applications, unchanged, met, runs, reports>>

expired(c, now) == endOf(c) # NoDate /\ endOf(c) <= now
(* Mutant: the last day of the window is left out.                       *)
expiringOpen(c, now) ==
  endOf(c) # NoDate /\ endOf(c) > now /\ endOf(c) < now + ExpiryWindow
expiring(c, now) ==
  endOf(c) # NoDate /\ endOf(c) > now /\ endOf(c) <= now + ExpiryWindow
over365d(c) ==
  startOf(c) # NoDate /\ endOf(c) # NoDate /\ endOf(c) - startOf(c) > Year

credentialWindows(apps, sps) == apps \cup sps

Weighed(windows, now) ==
  LET active == {c \in windows : ~expired(c, now)}
  IN  [at |-> now, read |-> windows, steady |-> unchanged, met |-> met,
       expired |-> windows \ active,
       active |-> active,
       passwords |-> {c \in active : c.kind = "password"},
       expiring |-> {c \in active : expiring(c, now)},
       over |-> {c \in active : over365d(c)}]

populateCredentialMetrics ==
  /\ appsStep = "count" /\ NextRun
  /\ reports' = reports \cup
       {Weighed(credentialWindows(applications, servicePrincipals), day)}
  /\ UNCHANGED <<appTenantVars, servicePrincipals, applications, unchanged, met, runs>>

CredentialsNext ==
  \/ \E c \in Catalog : Issue(c) \/ Withdraw(c)
  \/ NextDay
  \/ ReadServicePrincipals \/ FailServicePrincipals
  \/ ReadApplications \/ FailApplications
  \/ populateCredentialMetrics

CredentialsSpec == CredentialsInit /\ [][CredentialsNext]_credentialsVars

-----------------------------------------------------------------------------
(* The credentials read belong to the objects they were read from, and an  *)
(* artifact weighs the credentials of the catalogue on a day there was.    *)
CredentialsTypeOK ==
  /\ tenant \subseteq Catalog /\ unchanged \subseteq tenant /\ met \subseteq Catalog
  /\ day \in 0 .. LastDay /\ runs \in 0 .. MaxRuns
  /\ credentialChanges \in 0 .. MaxCredentialChanges
  /\ appsStep \in {"servicePrincipals", "applications", "count"}
  /\ servicePrincipals \subseteq {c \in Catalog : c.owner = "servicePrincipal"}
  /\ applications \subseteq {c \in Catalog : c.owner = "application"}
  /\ \A r \in reports :
       /\ r.at \in 0 .. day
       /\ r.read \subseteq Catalog
       /\ r.steady \subseteq Catalog /\ r.met \subseteq Catalog

(* Every credential the tenant had from the first read to the count is in  *)
(* the counts, as expired or as active and never as both, and none is that *)
(* the tenant did not have at some time during the run                     *)
(* (entra_apps.go, credentialWindows).                                     *)
EveryCredentialIsWeighed ==
  \A r \in reports :
    /\ r.steady \subseteq r.expired \cup r.active
    /\ r.expired \cap r.active = {}
    /\ r.expired \cup r.active \subseteq r.met

(* A credential that one run counts as expired was announced by every run  *)
(* of the window before that read it, and one that is expired, long-lived  *)
(* or without an end stays so in every later run, unless it expires: what  *)
(* a reader has planned by one artifact holds in the next                  *)
(* (entra_apps.go, populateCredentialMetrics).                             *)
ExpiryIsForeseen ==
  \A r1, r2 \in reports : r1.at <= r2.at =>
    LET both == r1.read \cap r2.read IN
    /\ r2.at <= r1.at + ExpiryWindow =>
         r2.expired \cap both \subseteq r1.expired \cup r1.expiring
    /\ r1.expired \cap both \subseteq r2.expired
    /\ r1.over \cap both \subseteq r2.over \cup r2.expired
    /\ r2.at >= r1.at + ExpiryWindow => r1.expiring \cap both \subseteq r2.expired
=============================================================================
