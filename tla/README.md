# A TLA+ verification of epack-collector-microsoft-cloud

The collector signs in to Microsoft Entra ID, reads a tenant through Microsoft
Graph and its configured subscriptions through Azure Resource Manager, and
writes five JSON artifacts of counts, percentages and flags. What makes it
correct is what it does when something cannot be read. Except for a failed
sign-in, no failure fails the run. A value that could not be measured is left
out, a *gap* is recorded where it would have been, and a gap on a detailed
value carries over to the normalized artifacts. An artifact that shows a
number taken from half a list, or a null nobody explains, is wrong in a way
its reader cannot see. The models here are about that.

Paths below are under `internal/collector` unless they say otherwise.

## Inventory

| Component | State it keeps | Operations | Module |
|---|---|---|---|
| Configuration and handler (`handler.go`, `config.go`, `internal/microsoft/auth.go`) | the configuration, the hosts credentials may go to | read and validate, list the hosts, check the credentials, sign in, collect | `Handler` |
| Sign-in and token sources (`internal/microsoft/auth.go`) | two cached tokens and their expiry, under a mutex | `AccessToken`, `acquire`, `validateAppOnlyToken` | `SignIn` |
| Graph and ARM clients (`internal/microsoft`) | the pages read so far, per call | `getPaged`, `getARMPaged`, page links, classification of responses | `PagedRead`, abstractly `ListRead` |
| Routes and redaction (`internal/microsoft`) | none | routes of child resources, `TemplateRoute`, `sanitizePath` | `ResourceNames` |
| Entra collection (`entra_*.go`, `secure_score.go`, `gaps.go`) | the artifact, the gap log, the diagnostics, the reads' failures | twelve Graph reads and their handlers, in order | `EntraCollect` |
| User counts (`entra_users.go`) | the lists of three reads | `summarizeUsers`, `countInactive`, the registration counts | `Users` |
| Application credentials (`entra_apps.go`) | two lists, the clock | `populateCredentialMetrics`, `credentialWindows` | `Credentials` |
| Privileged access (`entra_privileged.go`) | the holders of privileged roles, and whether a group holds one | the loops over assignments and schedules, the values | `Privileged` |
| Sign-in counts (`entra_sign_in_monitoring.go`) | the running counts and the map of codes | `summarizeSignIns`, `topFailureCodes` | `SignInActivity` |
| Conditional Access (`entra_policy.go`) | flags, covered members | `computePolicy`, `mfaPolicyCoveredCount`, `securityDefaultsCoveredCount` | `ConditionalAccess` |
| Azure collection (`azure_*.go`) | one account per subscription, the gap log, what one handler passes to later ones | twelve handlers per subscription | `AzureCollect` |
| Network exposure (`azure_network.go`) | the open groups | `nsgOpenToWorld` and the rule predicates | `Exposure` |
| Resource inventory (`azure_inventory.go`) | tag counts, a map of types | `normalizedTagValue`, `topResourceTypes` | `Inventory` |
| Normalized identity posture (`normalized_idp.go`) | none: taken from the Entra artifact | `ToIDPPosture`, the mirror and mark functions | `IDPPosture` |
| Normalized cloud posture (`normalized_cloud.go`) | none: taken from the Azure artifact | `ToCloudPosture`, `mirrorCloudPostureGaps` | `CloudPosture` |
| Normalized access posture (`normalized_access.go`) | a population per subscription and the total | `add`, `merge`, `accessSections` | `AccessPosture` |
| Run composition and the deprecated `iam` block (`collector.go`, `deprecated.go`) | one diagnostics value shared by both collections, and its copies | `Collect`, `addDeprecatedIAM` | `Run` |
| componentsdk (external) | the recorder, the HTTP transport and its retries, the run deadline | `Recorder`, `Mirror`, `Percent`, `NewHTTPClient` | as the code uses it |
| Schemas and methods, `main` | none | embedded documents, one call into the SDK | not modelled |

How they interact: the handler validates the configuration and builds a
`Collector`; `Collect` signs in, runs `collectEntra` and then `collectAzure`
over the same gap log and diagnostics, and derives the three normalized
artifacts from the two detailed ones. Every read goes through a token source
and a client. Everything is a call on one goroutine: nothing in the program
starts another, so the mutex of a `TokenSource` is never contended. What is
concurrent is the world: the tenant changes between two reads, a token
expires between two requests, and a run is followed by another. The rest of
what is hard is the number of ways in which a sequence of dependent reads can
partly fail:

- one read feeds several values, and one value needs several reads, some made
  by earlier handlers (MFA coverage, privileged access, backup coverage,
  logging coverage);
- a list is read page by page, and a page may fail, point elsewhere or back;
- a list of lists is read in part (a server, a vault, a resource), and the
  number over the part must not be written;
- an unreadable subscription leaves the run in the middle and must not shift
  the gaps of the next;
- null, absent, zero and gap mean four different things, and two artifacts
  must agree on which;
- one diagnostics value is filled by two collections and copied at three
  moments;
- group and role membership is never read, so what a policy or a role
  assignment covers may be unknown, yet sometimes certain anyway;
- maps are walked in any order, and the artifact must not show it.

The `hazards` of `PROJECT.json` list these at their lines, with the properties
that cover each.

## Modules and how they correspond to the code

Two modules are abstract. **`Evidence`** is what an artifact promises: a set of
fields, each pending, settled (value, gap, or null over an empty population)
or out of scope. A step settles some pending fields, a settled field never
changes, and the run ends with none pending. `EntraCollect` and `AzureCollect`
implement it through a refinement mapping (`Status`). **`ListRead`** is what a
read promises its caller: one answer, the whole of a list or a failure, and
never a part. `PagedRead` implements it.

**`Handler`**. `raw` is the configuration and environment, read as
`getStringSlice` and its like read it; each check of `Validate` and of the
credentials has its exit. `requests` keeps the host and the credential of
every request that carries one, `hosts` what the HTTP client was told.

**`SignIn`**. `source` holds each audience's cached token and the expiry it is
taken to have. `Ask` ... `TokenGranted`/`TokenRefused`/`AskFails` is one
`AccessToken` call, in time: the token is issued at some moment and its answer
arrives any time later, when the code starts counting `expires_in`, or an hour
if there is none that is positive. A token is what the code looks at in it,
its claims, of which `tid` and `scp` may be missing or no string, beside what
the code cannot see: when it was issued and for how long. `Carry` sends the
request the token was got for.

**`PagedRead`** is one call of either client, from its route to the list, the
object or the failure it returns. The service chooses each page's link: none,
to another page, in a circle, to another host or scheme, or to a URL that does
not parse, alone or joined to the base URL.
`out` is the pages gathered, and every exit of the paging loop is an action.

**`ResourceNames`**. A path is a sequence of segments, each of which remembers
whether the customer chose it. Its actions rebuild the route of a child
resource from an ID, template it for the SDK's row of the request and take
names out of the messages, one segment at a time as the loops do.

**`EntraCollect`**. `pc` is the read in hand; `miss[r]` the `*missing` of each
read; `written`, `gaps` and `unavailable` are the artifact, the recorder and
`capabilities_unavailable`. One action per handler, `Handle(x)` for the answer
`x`: a list, a 403 that names a license, any other refusal, a 404, or another
failure (retries spent, token lost, bad page). A list is abstracted to the
sizes handlers compare with zero (`tenant`), a value to whether it is written.

The numbers behind those values have modules of their own.
**`Users`** makes the three user reads of a directory that changes meanwhile,
against a registration report Graph refreshes only now and then, and keeps a
count as the set of users counted. **`Credentials`** weighs the credentials
of a tenant that issues and withdraws them, over several runs. **`Privileged`** has
the loops over role assignments and eligibility schedules and the values over
the holders, beside what those values would be if the members of groups were
known. **`SignInActivity`** folds a window of sign-ins with hidden risk levels
and omitted policies, and takes the top codes from an unordered map.

**`ConditionalAccess`**. The loop of `mfaPolicyCoveredCount` one policy at a
time (`StepOver` passes a disabled one), with the flags of `computePolicy`.
The end of the module says what a policy demands of one sign-in, with group
and role members chosen freely: the code never computes this, and the
properties compare the two.

**`AzureCollect`**. `account` and `step` are the loop of `collectAzure` and the
order of `collectAzureSubscription`; `found` is what its local variables carry
from one handler to a later one, emptied for each subscription. A handler is
one action that chooses which of its reads fail, from those it makes: a
database's encryption is asked for only on a server that was listed, a storage
account's settings only until one sends. Values put together from several
reads keep their numbers; a percentage over one list is only written or not.
The remaining predicates on a single resource (a TLS version is recent, a
setting is on) are thereby abstracted away. **`Exposure`** and **`Inventory`**
have the two that are more than a comparison: security rules beside the order
in which Azure applies them, and tags and types counted over maps walked in
any order.

**`IDPPosture`** extends `EntraCollect` with one step at the end of the
collection, `EmitPosture` or `EmitNothing`. **`CloudPosture`** does the same
for `AzureCollect`, account by account. **`AccessPosture`** keeps the loop of
`accessPosture`: `Merge` a subscription's population into the totals, write
its scope or leave it out, and write the totals last.

**`Run`** extends `EntraCollect`, takes `AzureCollect` as an instance, and puts
the sign-in before them, one `diagnostics` value under both, its `copies` at
the points where `Collect` makes them, and `addDeprecatedIAM` at the end.

**`MCAccess`**, **`MCRequests`** and **`MCCounts`** put several small modules side
by side in one model. The parts share no state in the code either, so a behaviour takes one
part and leaves the others at a fixed start: only interleavings no property
can tell apart are left out.

In each module the definitions named *Mutant* in their comment are plausible
mistakes. No specification uses them; each shows that some property would
notice.

## Runs

| Run | Question | States |
|---|---|---|
| `entra_collect` | Whichever three Graph reads fail, is every value of the Entra artifact written from what was read, explained by one gap with the right cause, or null over an empty population; does the identity posture say the same, gap for gap; does the run end? | 280,660 |
| `azure_collect` | The same of Azure and the cloud posture, for one and two subscriptions; is every number that of the whole subscription, and every partial gap's count right? | 47,397 |
| `access` | Who may do what: are the flags and the counted coverage right, whoever is in the groups and roles; are the access posture's scopes and totals true of everyone they speak of, or left out? | 131,925 |
| `requests` | From the configuration to the answer of a call: do credentials go to listed hosts only, is no token carried that is known to be refused or expired, do routes reach their resource and records drop its name, is a list whole or a failure that names its cause, and does each of these end? | 577,027 |
| `run` | With everything put together: does each artifact name every failure of the run, also those of the other half; does the `iam` block follow Entra; does the run come to its artifacts? | 72,260 |
| `counts` | The numbers: users and credentials that change between reads, roles that groups hold, sign-ins with hidden parts, rules, tags and types. Is each written count the right one? | 2,140,916 |

Six runs expect a violation. Each states what a comment, a test or a document
of the repository says and shows where the code does otherwise:

- `entra_license`: the sign-ins of a tenant without P2 hide their risk levels.
  The gap is `not_licensed`, but `capabilities_unavailable` stays empty,
  contrary to `docs/overview.md` 95-102.
- `idp_left_out`: a normalized share over an empty population is null even if
  its Entra value was left out with a gap; the comment of `IDPPosture` says it
  is absent.
- `ca_browser_only`: `appliesToEverySignIn` ignores `clientAppTypes`, so a
  policy for browsers alone sets `mfa_required`.
- `ca_named_twice`: a policy that names a member among its included and its
  excluded users counts the member as covered, because `ExcludeUsers` is only
  looked at when the policy targets All.
- `hidden_level`: a sign-in with one hidden and one risky level is counted as
  risky and the count is written. The comment at `entra_sign_in_monitoring.go`
  70 and the schema say the count is left out when a level is hidden. That the
  written count is nevertheless the same whatever stands behind the hidden
  level is what `WrittenCountsAreCertain` says in `counts`: the two differ on
  this sign-in, and only the second is what the code does.
- `group_names`: `resourceIDValue` takes the segment after the first one with
  the wanted name, so a server in a resource group named `servers`, or a vault
  in one named `vaults`, is asked for at a route with the name `providers`.

### Bounds, and why they are enough

- `MaxFailures` is 3 in `entra_collect`, the fewest failed reads that leave no
  posture to emit, 2 in `azure_collect`, 1 and 1 in `run`. No value depends on
  more than five reads, and what a further failure can do to a value already
  stopped is the choice of reason, which `firstMissing` makes pairwise. The
  proofs have no such bound.
- `MCEntraCollect` takes an ordinary tenant, those that lack what several
  handlers need, those that differ in facts one handler weighs together, and
  those that differ in facts no two of which one handler sees.
- `MCAzureEstates`: a subscription that holds two vaults, two servers and a
  resource of each kind, one that holds nothing, and one between; alone and in
  pairs. Two vaults are what a partial read needs, and the policy one vault's
  item uses is in reach of a smaller one that is not used. A failed job on the
  last hour of the seven days and one an hour older are the boundary. `run`
  takes the two small ones in a row.
- `MCConditionalAccess`: up to two policies, each differing from Microsoft's
  MFA or legacy-blocking policy in one part. It leaves out what the violation
  runs are about, a user named in and out, and policies that leave in no app.
- `MCAccessPosture`: two subscriptions with up to two and one assignments, so
  a principal can appear in both, with a group or an unsorted principal
  beside it.
- `MCRequests`, pages: three pages, in line, cut short, led astray or in a
  circle, with a list and an object of either client. `MaxCalls` is 4, one
  more than a whole list takes, and stands for the run's deadline.
- `MCRequests`, tokens: the minute (`Margin`) is the unit of time, an answer
  comes within it or after it, one lifetime is as long as the margin and one
  longer, the assumed hour (`DefaultLifetime`) between them, a clock of five
  units (`MaxTime`) and two reads (`MaxReads`), which renews each token. The
  tokens (`Claims`) are one either service is asked with, which says nothing
  of its tenant, one without roles, and one for each reason to be refused.
  Checked in the federated mode; the proof covers both, and all claims.
- `MCRequests`, names: the words paths are made of, as names of resource
  groups and of resources, and one name that is no such word. Hosts: both
  modes with and without each credential, and each field with a value
  `Validate` refuses. `MaxRenewals` is 2, one for each audience.
- `MCCounts`, users: `InactiveDays` 1, two days and two changes of the
  directory (`MaxDay`, `MaxChanges`), so that a user may change between any
  two of the three reads, and sign in on either side of the window.
- `MCCounts`, credentials: `ExpiryWindow` 2 and `Year` 3 stand for 30 and 365
  days, with credentials that end inside the window, at its end and after it;
  `LastDay` 3, two changes and two runs, the fewest that can disagree.
- `MCCounts`, holders: three assignments (`MaxAssignments`) give a user, a
  group and an app each one, or one user two roles; one eligibility schedule.
- `MCCounts`, sign-ins: three codes, two of them listed (`TopLimit`), and five
  sign-ins (`MaxSignIns`), so that two codes tie at the limit. Network: two
  groups (`MaxGroups`) of up to two rules, with ranges that just hold and just
  miss the ports. Resources: five of two listed types (`Limit`,
  `MaxResources`), so that types tie at the limit.

Deadlock is not checked: a run of the program stops.

### Fairness

`WF(Next)` in the collections and in `Run`, weak fairness of the call in hand
(`TakesAStep`) in `MCRequests`, and none of the passage of time. It says that
a call returns: with an answer, with an error, or with the run's deadline (the
SDK's, 30 minutes), which the client reports as an error. There is nothing
else to schedule in a program of one goroutine. A list whose pages link in a
circle is bounded by that deadline only.

## Proofs

A theorem here holds for every value of the constants that the named
assumptions of its module allow: any tenant, any number of subscriptions,
policies, pages, sign-ins or failures. Eight modules prove forty-eight theorems,
among them every invariant and every action property of the passing runs; only
what speaks of fairness is left to TLC. A component's type invariant is a
theorem and not a property of a run, where it is proved.

In the modules that are proved about, a list is taken through the set of its
members or through its indices, and a sort or the walk of a map is any
arrangement it may leave, not a fold or a selection: of those the prover knows
nothing without induction over data.

### The Entra half

`EntraCollectProofs`, for every tenant, level and number of failures:

- `TypeCorrect` and `NullsExplained` (`EveryNullIsExplained`), which is not
  inductive alone: the handlers of the internal level must only run at that
  level, or an out-of-scope field would be written. The inductive invariant is
  `TypeOK /\ EveryNullIsExplained /\ InternalReads`, with one step of the proof
  per handler, under which the fields split into those the handler settles and
  those it leaves alone;
- `CollectionKeepsThePromise`: every step of the collection is a step of
  `Evidence` or a stutter, from the same invariant;
- `ValuesAreRead` (`NoValueFromAFailedRead`) and `UnavailableReallyIs`
  (`UnavailableIsUnavailable`). `ValuesInv` adds that nothing is settled ahead
  of its handler and that what the privileged block carries was read;
- `CausesOfGapsAreNamed` (`GapsNameTheirCause`). `CausesInv` adds that the
  outcome of a read names that read.

`IDPPostureProofs` goes on from `CausesInv`. `EntraInv` adds what the posture
reads between the lines: a failed read leaves a gap at each of its fields, a
count stands just when its reads did, and listed members are counted. `IDPInv`
adds that what is emitted is `ToIDPPosture` of the collected artifact. From it
follow `PostureRestsOnTheArtifact` (`PostureRestsOnEntra`) and
`AbsentValuesAreExplained` (`AbsentHasTheSameGap`).

`ConditionalAccess`, in `AccessProofs`, for every tenant of policies,
membership and finite set of members, from an invariant (`CAInv`) that says
what the loop has gathered from the policies behind it, and lemmas that relate
what the code looks at in a policy to what the policy does:

- `FlagsAreTrue` (`FlagsHoldOfSignIns`) and `FlagAndCoverage`
  (`FlagAndCoverageAgree`);
- `CoverageCountsTheCovered`: `CoverageIsRight` in every tenant whose policies
  are usual (`EveryPolicyIsUsual`): none names a user in and out without being
  for All, the case of `ca_named_twice`, and none leaves in no app at all.

### The Azure half

`AzureProofs`, for every list of subscriptions, whatever they hold, every level
and number of failures. Twelve handlers run for each subscription, and some use
what earlier ones found. `TurnInv`, stated as `RunIsInTurn`, says that the place
of the run, the reads that failed, what is settled and what is carried agree:
no read failed and no field was settled ahead of its turn, and a list in
`found` is complete unless the reason for which it is not stands beside it.
Each handler is then shown once to settle the fields of its own block, and those
only, as its own reads and `found` say, and one argument over all handlers gives:

- `NullsAreExplained` (`AzureNullsExplained`), `ValuesRest`
  (`ValuesRestOnTheirReads`) and `GapsNameTheirCause`
  (`AzureGapsNameTheirCause`, with the counts of partial gaps);
- `NumbersHold` (`NumbersAreTrue`), for which sums over the parts of a
  subscription are related to the sums over the whole;
- `AccountsKeepThePromise`: the collection implements the safety of `Evidence`.

`CloudProofs`: `PostureFollowsTheAccounts` (`CloudFollowsAzure`). `CloudInv`
adds to the Azure invariant that an unreadable subscription has that reason at
every field (`UnreadInv`) and that a missing retention has a gap
(`RetentionInv`), since the posture mirrors one value's gap to another.

`AccessPosture`, in `AccessProofs`, for every tenancy and directory:

- `AccessValuesHold` (`WrittenValuesAreTrue`): `AccessInv` says that the
  population merged so far describes the subscriptions behind the loop
  (`Describes`), whoever the hidden principals are;
- `AccessFieldsAnswered` (`ValueOrGap`): `PlacesInv` says that a finished place
  answers each field once, and any other place holds nothing;
- `TotalsAreOfTheScopes` (`TotalsFollowScopes`): `ToldInv` says what a place's
  values and gaps tell of its subscriptions, and lemmas relate what is told of
  each to what is told of all (a union is as large as its largest member and no
  larger than the sum).

### The run

`RunProofs`: `IAMFollows` (`IAMFollowsEntra`), by the Entra invariant, and
`EveryFailureIsNamed` (`EveryArtifactNamesEveryFailure`): `DiagnosticsInv`
joins both halves' invariants and says that the shared diagnostics name each
failed read, and that the copies of a finished run are all of its last state.
`AzureProofs` is used through an instance, whose assumptions `Run` states as
its own (`ConfigurationsAssumption`, `MaxAzureFailuresAssumption`).

### Requests

`RequestsProofs` has four modules' theorems. `SignIn`, for every margin, delay,
lifetime, set of claims and mode:

- `SignInTypeCorrect` and `NoBadTokenIsCarried` (`CarriedTokenIsGood`). The
  invariant adds that cached tokens were accepted and that their assumed
  expiry is a lifetime after their arrival, and that the token asked for is one
  the run needs.
- What the theorem does not promise is part of its statement. `expires_in` is
  counted from the arrival of the answer, so the expiry the code believes is
  late by the delay, and the minute it keeps clear absorbs a minute of it and
  no more. An answer without a lifetime is taken to be good for an hour,
  whatever its token is. These are the tokens of `TakenOnTrust`, and a token
  is carried past its expiry only if it is one of them. Of the tenant the
  theorem says that a token that names another is not carried, since one that
  names none is accepted.
- `CollectingGoesOn`, an action property (`OnlySignInFailsTheRun`), with
  `SignedIn`: the stages of the sign-in hold the tokens got before them.

`PagedRead`, for every service, call and number of requests:

- `ReadTypeCorrect`, `PagesAskedAlike` (`EveryPageAskedAlike`) and
  `CausesAreNamed` (`FailureNamesItsCause`);
- `ReadsAreWhole`: `PagedRead` implements the safety of `ListRead`. The
  invariant (`OnTheChain`, `StepFits`) is that the pages gathered are the chain
  from the first page to the one that is asked for next.

`Handler`: `CredentialsGoWhereTheyMay` (`CredentialsReachListedHosts`), for
every configuration, GUID and host. `HandlerInv` says that the hosts listed are
those the mode needs and that the credential a mode sends next is held.

`ResourceNames`, for every route and any names, a group named `servers`
included: `ResourcesAreReached` (`RoutesReachTheResource`) and `NamesAreLeftOut`
(`PathsDropTheNames`). `PathsInv` says how far along the path each loop is and
what it has masked behind it. `BracketsAssumption` is that nothing is called by
what a message would put in its place, as a group named `[resource_group]`:
such a name would stand in the message without having been told.

### Counts

`CountsProofs` has the numbers, for any number of the things counted:

- `Privileged`: `HoldersKnown`, `ValuesAreTrue`
  (`ValuesHoldForEveryMembership`), `CausesAreTheirOwn` (`LeftOutForItsCause`)
  and `StandingIsCounted`. The invariant is that the sets the loop keeps are
  those of the assignments it has seen (`Loop`), and what the block is once the
  loops are over (`Outcome`).
- `Credentials`: `CredentialsTyped`, `AllAreWeighed` (no credential that was
  there throughout a run escapes it) and `ExpiriesAreForeseen`
  (`ExpiryIsForeseen`, across two runs), for every window and year. The
  invariant is that each finished run was weighed at its own time
  (`WeighedRight`) and that the lists of a run under way hold every credential
  that was there since it began (`ListsHoldSteady`).
- `Users`: `SteadyUsersAreCounted` (`SteadyUsersCount`), `UnregisteredAreListed`,
  `SharesAreOfTheirList` and `InactiveReallyAre` (`InactiveDidNotSignIn`),
  however the directory and the report change.
- `SignInActivity`: `CountsAreCertain` (`WrittenCountsAreCertain`) and
  `TopCodesAreTheTop` (`TopCodesAreDetermined`). The invariant is what has been
  counted of the sign-ins folded so far: the risky ones and whether any is
  unrated (`RiskInv`), the policies (`PoliciesInv`) and the codes (`CodesInv`).
  That every walk of the map gives one list is by counting: a code's place is
  one more than the number of codes ahead of it.
- `Exposure`: `OpenGroupsAreCounted` (`StrangersAreCounted`), with the first
  rule that matches found by the least-number principle.
- `Inventory`: `InventoryIsTheSame` (`InventoryIsDetermined`). A tag's key
  decides by its place in `environmentTagKeys` and the spellings of one key by
  their order, so every sorted walk finds the same tag. `KeysAssumption` is
  that no key is listed twice.

### Left to TLC

Everything that speaks of fairness: the end of the two promises
(`KeepsThePromise`, `AzureKeepsThePromise`), `EveryPartEnds` and `RunCompletes`.
Neither fairness nor the enabledness behind it is in the prover's reach. The
assumptions on constants are checked too: each passing run evaluates them for
its own. The violation runs are TLC's as well: a counterexample needs no proof.

## External code

`Recorder.Mirror` is taken to copy the reason of a gap at the source, or at
the block that holds it, to the target, and nothing when there is none: this
is how `cloudPostureSources` and `idpPostureSources` use it, which list fields
of blocks that are left out whole. Percentages are the SDK's, rounded as the
code asks; no property is about the rounding. Retries happen in the SDK's
transport, below the outcome of a request. Microsoft's services are taken to
answer anything `PagedRead` can tell apart, and Azure to apply security rules
in the order of their priority. What Conditional Access does with a sign-in is
Microsoft's documented rule: all enabled policies that apply must be
satisfied, and an exclusion wins over an inclusion.

## Not modelled

- The counts over directory audits: each is one predicate on one event, with
  no state and no order.
- The patterns that take tokens and query strings out of messages: regular
  expressions over text, without control. What happens to names is in
  `ResourceNames`.
- Schemas and method descriptions, which are data, and `main`, one call into
  the SDK. Emitting the artifacts is another, at the end of `Handler`.
- Rounding of percentages, the wording of warnings, and progress reports.

Some things seen while modelling, which no run calls wrong:

- `tenant_errors` of the diagnostics is written and never filled.
- A token passes `validateAppOnlyToken` without a `tid` claim, and with a `scp`
  that is no string; it takes part in `requests`. An `expires_in` that is
  missing is taken for an hour, also when the answer is that of a token that
  lives less.
- Entries of `subscription_ids` that are not strings are dropped before the
  list is validated (`handler.go` 94), while `docs/overview.md` 19 promises an
  account for each entry.
- The registration counts of privileged users count report rows, not users.
- `compute/public_ip_pct` gets a gap even where there are no machines to
  measure.
- `CompletedWithWarnings` is a successful backup although the schema speaks of
  completed or succeeded jobs.
- The count gaps of the normalized artifacts are mirrored at the trust level,
  which never writes the counts.
- A policy that targets only some apps counts towards the MFA coverage.
- A security group that denies a port before it allows it counts as open.
