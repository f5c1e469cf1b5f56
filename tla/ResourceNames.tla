--------------------------- MODULE ResourceNames ----------------------------
(***************************************************************************)
(* The path of a Resource Manager call: how it is put together from the ID *)
(* of the resource it is about, and how the names the customer chose are   *)
(* taken out of it again, for the SDK's row of the request (TemplateRoute) *)
(* and for the message of an error (sanitizePath).                         *)
(*                                                                         *)
(* A name may be any word, those that paths are made of included, so a     *)
(* segment of a path keeps whether the customer chose it.  Segments are    *)
(* compared without case, and are in lower case here.  Names are escaped   *)
(* in a path and read back by the service, which is left out.              *)
(***************************************************************************)
EXTENDS Naturals, Sequences, FiniteSetsExt

CONSTANTS
  Groups,  \* the names resource groups may have
  Names    \* and those of resources

ASSUME GroupsAssumption == Groups \subseteq STRING /\ "" \notin Groups
ASSUME NamesAssumption == Names \subseteq STRING /\ "" \notin Names

(* What stands in a message for the name of a resource of a type.          *)
Bracketed(type) == "[" \o type \o "]"

(* Nothing is called by what a message would put in its place.             *)
ASSUME BracketsAssumption ==
  /\ "[resource_group]" \notin Groups
  /\ \A type \in {"servers", "databases", "vaults", "virtualmachines",
                   "transparentdataencryption"} :
       Bracketed(type) \notin Names \cup {"current", "providers"}

Word(t) == [text |-> t, named |-> FALSE]
Name(t) == [text |-> t, named |-> TRUE]
Segments(words) == [i \in DOMAIN words |-> Word(words[i])]
Path == Seq([text : STRING, named : BOOLEAN])

(* The IDs the lists of a subscription give.                               *)
Subscription == <<Word("subscriptions"), Name("sub-1")>>
Under(g) == Subscription \o <<Word("resourcegroups"), Name(g), Word("providers")>>
Server(g, n) == Under(g) \o <<Word("microsoft.sql"), Word("servers"), Name(n)>>
Database(g, n, d) == Server(g, n) \o <<Word("databases"), Name(d)>>
Vault(g, n) ==
  Under(g) \o <<Word("microsoft.recoveryservices"), Word("vaults"), Name(n)>>
Machine(g, n) ==
  Under(g) \o <<Word("microsoft.compute"), Word("virtualmachines"), Name(n)>>

(* A call: the ID it is about, the type of the parent its path is rebuilt  *)
(* around, or none when the ID is kept as it is, and what follows.         *)
NamedCall == [id : Path, parent : {"none", "servers", "vaults"}, child : Path]

ListCalls ==
  {[id |-> Subscription, parent |-> "none",
    child |-> Segments(<<"providers", "microsoft.sql", "servers">>)]}
ServerCalls ==
  {[id |-> Server(g, n), parent |-> "servers",
    child |-> Segments(<<"databases">>)] :
     g \in Groups, n \in Names}
VaultCalls ==
  {[id |-> Vault(g, n), parent |-> "vaults", child |-> Segments(<<c>>)] :
     g \in Groups, n \in Names,
     c \in {"backupprotecteditems", "backuppolicies", "backupjobs"}}
EncryptionCalls ==
  {[id |-> Database(g, n, d), parent |-> "none",
    child |-> <<Word("transparentdataencryption"), Name("current")>>] :
     g \in Groups, n \in Names, d \in Names}
SettingsCalls ==
  {[id |-> of, parent |-> "none",
    child |-> Segments(<<"providers", "microsoft.insights", "diagnosticsettings">>)] :
     of \in {Machine(g, n) : g \in Groups, n \in Names}
              \cup {Database(g, n, d) : g \in Groups, n \in Names, d \in Names}}

(* An ID a service should not give, of a server without its name.          *)
BadCalls ==
  {[id |-> Under(g) \o Segments(<<"microsoft.sql", "servers">>),
    parent |-> "servers", child |-> Segments(<<"databases">>)] :
     g \in Groups}

NamedCalls == ListCalls \cup ServerCalls \cup VaultCalls \cup EncryptionCalls
           \cup SettingsCalls \cup BadCalls

VARIABLES
  namedCall, \* the call that is made
  phase,     \* what becomes of it
  at,        \* the segment the loop is at
  path,      \* the path that is read or rewritten
  route,     \* the route the call asks for
  row,       \* the route of the SDK's row
  message    \* and the one in the error's message

namesVars == <<namedCall, phase, at, path, route, row, message>>

NamesInit ==
  /\ namedCall \in NamedCalls
  /\ phase = "asked" /\ at = 1
  /\ path = <<>> /\ route = <<>> /\ row = <<>> /\ message = <<>>

-----------------------------------------------------------------------------
Holding(parts, word) == {i \in 1 .. Len(parts) - 1 : parts[i].text = word}
NoValue == Word("")

(* Mutant: the last segment of the name is looked for.                     *)
lastValue(parts, word) ==
  IF Holding(parts, word) = {} THEN NoValue
  ELSE parts[Max(Holding(parts, word)) + 1]

(* What follows the first segment with the name.                           *)
resourceIDValue(parts, word) ==
  IF Holding(parts, word) = {} THEN NoValue
  ELSE parts[Min(Holding(parts, word)) + 1]

Provider == [servers |-> "microsoft.sql", vaults |-> "microsoft.recoveryservices"]

(* The route to a child, with the names of the parent taken from its ID,   *)
(* and none when the ID lacks one of them.                                 *)
ParentRoute(id, parent) ==
  LET subscription == resourceIDValue(id, "subscriptions")
      group == resourceIDValue(id, "resourcegroups")
      name == resourceIDValue(id, parent)
  IN IF NoValue \in {subscription, group, name} THEN <<>>
     ELSE <<Word("subscriptions"), Name(subscription.text),
            Word("resourcegroups"), Name(group.text), Word("providers"),
            Word(Provider[parent]), Word(parent), Name(name.text)>>

Rewrite(of, how) == path' = of /\ at' = 1 /\ phase' = how

(* The route is made, and the SDK takes its template for the row.          *)
MakeRoute ==
  LET parent == IF namedCall.parent = "none" THEN namedCall.id
                ELSE ParentRoute(namedCall.id, namedCall.parent)
  IN /\ phase = "asked"
     /\ parent # <<>>
     /\ route' = parent \o namedCall.child
     /\ Rewrite(route', "template")
     /\ UNCHANGED <<namedCall, row, message>>

(* An ID that lacks a name fails the call with a message about the ID.     *)
InvalidID ==
  /\ phase = "asked"
  /\ namedCall.parent # "none" /\ ParentRoute(namedCall.id, namedCall.parent) = <<>>
  /\ Rewrite(namedCall.id, "sanitize")
  /\ UNCHANGED <<namedCall, route, row, message>>

-----------------------------------------------------------------------------
IsAt(word) == at <= Len(path) /\ path[at].text = word

Rewritten(p, i, t) == [p EXCEPT ![i] = [text |-> t, named |-> @.named]]
Replaced(i, t) == IF i <= Len(path) THEN Rewritten(path, i, t) ELSE path
NotAName == ~(IsAt("subscriptions") \/ IsAt("resourcegroups") \/ IsAt("providers"))
Keep == UNCHANGED <<namedCall, phase, route, row, message>>

(* One iteration of TemplateRoute's loop: a name after its word is         *)
(* replaced and stepped over, the segment after a provider is only         *)
(* stepped over.                                                           *)
TemplateSegment ==
  /\ phase = "template" /\ at <= Len(path)
  /\ \/ IsAt("subscriptions") /\ at' = at + 2 /\ path' = Replaced(at + 1, "{id}")
     \/ IsAt("resourcegroups") /\ at' = at + 2 /\ path' = Replaced(at + 1, "{name}")
     \/ NotAName /\ at' = at + 1 /\ UNCHANGED path
  /\ Keep

(* Mutant: a second provider is taken for a type.                          *)
anyType(i) == i <= Len(path)

(* The types of a provider end where another provider begins.              *)
isType(i) == i <= Len(path) /\ path[i].text # "providers"

(* At a provider: at is then at its namespace.                             *)
TemplateProvider ==
  /\ phase = "template" /\ IsAt("providers")
  /\ at' = at + 1 /\ phase' = "template_names"
  /\ UNCHANGED <<namedCall, path, route, row, message>>

(* The loop over the types: each is followed by a name.                    *)
TemplateName ==
  /\ phase = "template_names"
  /\ IF isType(at + 1) /\ at + 2 <= Len(path)
     THEN path' = Replaced(at + 2, "{name}") /\ at' = at + 2 /\ UNCHANGED phase
     ELSE at' = at + 1 /\ phase' = "template" /\ UNCHANGED path
  /\ UNCHANGED <<namedCall, route, row, message>>

TemplateDone ==
  /\ phase = "template" /\ at > Len(path)
  /\ row' = path
  /\ phase' = "sent"
  /\ UNCHANGED <<namedCall, at, path, route, message>>

-----------------------------------------------------------------------------
(* The service answers, or an error names the route.                       *)
RouteAnswered ==
  /\ phase = "sent"
  /\ phase' = "done"
  /\ UNCHANGED <<namedCall, at, path, route, row, message>>

Failed ==
  /\ phase = "sent"
  /\ Rewrite(route, "sanitize")
  /\ UNCHANGED <<namedCall, route, row, message>>

(* Mutant: a segment that was replaced is stepped over, and the one after. *)
segmentStepOver == 3

(* Mutant: the loop does not go on after a name.                           *)
stay == 0

(* The replaced segment is no word, and is walked over in its turn.        *)
segmentStep == 1

(* One iteration of sanitizePath's loop.                                   *)
SanitizeSegment ==
  /\ phase = "sanitize" /\ at <= Len(path)
  /\ \/ /\ IsAt("subscriptions")
        /\ path' = Replaced(at + 1, "[subscription_id]") /\ at' = at + segmentStep
     \/ /\ IsAt("resourcegroups")
        /\ path' = Replaced(at + 1, "[resource_group]") /\ at' = at + segmentStep
     \/ NotAName /\ at' = at + 1 /\ UNCHANGED path
  /\ Keep

SanitizeProvider ==
  /\ phase = "sanitize" /\ IsAt("providers")
  /\ IF at + 1 > Len(path) THEN at' = at + 2 /\ UNCHANGED phase
     ELSE at' = at + 2 /\ phase' = "sanitize_names"
  /\ UNCHANGED <<namedCall, path, route, row, message>>

(* From here on every second segment is a name, and is replaced by the one *)
(* before it.  The loop reaches to the end of the path.                    *)
SanitizeName ==
  /\ phase = "sanitize_names"
  /\ IF at + 1 <= Len(path)
     THEN path' = Replaced(at + 1, Bracketed(path[at].text)) /\ at' = at + 2
            /\ UNCHANGED phase
     ELSE at' = at + 1 /\ phase' = "sanitize" /\ UNCHANGED path
  /\ UNCHANGED <<namedCall, route, row, message>>

SanitizeDone ==
  /\ phase = "sanitize" /\ at > Len(path)
  /\ message' = path
  /\ phase' = "done"
  /\ UNCHANGED <<namedCall, at, path, route, row>>

NamesNext ==
  \/ MakeRoute \/ InvalidID \/ TemplateSegment \/ TemplateProvider
  \/ TemplateName \/ TemplateDone \/ RouteAnswered \/ Failed \/ SanitizeSegment
  \/ SanitizeProvider \/ SanitizeName \/ SanitizeDone

NamesSpec == NamesInit /\ [][NamesNext]_namesVars /\ WF_namesVars(NamesNext)
-----------------------------------------------------------------------------
Texts(p) == [i \in DOMAIN p |-> p[i].text]
Placeholder(t) == t \in {"{id}", "{name}"}

(* Neither the row of a request nor the message of an error tells what the *)
(* customer called things, also when a name is a word paths are made of,   *)
(* and whether the message is about a route or about an ID that could not  *)
(* be used.  The row keeps every other segment, so that the requests of    *)
(* one call have one row (TemplateRoute, SanitizeRoute, SanitizeErrorText).*)
PathsDropTheNames ==
  LET asked == IF route = <<>> THEN namedCall.id ELSE route
  IN /\ row # <<>> =>
          /\ DOMAIN row = DOMAIN route
          /\ \A i \in DOMAIN row : IF row[i].named THEN Placeholder(row[i].text)
                                  ELSE row[i] = route[i]
     /\ message # <<>> =>
          /\ DOMAIN message = DOMAIN asked
          /\ \A i \in DOMAIN message :
               message[i].named => message[i].text # asked[i].text

(* A call about a resource asks for what is under that resource: the route *)
(* is its ID and the child, unless the resource group has the name of the  *)
(* type the server or vault is looked for by (sqlServerIDParts,            *)
(* recoveryServicesVaultRoute).                                            *)
RoutesReachTheResource ==
  route # <<>> /\ (namedCall.parent = "none" \/ namedCall.id[4].text # namedCall.parent) =>
    Texts(route) = Texts(namedCall.id \o namedCall.child)

(* The same whatever the resource group is called, as the tests of the     *)
(* client have it for one name of each.                                    *)
EveryGroupIsReached ==
  route # <<>> => Texts(route) = Texts(namedCall.id \o namedCall.child)

(* Both loops end, and with them the call.                                 *)
CallsAreSettled == <>(phase = "done")
=============================================================================
