----------------------------- MODULE PagedRead ------------------------------
(***************************************************************************)
(* One call of a Graph or Resource Manager client, from its route to the   *)
(* list, the object or the failure it returns: the next-page links a       *)
(* service answers with, the token a request carries, and every way a      *)
(* page can fail.                                                          *)
(*                                                                         *)
(* Both clients have the same code.  A page's items are its identity: what *)
(* matters of them is which pages the answer is made of.                   *)
(***************************************************************************)
EXTENDS Integers, Sequences, SequencesExt

CONSTANTS
  Pages,      \* the pages a service has
  FirstPage,  \* the one the call's own route asks for
  Services,   \* what a service may hold: a link and a first item per page
  Calls,      \* the calls considered, of AllCalls
  MaxCalls    \* bound: the requests sent before the run's 30 minutes are over

(* The collections the clients list, page by page.                         *)
GraphLists ==
  {"graph.users.list", "graph.users.sign_in_activity.list",
   "graph.user_registration_details.list", "graph.sign_ins.list",
   "graph.conditional_access.policies.list", "graph.role_assignments.list",
   "graph.role_eligibility_schedules.list", "graph.applications.list",
   "graph.service_principals.list", "graph.secure_scores.list",
   "graph.directory_audits.list"}
ARMLists ==
  {"arm.resources.list", "arm.defender.assessments.list",
   "arm.role_assignments.list", "arm.policy.assignments.list",
   "arm.storage.accounts.list", "arm.keyvault.vaults.list",
   "arm.sql.servers.list", "arm.compute.virtual_machines.list",
   "arm.network.security_groups.list", "arm.network.public_ip_addresses.list",
   "arm.monitor.diagnostic_settings.list",
   "arm.monitor.subscription_diagnostic_settings.list",
   "arm.backup.vaults.list"}
(* The lists of a server or a vault, whose route is built from its ID.     *)
ChildLists ==
  {"arm.sql.databases.list", "arm.backup.protected_items.list",
   "arm.backup.policies.list", "arm.backup.jobs.list"}
(* The single objects, each of which must have the property it is read for.*)
Objects ==
  {"graph.security_defaults.get", "arm.subscriptions.get",
   "arm.defender.secure_score.get", "arm.policy.states.summarize",
   "arm.sql.transparent_data_encryption.get"}
(* The calls whose route begins with the ID of a resource as it was read.  *)
CallsByID ==
  {"arm.sql.transparent_data_encryption.get", "arm.monitor.diagnostic_settings.list"}
(* The organization, a list of which only the first item is used.          *)
FirstOfList == {"graph.organization.get"}

AllCalls == GraphLists \cup ARMLists \cup ChildLists \cup Objects \cup FirstOfList

(* The read that asks for the enum members Graph would otherwise hide.     *)
WithPreferHeader == {"graph.sign_ins.list"}

(* Where a link leads: to the service itself (a relative route, or one of  *)
(* the base URL's scheme and host), to the same host over http, to the     *)
(* other Microsoft service, to a host of neither, or nowhere: a URL that   *)
(* does not parse, or a relative route no request can be made for.         *)
OwnLinks == {"relative", "same_origin"}
OtherLinks ==
  {"downgraded", "other_service", "elsewhere", "malformed", "unparsable"}
Links == [to : OwnLinks \cup OtherLinks, page : Pages]
NoLink == [to |-> "none", page |-> FirstPage]
FirstItems == {"named", "unnamed", "none"}

ASSUME PagesAssumption ==
  /\ FirstPage \in Pages
  /\ "last" \notin Pages /\ "refused" \notin Pages
ASSUME ServicesAssumption ==
  Services \subseteq [Pages -> [link : Links \cup {NoLink}, first : FirstItems]]
ASSUME CallsAssumption == Calls \subseteq AllCalls
ASSUME MaxCallsAssumption == MaxCalls \in Nat

(* What comes back on a request: a body that is read to its end or not, a  *)
(* status, a length over or under maxResponseBytes, and JSON that has the  *)
(* value array or required property, has not, or does not decode.          *)
Responses ==
  [read : BOOLEAN, status : {"2xx", "other"}, long : BOOLEAN,
   json : {"value", "no_value", "garbled"}]
NoResponse == [read |-> FALSE, status |-> "none", long |-> FALSE, json |-> "none"]

VARIABLES
  call,      \* the call
  held,      \* what the service holds
  next,      \* the link about to be followed
  out,       \* the pages read so far
  step,      \* where in the call the client is
  response,  \* the response to the last request sent
  sent,      \* each request that left: where it went, with the header or not
  result     \* reading, ok, or the failure the caller gets

readVars == <<call, held, next, out, step, response, sent, result>>

Steps == {"route", "request", "send", "answer", "done"}
Failures == {"invalid_response", "no_request", "no_token", "request_failed",
             "refused", "too_large", "undecodable"}

(* A relative route is joined to the base URL as it is; an absolute one    *)
(* must keep its scheme and host.                                          *)
resolveServiceURL(link) ==
  IF link.to \in OwnLinks \cup {"unparsable"} THEN "own" ELSE "refused"

wrongJSON ==
  [value |-> "none", no_value |-> "invalid_response", garbled |-> "undecodable"]

(* Mutant: the length is looked at before the status.                      *)
failureLongFirst(a) ==
  IF ~a.read THEN "request_failed"
  ELSE IF a.long THEN "too_large"
  ELSE IF a.status = "other" THEN "refused"
  ELSE wrongJSON[a.json]

(* What is wrong with a response, in the order it is looked at.            *)
failure(a) ==
  IF ~a.read THEN "request_failed"
  ELSE IF a.status = "other" THEN "refused"
  ELSE IF a.long THEN "too_large"
  ELSE wrongJSON[a.json]

(* Mutant: the header is added to the first request only.                  *)
headerOnFirstPage == call \in WithPreferHeader /\ out = <<>>

(* The header is added to the request for every page.                      *)
header == call \in WithPreferHeader

(* An object's further link, if it had one, is not read.                   *)
nextLink(p) == IF call \in Objects THEN NoLink ELSE held[p].link

(* The first organization of the list must be there and have an id.        *)
hasNoOrganization(s) ==
  /\ call \in FirstOfList
  /\ \A i \in 1 .. Len(s) :
       (\A j \in 1 .. i - 1 : held[s[j]].first = "none") => held[s[i]].first # "named"

ReadInit ==
  /\ call \in Calls
  /\ held \in Services
  /\ \/ next = [to |-> "relative", page |-> FirstPage]
     \/ call \in CallsByID /\ next = [to |-> "unparsable", page |-> FirstPage]
  /\ out = <<>>
  /\ step = IF call \in ChildLists THEN "route" ELSE "request"
  /\ response = NoResponse
  /\ sent = <<>>
  /\ result = "reading"

(* Mutant: a failing page ends the list with the pages before it.          *)
FailWithPart(why) ==
  step' = "done" /\ result' = IF out # <<>> THEN "ok" ELSE why

Fail(why) == step' = "done" /\ result' = why

(* The route of a server's or a vault's list is built from its ID, or the  *)
(* ID has not the parts it must have.                                      *)
Route ==
  /\ step = "route"
  /\ \/ step' = "request" /\ UNCHANGED result
     \/ Fail("invalid_response")
  /\ UNCHANGED <<call, held, next, out, response, sent>>

(* The URL is resolved, and the request made, before a token is asked for. *)
newRequest ==
  /\ step = "request"
  /\ \/ resolveServiceURL(next) = "refused" /\ Fail("invalid_response")
     \/ next.to = "unparsable" /\ Fail("no_request")
     \/ next.to \in OwnLinks /\ Fail("no_token")
     \/ next.to \in OwnLinks /\ step' = "send" /\ UNCHANGED result
  /\ UNCHANGED <<call, held, next, out, response, sent>>

(* A request leaves while the run's deadline has not passed; it may fail   *)
(* at any time and does fail after it.                                     *)
Send ==
  /\ step = "send"
  /\ \/ /\ Len(sent) < MaxCalls
        /\ sent' = Append(sent, [to |-> resolveServiceURL(next), prefer |-> header])
        /\ step' = "answer" /\ UNCHANGED result
     \/ sent' = sent /\ Fail("request_failed")
  /\ UNCHANGED <<call, held, next, out, response>>

Return == Fail(IF hasNoOrganization(out') THEN "invalid_response" ELSE "ok")

(* The response is read and checked, its items added, its link taken up.   *)
Answer ==
  /\ step = "answer"
  /\ response' \in Responses
  /\ IF failure(response') # "none"
     THEN Fail(failure(response')) /\ UNCHANGED <<next, out>>
     ELSE /\ out' = Append(out, next.page)
          /\ next' = nextLink(next.page)
          /\ IF next' = NoLink THEN Return ELSE step' = "request" /\ UNCHANGED result
  /\ UNCHANGED <<call, held, sent>>

ReadNext == Route \/ newRequest \/ Send \/ Answer

(* One goroutine runs the call and the deadline ends every wait, so a step *)
(* that can be taken is taken.                                             *)
ReadSafety == ReadInit /\ [][ReadNext]_readVars
ReadSpec == ReadSafety /\ WF_readVars(ReadNext)
-----------------------------------------------------------------------------
ReadTypeOK ==
  /\ call \in Calls
  /\ held \in Services
  /\ next \in Links \cup {NoLink}
  /\ out \in Seq(Pages)
  /\ step \in Steps
  /\ response \in Responses \cup {NoResponse}
  /\ sent \in Seq([to : {"own"}, prefer : BOOLEAN])
  /\ result \in Failures \cup {"reading", "ok"}

(* The caller's answer, and where each page's link lets the read go on.    *)
Answered ==
  [state |-> IF result = "reading" THEN "unread"
             ELSE IF result = "ok" THEN "read" ELSE "failed",
   pages |-> IF result = "ok" THEN out ELSE <<>>]
Onward ==
  [p \in Pages |->
     IF held[p].link = NoLink THEN "last"
     ELSE IF held[p].link.to \in OwnLinks THEN held[p].link.page
     ELSE "refused"]

(* A read is the whole of a list or a failure: a page that fails after     *)
(* others were read, a link to another place, links in a circle and the    *)
(* deadline of the run leave the caller no part of a list to count         *)
(* (getPagedWithHeader, getARMPaged).                                      *)
Whole == INSTANCE ListRead
  WITH service <- Onward, paged <- (call \notin Objects), answer <- Answered
ReadIsWhole == Whole!ListSpec

(* A request, and the token it carries, goes to the service's own scheme   *)
(* and host only, and one of the sign-ins names every page's enum members  *)
(* (resolveServiceURL, getPagedWithHeader).                                *)
EveryPageAskedAlike ==
  \A i \in 1 .. Len(sent) :
    sent[i] = [to |-> "own", prefer |-> call \in WithPreferHeader]

(* A failure names its cause: a refusal is a refusal whatever body it has, *)
(* since the code and message in that body tell a missing license from a   *)
(* missing permission, and invalid_response is the service's fault alone   *)
(* (GraphClient.do, ARMClient.do).                                         *)
FailureNamesItsCause ==
  step = "done" =>
    /\ (result = "refused" <=> response.read /\ response.status = "other")
    /\ result = "too_large" => response.long
    /\ result = "invalid_response" =>
         \/ call \in ChildLists /\ sent = <<>>
         \/ next.to \in OtherLinks \ {"unparsable"}
         \/ response.json = "no_value"
         \/ call \in FirstOfList

(* A read ends, whatever the service answers (getPagedWithHeader, Collect).*)
ReadEnds == <>(step = "done")
=============================================================================
