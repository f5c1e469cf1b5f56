------------------------------ MODULE Handler -------------------------------
(***************************************************************************)
(* The handler of a run: it reads the configuration, validates it, gives   *)
(* the HTTP client the hosts credentials may go to, checks that the        *)
(* credentials of the mode are there, signs in for both audiences, and     *)
(* collects the subscriptions in turn, renewing tokens as they expire.     *)
(*                                                                         *)
(* What is kept of a request is the host it goes to and the credential it  *)
(* carries.  When a token expires, and what a token endpoint answers, is   *)
(* SignIn's; which pages a read asks for is PagedRead's.                   *)
(***************************************************************************)
EXTENDS Integers, Sequences, FiniteSets

CONSTANTS
  Configs,    \* the configurations and environments a run may find
  MaxRenewals \* bound: the tokens renewed while collecting

GUIDs == {"guid1", "guid2"}
NoHost == "no host"
Hosts == {"login", "graph", "management", "runner"}
Audiences == {"graph", "arm"}

(* A value that is not a string is "not a string"; a request URL is the   *)
(* host it names, and NoHost when it names none or does not parse.         *)
Config == [tenant : {"guid1", "common", "text", "", "not a string"},
           client : {"guid1", "text", ""},
           mode : {"oidc", "client_secret", "text", ""},
           subscriptions : Seq({"guid1", "guid2", "text", "not a string"}),
           secret : BOOLEAN,
           requestURL : {"", NoHost, "runner"}, requestToken : BOOLEAN,
           tokenFile : {"", "missing", "blank", "token"}]
ASSUME ConfigsAssumption == \A c \in Configs : c \in Config
ASSUME RenewalsAssumption == MaxRenewals \in Nat

VARIABLES
  raw,      \* the configuration the handler is given
  pc,       \* what it does next
  scope,    \* the audience a token is being got for
  hosts,    \* the hosts the client was told credentials may go to
  requests, \* the requests that carried a credential
  collected, \* the subscriptions collected so far
  renewals

handlerVars == <<raw, pc, scope, hosts, requests, collected, renewals>>

getString(v) == IF v = "not a string" THEN "" ELSE v
getStringSlice(s) == SelectSeq(s, LAMBDA v : v # "not a string")

(* The configuration as the handler reads it.                              *)
config == [raw EXCEPT !.tenant = getString(@), !.subscriptions = getStringSlice(@)]

onlyGUIDs(ids) == ids # <<>> /\ \A i \in DOMAIN ids : ids[i] \in GUIDs

Valid ==
  /\ config.tenant \in GUIDs /\ config.client \in GUIDs
  /\ config.mode \in {"oidc", "client_secret"}
  /\ onlyGUIDs(config.subscriptions)

serviceHosts == {"login", "graph", "management"}
CredentialHosts ==
  serviceHosts \cup
    (IF config.mode = "oidc" /\ config.requestURL # ""
     THEN {config.requestURL} \ {NoHost} ELSE {})

(* Mutant: the token of the request is not looked for.                     *)
requestURLGiven == config.requestURL # ""
githubOIDC == config.requestURL # "" /\ config.requestToken

HasCredentials ==
  IF config.mode = "oidc" THEN githubOIDC \/ config.tokenFile # "" ELSE config.secret

HandlerInit ==
  /\ raw \in Configs
  /\ pc = "validate" /\ scope = "graph"
  /\ hosts = {} /\ requests = {} /\ collected = <<>> /\ renewals = 0

-----------------------------------------------------------------------------
Validate ==
  /\ pc = "validate"
  /\ IF Valid
     THEN pc' = "new" /\ hosts' = CredentialHosts
     ELSE pc' = "config_invalid" /\ UNCHANGED hosts
  /\ UNCHANGED <<raw, scope, requests, collected, renewals>>

(* The first thing an audience's token needs.                              *)
acquire == IF config.mode = "oidc" THEN "assertion" ELSE "exchange"

New ==
  /\ pc = "new"
  /\ pc' = IF HasCredentials THEN acquire ELSE "auth_failed"
  /\ UNCHANGED <<raw, scope, hosts, requests, collected, renewals>>

(* Mutant: a token that cannot be renewed fails the run.                   *)
RefusedAtAnyTime ==
  pc' = "auth_failed" /\ UNCHANGED <<raw, scope, hosts, collected, renewals>>

(* A token not got ends the run at sign-in and leaves gaps after it.       *)
signingIn == renewals = 0
Refused ==
  /\ pc' = IF signingIn THEN "auth_failed" ELSE "collect"
  /\ UNCHANGED <<raw, scope, hosts, collected, renewals>>

Request(host, credential) ==
  requests' = requests \cup {[host |-> host, credential |-> credential]}

(* The identity token to exchange, from the runner or from a file.  A      *)
(* request for a URL without a host is not made.                           *)
oidcAssertion ==
  /\ pc = "assertion"
  /\ IF githubOIDC
     THEN \/ /\ config.requestURL # NoHost
             /\ Request(config.requestURL, "request_token")
             /\ \/ Refused
                \/ pc' = "exchange" /\ UNCHANGED <<raw, scope, hosts, collected, renewals>>
          \/ config.requestURL = NoHost /\ Refused /\ UNCHANGED requests
     ELSE /\ UNCHANGED requests
          /\ IF config.tokenFile = "token"
             THEN pc' = "exchange" /\ UNCHANGED <<raw, scope, hosts, collected, renewals>>
             ELSE Refused

AfterSignIn == IF scope = "graph" THEN acquire ELSE "organization"

tokenRequest ==
  /\ pc = "exchange"
  /\ Request("login", IF config.mode = "oidc" THEN "assertion" ELSE "client_secret")
  /\ \/ Refused
     \/ /\ IF signingIn
           THEN pc' = AfterSignIn /\ scope' = "arm"
           ELSE pc' = "collect" /\ UNCHANGED scope
        /\ UNCHANGED <<raw, hosts, collected, renewals>>

Organization ==
  /\ pc = "organization"
  /\ Request("graph", "graph_token")
  /\ pc' \in {"collect", "auth_failed"}
  /\ UNCHANGED <<raw, scope, hosts, collected, renewals>>

(* The next subscription, the tenant's Graph reads with the first.  A read *)
(* for which there is no token sends nothing.                              *)
Collect ==
  /\ pc = "collect" /\ Len(collected) < Len(config.subscriptions)
  /\ collected' = Append(collected, config.subscriptions[Len(collected) + 1])
  /\ \E made \in SUBSET {[host |-> "graph", credential |-> "graph_token"],
                          [host |-> "management", credential |-> "arm_token"]} :
       requests' = requests \cup made
  /\ UNCHANGED <<raw, pc, scope, hosts, renewals>>

Renew ==
  /\ pc = "collect" /\ renewals < MaxRenewals
  /\ Len(collected) < Len(config.subscriptions)
  /\ pc' = acquire /\ scope' \in Audiences /\ renewals' = renewals + 1
  /\ UNCHANGED <<raw, hosts, requests, collected>>

Emit ==
  /\ pc = "collect" /\ Len(collected) = Len(config.subscriptions)
  /\ pc' = "emitted"
  /\ UNCHANGED <<raw, scope, hosts, requests, collected, renewals>>

HandlerNext ==
  \/ Validate \/ New \/ oidcAssertion \/ tokenRequest \/ Organization
  \/ Collect \/ Renew \/ Emit

HandlerSpec == HandlerInit /\ [][HandlerNext]_handlerVars /\ WF_handlerVars(HandlerNext)

-----------------------------------------------------------------------------
(* The credentials the environment of a run holds, and the host each is    *)
(* for.                                                                    *)
HostOf(credential) ==
  CASE credential = "request_token" -> "runner"
    [] credential \in {"assertion", "client_secret"} -> "login"
    [] credential = "graph_token" -> "graph"
    [] credential = "arm_token" -> "management"
Held(credential) ==
  CASE credential = "request_token" -> raw.requestToken
    [] credential = "assertion" ->
         (raw.requestURL = "runner" /\ raw.requestToken) \/ raw.tokenFile = "token"
    [] credential = "client_secret" -> raw.secret
    [] OTHER -> TRUE

(* A run sends a credential only if it holds it, to the host it is for,    *)
(* and that is one the HTTP client was told of before: in every mode, also *)
(* when a token is renewed in the middle of a run, and never in a run that *)
(* the configuration ends (CredentialHosts, NewTokenSource, oidcAssertion).*)
CredentialsReachListedHosts ==
  /\ \A r \in requests :
       r.host = HostOf(r.credential) /\ r.host \in hosts /\ Held(r.credential)
  /\ pc = "config_invalid" => requests = {}

(* A run ends, and one that gets past sign-in emits.                       *)
HandlerEnds ==
  /\ <>(pc \in {"emitted", "config_invalid", "auth_failed"})
  /\ [](collected # <<>> => <>(pc = "emitted"))
=============================================================================
