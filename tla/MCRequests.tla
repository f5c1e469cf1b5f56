----------------------------- MODULE MCRequests -----------------------------
(***************************************************************************)
(* What stands between the collections and the services, side by side: the *)
(* pages of a read, the names in its path, the tokens it carries and the   *)
(* hosts it may go to.  The parts share no state, so a behaviour takes one *)
(* of them and leaves the others where they start.                         *)
(*                                                                         *)
(* Pages: three in line, cut short, led astray or back in a circle, with   *)
(* one call of each kind.  Names: words of a path, and one that is not.    *)
(* Tokens: a minute that is the unit of time, which an answer may take or  *)
(* outlast; one lifetime is no longer than the margin, so that the token   *)
(* is never fresh, one is longer, the hour assumed is between them, and    *)
(* the run is long enough to renew each.  Hosts: both modes with and       *)
(* without each of their credentials, and each field with a value that     *)
(* Validate refuses.                                                       *)
(***************************************************************************)
EXTENDS PagedRead, MCResourceNames, SignIn, Handler

To(p) == {[to |-> t, page |-> p] : t \in OwnLinks}
Astray == {[to |-> t, page |-> "p1"] : t \in OtherLinks}
Along(ps) == [to : {"same_origin"}, page : ps]

mcPages == {"p1", "p2", "p3"}
mcFirsts ==
  {<<"named", "named", "named">>, <<"none", "unnamed", "named">>,
   <<"none", "none", "none">>}
mcServices ==
  {[p \in mcPages |->
      CASE p = "p1" -> [link |-> l1, first |-> f[1]]
        [] p = "p2" -> [link |-> l2, first |-> f[2]]
        [] OTHER -> [link |-> l3, first |-> f[3]]] :
     l1 \in {NoLink} \cup To("p2") \cup Along({"p1"}) \cup Astray,
     l2 \in {NoLink} \cup Along({"p1", "p3"}),
     l3 \in {NoLink} \cup Along({"p2"}) \cup Astray,
     f \in mcFirsts}
mcCalls ==
  {"graph.users.list", "graph.sign_ins.list", "arm.backup.jobs.list",
   "arm.sql.transparent_data_encryption.get", "graph.organization.get"}

mcLifetimes == {1, 3}

(* A token without a tid and with a list for its scp, which either service *)
(* is asked with; one without roles, one of another tenant, a delegated    *)
(* one, and what is no token.                                              *)
Loose == [jwt |-> TRUE, scp |-> "other", tid |-> "none", roles |-> TRUE]
mcClaims ==
  {Loose,
   [Loose EXCEPT !.tid = "own", !.scp = "none", !.roles = FALSE],
   [Loose EXCEPT !.tid = "other"], [Loose EXCEPT !.scp = "string"],
   [Loose EXCEPT !.jwt = FALSE]}

SubscriptionLists ==
  {<<>>, <<"guid1">>, <<"guid2", "guid1">>, <<"guid1", "text">>,
   <<"guid1", "not a string">>, <<"not a string">>}
Environments ==
  [tenant : {"guid1"}, client : {"guid1"}, mode : {"oidc", "client_secret"},
   subscriptions : SubscriptionLists, secret : BOOLEAN,
   requestURL : {"", NoHost, "runner"}, requestToken : BOOLEAN,
   tokenFile : {"", "missing", "blank", "token"}]
Refusable ==
  [tenant : {"guid1", "common", "text", "", "not a string"},
   client : {"guid1", "text", ""}, mode : {"oidc", "client_secret", "text", ""},
   subscriptions : {<<"guid1">>}, secret : {TRUE}, requestURL : {""},
   requestToken : {FALSE}, tokenFile : {"token"}]
mcConfigs == Environments \cup Refusable

-----------------------------------------------------------------------------
VARIABLE part

requestsVars == <<readVars, namesVars, signInVars, handlerVars, part>>

RequestsInit ==
  /\ part \in {"pages", "names", "tokens", "hosts"}
  /\ part # "pages" => /\ call = CHOOSE c \in mcCalls : TRUE
                       /\ held = CHOOSE s \in mcServices : TRUE
  /\ part # "names" => namedCall = CHOOSE c \in NamedCalls : TRUE
  /\ part # "hosts" => raw = CHOOSE c \in mcConfigs : TRUE
  /\ ReadInit /\ NamesInit /\ Init /\ HandlerInit

(* The steps of a part that its fairness is about.                         *)
TakesAStep ==
  /\ UNCHANGED part
  /\ \/ part = "pages" /\ ReadNext /\ UNCHANGED <<namesVars, signInVars, handlerVars>>
     \/ part = "names" /\ NamesNext /\ UNCHANGED <<readVars, signInVars, handlerVars>>
     \/ part = "tokens" /\ Call /\ UNCHANGED <<readVars, namesVars, handlerVars>>
     \/ part = "hosts" /\ HandlerNext /\ UNCHANGED <<readVars, namesVars, signInVars>>

TimePasses ==
  part = "tokens" /\ Tick /\ UNCHANGED <<readVars, namesVars, handlerVars, part>>

RequestsNext == TakesAStep \/ TimePasses
RequestsSpec ==
  /\ RequestsInit /\ [][RequestsNext]_requestsVars /\ WF_requestsVars(TakesAStep)

(* Every call, and every run that makes them, comes to its end: a read     *)
(* whose links lead in a circle, a path that is rewritten in place, a run  *)
(* that keeps losing its tokens, one that signs in and then loses them.    *)
EveryPartEnds ==
  /\ part = "pages" => ReadEnds
  /\ part = "names" => CallsAreSettled
  /\ part = "tokens" => RunEnds
  /\ part = "hosts" => HandlerEnds
=============================================================================
