------------------------------- MODULE SignIn --------------------------------
(***************************************************************************)
(* How a run signs in and keeps signed in: a token source for Microsoft    *)
(* Graph and one for Azure Resource Manager, the two tokens and the        *)
(* organization that must be got before anything is collected, and the     *)
(* tokens refreshed under the reads that follow.                           *)
(*                                                                         *)
(* Time is counted in units of which Margin make the minute that           *)
(* AccessToken keeps clear of a token's expiry.  One goroutine makes every *)
(* call, so the mutex of a TokenSource is never contended.                 *)
(***************************************************************************)
EXTENDS Integers, FiniteSets

CONSTANTS
  Margin,          \* the minute before the expiry in which a token is renewed
  Lifetimes,       \* how long the tokens Entra issues are good for
  DefaultLifetime, \* the hour assumed when the answer names no expires_in
  Claims,          \* the claims a token may have, of AllClaims
  Federated,       \* TRUE in oidc mode, where a token is exchanged for another
  MaxTime,         \* bound: the clock stops here
  MaxReads         \* bound: the reads of the run after sign-in

(* What AccessToken looks at in a token: whether it is a JWT, its scp      *)
(* claim, which a delegated token has and which may be no string, its tid, *)
(* which may be the configured tenant, another or not there, and whether   *)
(* it has application roles.                                               *)
AllClaims == [jwt : BOOLEAN, scp : {"none", "string", "other"},
              tid : {"own", "other", "none"}, roles : BOOLEAN]

ASSUME TimesAssumption ==
  /\ Margin \in Nat /\ DefaultLifetime \in Nat \ {0}
  /\ MaxTime \in Nat /\ MaxReads \in Nat
  /\ Lifetimes \subseteq Nat \ {0}
  /\ Federated \in BOOLEAN
ASSUME ClaimsAssumption == Claims \subseteq AllClaims

Scopes == {"graph", "arm"}

(* A token, from its issue for its lifetime, the moment its answer arrived *)
(* and whether that named the lifetime.                                    *)
Tokens == [claims : AllClaims, issued : Nat, life : Nat \ {0},
           arrived : Nat, named : BOOLEAN]
NoToken == [claims |-> [jwt |-> FALSE, scp |-> "none", tid |-> "none", roles |-> FALSE],
            issued |-> 0, life |-> 0, arrived |-> 0, named |-> FALSE]

VARIABLES
  now,       \* the clock
  source,    \* each scope's cached token and when it is taken to expire
  asked,     \* the token being asked for: its scope, stage and start
  stage,     \* how far the run is
  reads,     \* the reads made after sign-in
  unread,    \* how many of them failed for want of a token
  carried    \* the token the last request was sent with, and when

signInVars == <<now, source, asked, stage, reads, unread, carried>>

Stages == {"graph_token", "arm_token", "organization", "collecting",
           "collected", "failed"}
NotAsking == [scope |-> "none", step |-> "none", since |-> 0]
NotCarried == [scope |-> "none", token |-> NoToken, at |-> 0]

(* Mutant: a token of another tenant passes.                               *)
validateAnyTenant(claims, scope) ==
  claims.jwt /\ claims.scp # "string" /\ (scope = "arm" \/ claims.roles)

(* A claim that is not there, or not a string, is not held against it.     *)
validateAppOnlyToken(claims, scope) ==
  /\ claims.jwt
  /\ claims.scp # "string"
  /\ claims.tid # "other"
  /\ scope = "arm" \/ claims.roles

Init ==
  /\ now = 0
  /\ source = [s \in Scopes |-> [token |-> NoToken, expiresAt |-> 0]]
  /\ asked = NotAsking
  /\ stage = "graph_token"
  /\ reads = 0
  /\ unread = 0
  /\ carried = NotCarried

(* The clock runs on, however long an answer takes.                        *)
Tick ==
  /\ now < MaxTime
  /\ stage \notin {"collected", "failed"}
  /\ now' = now + 1
  /\ UNCHANGED <<source, asked, stage, reads, unread, carried>>

(* The scope the run's next call is for.  Collecting turns to either, as   *)
(* the Graph reads come before the Azure ones.                             *)
CallsFor ==
  CASE stage \in {"graph_token", "organization"} -> {"graph"}
    [] stage = "arm_token" -> {"arm"}
    [] stage = "collecting" /\ reads < MaxReads -> Scopes
    [] OTHER -> {}

(* Mutant: the token is kept until it expires.                             *)
freshToTheEnd(scope) ==
  source[scope].token # NoToken /\ now <= source[scope].expiresAt

(* A cached token is used while it has more than the margin to go.         *)
fresh(scope) ==
  source[scope].token # NoToken /\ now < source[scope].expiresAt - Margin

(* A call that got its token goes on: to the other token, to the lookup of *)
(* the organization, which may fail, or to the next read.                  *)
Carry(scope, token) ==
  /\ carried' = [scope |-> scope, token |-> token, at |-> now]
  /\ stage' \in CASE stage = "graph_token"  -> {"arm_token"}
                   [] stage = "arm_token"    -> {"organization"}
                   [] stage = "organization" -> {"collecting", "failed"}
                   [] OTHER                  -> {stage}
  /\ reads' = IF stage = "collecting" THEN reads + 1 ELSE reads
  /\ UNCHANGED unread

UseCached(scope) ==
  /\ asked = NotAsking
  /\ scope \in CallsFor
  /\ fresh(scope)
  /\ Carry(scope, source[scope].token)
  /\ UNCHANGED <<now, source, asked>>

(* In oidc mode an identity token is read first, and read anew each time.  *)
Ask(scope) ==
  /\ asked = NotAsking
  /\ scope \in CallsFor
  /\ ~fresh(scope)
  /\ asked' = [scope |-> scope, since |-> now,
               step |-> IF Federated THEN "assertion" ELSE "exchange"]
  /\ UNCHANGED <<now, source, stage, reads, unread, carried>>

AssertIdentity ==
  /\ asked.step = "assertion"
  /\ asked' = [asked EXCEPT !.step = "exchange", !.since = now]
  /\ UNCHANGED <<now, source, stage, reads, unread, carried>>

(* Mutant: a call that gets no token is made again.                        *)
RefuseAndRetry ==
  /\ asked' = NotAsking
  /\ stage' = IF stage = "collecting" THEN stage ELSE "failed"
  /\ UNCHANGED <<now, source, carried, reads, unread>>

(* Mutant: a read that gets no token fails the run.                        *)
RefuseAndFail ==
  /\ asked' = NotAsking
  /\ stage' = "failed"
  /\ reads' = IF stage = "collecting" THEN reads + 1 ELSE reads
  /\ unread' = IF stage = "collecting" THEN unread + 1 ELSE unread
  /\ UNCHANGED <<now, source, carried>>

(* Only the calls of sign-in fail the run.                                 *)
Refuse ==
  /\ asked' = NotAsking
  /\ stage' = IF stage = "collecting" THEN stage ELSE "failed"
  /\ reads' = IF stage = "collecting" THEN reads + 1 ELSE reads
  /\ unread' = IF stage = "collecting" THEN unread + 1 ELSE unread
  /\ UNCHANGED <<now, source, carried>>

(* No identity token, no answer, an error, or no usable token in it.       *)
AskFails == asked # NotAsking /\ Refuse

(* A token that is refused is not cached: the one before stays.            *)
TokenRefused ==
  /\ asked.step = "exchange"
  /\ \E claims \in Claims : ~validateAppOnlyToken(claims, asked.scope)
  /\ Refuse

(* expires_in is the lifetime the token was issued with.  Without it, or   *)
(* with none that is positive, an hour is assumed, whatever the token's.   *)
expiresIn(token) == IF token.named THEN token.life ELSE DefaultLifetime

(* Mutant: the token is taken to expire a margin late.                     *)
expiryWithMargin(token) == now + expiresIn(token) + Margin

(* It is counted from the arrival of the answer.                           *)
expiry(token) == now + expiresIn(token)

TokenGranted ==
  /\ asked.step = "exchange"
  /\ \E claims \in Claims, issued \in asked.since..now, life \in Lifetimes,
        named \in BOOLEAN :
       LET token == [claims |-> claims, issued |-> issued, life |-> life,
                     arrived |-> now, named |-> named] IN
       /\ validateAppOnlyToken(claims, asked.scope)
       /\ source' = [source EXCEPT ![asked.scope] =
                       [token |-> token, expiresAt |-> expiry(token)]]
       /\ Carry(asked.scope, token)
  /\ asked' = NotAsking
  /\ UNCHANGED now

Finish ==
  /\ stage = "collecting"
  /\ asked = NotAsking
  /\ stage' = "collected"
  /\ UNCHANGED <<now, source, asked, reads, unread, carried>>

Call == \/ \E scope \in Scopes : UseCached(scope) \/ Ask(scope)
        \/ AssertIdentity \/ AskFails \/ TokenRefused \/ TokenGranted
        \/ Finish

Next == Tick \/ Call

(* The program is never held up for good by its own calls: each returns.   *)
Spec == Init /\ [][Next]_signInVars /\ WF_signInVars(Call)

-----------------------------------------------------------------------------
(* The states are well-formed.  A token source holds only tokens it has    *)
(* validated: validateAppOnlyToken comes before the assignments.           *)
SignInTypeOK ==
  /\ now \in 0..MaxTime
  /\ source \in [Scopes -> [token : Tokens \cup {NoToken}, expiresAt : Nat]]
  /\ asked = NotAsking \/
       /\ asked.scope \in Scopes
       /\ asked.step \in {"assertion", "exchange"}
       /\ asked.since \in 0..now
       /\ asked = [scope |-> asked.scope, step |-> asked.step,
                   since |-> asked.since]
  /\ stage \in Stages
  /\ reads \in 0..MaxReads /\ unread \in 0..reads
  /\ carried = NotCarried \/
       /\ carried.scope \in Scopes /\ carried.token \in Tokens
       /\ carried.at \in 0..now

(* The token the code need not answer for: it arrived without a lifetime,  *)
(* later than the minute kept clear, or when it had expired.               *)
TakenOnTrust(token) ==
  \/ ~token.named
  \/ token.arrived > token.issued + Margin
  \/ token.arrived >= token.issued + token.life

(* No call goes out with a token its service is known to refuse: one that  *)
(* says it is delegated or another tenant's, or is for Graph without       *)
(* roles, or has expired by the clock of Entra, which started it before    *)
(* AccessToken did.  However often a token is used and renewed, it is      *)
(* carried past its expiry only if its own answer came without a lifetime  *)
(* or took longer than the minute (AccessToken, validateAppOnlyToken).     *)
CarriedTokenIsGood ==
  carried # NotCarried =>
    LET token == carried.token IN
    /\ token.claims.scp # "string" /\ token.claims.tid # "other"
    /\ carried.scope = "graph" => token.claims.roles
    /\ carried.at < token.issued + token.life \/ TakenOnTrust(token)

(* A run collects only when it has signed in to both services, and then    *)
(* goes on to the end: a token lost later costs the reads that want it,    *)
(* which become gaps, and never the run.                                   *)
OnlySignInFailsTheRun ==
  [][/\ stage' = "collecting" => \A s \in Scopes : source[s].token # NoToken
     /\ stage = "collecting" => stage' # "failed"]_signInVars

(* A run that keeps losing its tokens still ends.                          *)
RunEnds == <>(stage \in {"collected", "failed"})
=============================================================================
