--------------------------- MODULE RequestsProofs ---------------------------
(***************************************************************************)
(* Proofs about what stands between the collections and the services: the  *)
(* tokens a call carries, the pages of a read, the hosts the credentials   *)
(* go to and the names in the paths of the calls.                          *)
(***************************************************************************)
EXTENDS SignIn, PagedRead, Handler, ResourceNames, SequenceTheorems, TLAPS

-----------------------------------------------------------------------------
(***************************************************************************)
(* Whatever the lifetimes, the margin, the mode, the length of the run and *)
(* the delay of an answer, no call goes out with a token that says it is   *)
(* not for it, or has expired, unless its own answer hid that.             *)
(***************************************************************************)

(* Why a cached token is good while it is fresh: what AccessToken takes    *)
(* for the expiry is a lifetime after the token arrived.                   *)
CachedTokensAreGood ==
  \A s \in Scopes : source[s].token # NoToken =>
    /\ source[s].token \in Tokens
    /\ validateAppOnlyToken(source[s].token.claims, s)
    /\ source[s].expiresAt = source[s].token.arrived + expiresIn(source[s].token)

(* What is asked for is what the run wants next.                           *)
AskedIsWanted == asked # NotAsking => asked.scope \in CallsFor

SignInInv ==
  /\ SignInTypeOK
  /\ CarriedTokenIsGood
  /\ CachedTokensAreGood
  /\ AskedIsWanted

LEMMA NoTokenIsNoToken == NoToken \notin Tokens
BY DEF NoToken, Tokens

(* A token that passes the check says nothing against itself.              *)
LEMMA ValidatedClaims ==
  ASSUME NEW claims, NEW s \in Scopes, validateAppOnlyToken(claims, s)
  PROVE  /\ claims.scp # "string" /\ claims.tid # "other"
         /\ s = "graph" => claims.roles
BY DEF validateAppOnlyToken, Scopes

(* To carry a good token is to keep the invariant of what is carried.      *)
LEMMA CarryKeeps ==
  ASSUME SignInInv, NEW s \in CallsFor, NEW token \in Tokens,
         Carry(s, token),
         validateAppOnlyToken(token.claims, s),
         now < token.issued + token.life \/ TakenOnTrust(token)
  PROVE  /\ CarriedTokenIsGood'
         /\ stage' \in Stages
         /\ reads' \in 0..MaxReads /\ unread' \in 0..reads'
         /\ carried'.scope \in Scopes /\ carried'.token \in Tokens
         /\ carried'.at = now
<1> USE TimesAssumption
<1>1. s \in Scopes
  BY DEF CallsFor, Scopes
<1>2. /\ carried'.scope = s /\ carried'.token = token
      /\ carried'.at = now
  BY DEF Carry
<1>3. CarriedTokenIsGood'
  BY <1>1, <1>2, ValidatedClaims DEF CarriedTokenIsGood, TakenOnTrust
<1>4. stage' \in Stages
  BY DEF Carry, SignInInv, SignInTypeOK, Stages
<1>5. reads' \in 0..MaxReads /\ unread' \in 0..reads'
  <2>1. CASE stage = "collecting"
    <3>1. reads < MaxReads
      BY <2>1 DEF CallsFor
    <3> QED
      BY <2>1, <3>1 DEF Carry, SignInInv, SignInTypeOK
  <2>2. CASE stage # "collecting"
    BY <2>2 DEF Carry, SignInInv, SignInTypeOK
  <2> QED
    BY <2>1, <2>2
<1> QED
  BY <1>1, <1>2, <1>3, <1>4, <1>5

(* A call that gets no token leaves every token as it was.                 *)
LEMMA RefuseKeeps ==
  ASSUME SignInInv, asked # NotAsking, Refuse
  PROVE  SignInInv'
<1> USE TimesAssumption
<1>1. stage = "collecting" => reads < MaxReads
  BY DEF SignInInv, AskedIsWanted, CallsFor
<1>2. SignInTypeOK'
  BY <1>1 DEF Refuse, SignInInv, SignInTypeOK, Stages, NotAsking
<1>3. CarriedTokenIsGood' /\ CachedTokensAreGood'
  BY DEF Refuse, SignInInv, CarriedTokenIsGood, CachedTokensAreGood,
         validateAppOnlyToken, expiresIn, TakenOnTrust
<1>4. AskedIsWanted'
  BY DEF Refuse, AskedIsWanted, NotAsking
<1> QED
  BY <1>2, <1>3, <1>4 DEF SignInInv

LEMMA TickKeeps == SignInInv /\ Tick => SignInInv'
<1> SUFFICES ASSUME SignInInv, Tick
             PROVE  SignInInv'
  OBVIOUS
<1> USE TimesAssumption
<1>1. SignInTypeOK'
  BY DEF Tick, SignInInv, SignInTypeOK
<1>2. CarriedTokenIsGood' /\ CachedTokensAreGood'
  BY DEF Tick, SignInInv, CarriedTokenIsGood, CachedTokensAreGood,
         validateAppOnlyToken, expiresIn, TakenOnTrust
<1>3. AskedIsWanted'
  BY DEF Tick, SignInInv, AskedIsWanted, CallsFor
<1> QED
  BY <1>1, <1>2, <1>3 DEF SignInInv

LEMMA UseCachedKeeps ==
  ASSUME NEW s \in Scopes, SignInInv, UseCached(s)
  PROVE  SignInInv'
<1> USE TimesAssumption
<1> DEFINE token == source[s].token
<1>1. /\ token \in Tokens /\ validateAppOnlyToken(token.claims, s)
      /\ source[s].expiresAt = token.arrived + expiresIn(token)
  BY DEF UseCached, fresh, SignInInv, CachedTokensAreGood
<1>2. now < token.issued + token.life \/ TakenOnTrust(token)
  <2> SUFFICES ASSUME token.named, token.arrived <= token.issued + Margin
               PROVE  now < token.issued + token.life
    BY <1>1 DEF TakenOnTrust, Tokens
  <2>1. now < (token.arrived + token.life) - Margin
    <3>1. expiresIn(token) = token.life
      BY DEF expiresIn
    <3>2. now < source[s].expiresAt - Margin
      BY DEF UseCached, fresh
    <3> QED
      BY <1>1, <3>1, <3>2
  <2>2. now \in Nat
    BY DEF SignInInv, SignInTypeOK
  <2>3. token.issued \in Nat /\ token.life \in Nat /\ token.arrived \in Nat
    BY <1>1 DEF Tokens
  <2> HIDE DEF token
  <2> QED
    BY <2>1, <2>2, <2>3
<1>3. /\ CarriedTokenIsGood'
      /\ stage' \in Stages
      /\ reads' \in 0..MaxReads /\ unread' \in 0..reads'
      /\ carried'.scope \in Scopes /\ carried'.token \in Tokens
      /\ carried'.at = now
  BY <1>1, <1>2, CarryKeeps DEF UseCached
<1>4. SignInTypeOK'
  BY <1>3 DEF UseCached, SignInInv, SignInTypeOK
<1>5. CachedTokensAreGood'
  BY DEF UseCached, SignInInv, CachedTokensAreGood, validateAppOnlyToken
<1>6. AskedIsWanted'
  BY DEF UseCached, AskedIsWanted, NotAsking
<1> QED
  BY <1>3, <1>4, <1>5, <1>6 DEF SignInInv

LEMMA AskKeeps ==
  ASSUME NEW s \in Scopes, SignInInv, Ask(s)
  PROVE  SignInInv'
<1> USE TimesAssumption
<1>1. SignInTypeOK'
  BY DEF Ask, SignInInv, SignInTypeOK
<1>2. CarriedTokenIsGood' /\ CachedTokensAreGood'
  BY DEF Ask, SignInInv, CarriedTokenIsGood, CachedTokensAreGood,
         validateAppOnlyToken, expiresIn, TakenOnTrust
<1>3. AskedIsWanted'
  BY DEF Ask, AskedIsWanted, CallsFor
<1> QED
  BY <1>1, <1>2, <1>3 DEF SignInInv

LEMMA AssertKeeps == SignInInv /\ AssertIdentity => SignInInv'
<1> SUFFICES ASSUME SignInInv, AssertIdentity
             PROVE  SignInInv'
  OBVIOUS
<1> USE TimesAssumption
<1>1. asked # NotAsking
  BY DEF AssertIdentity, NotAsking
<1>2. SignInTypeOK'
  <2>1. /\ asked.scope \in Scopes /\ now \in Nat
        /\ asked = [scope |-> asked.scope, step |-> asked.step,
                    since |-> asked.since]
    BY <1>1 DEF SignInInv, SignInTypeOK
  <2>2. asked' = [scope |-> asked.scope, step |-> "exchange", since |-> now]
    BY <2>1 DEF AssertIdentity
  <2>3. /\ asked'.scope \in Scopes
        /\ asked'.step \in {"assertion", "exchange"}
        /\ asked'.since \in 0..now
        /\ asked' = [scope |-> asked'.scope, step |-> asked'.step,
                     since |-> asked'.since]
    BY <2>1, <2>2
  <2> QED
    BY <2>3 DEF AssertIdentity, SignInInv, SignInTypeOK
<1>3. CarriedTokenIsGood' /\ CachedTokensAreGood'
  BY DEF AssertIdentity, SignInInv, CarriedTokenIsGood, CachedTokensAreGood,
         validateAppOnlyToken, expiresIn, TakenOnTrust
<1>4. AskedIsWanted'
  BY <1>1 DEF AssertIdentity, SignInInv, SignInTypeOK, AskedIsWanted, CallsFor
<1> QED
  BY <1>2, <1>3, <1>4 DEF SignInInv

LEMMA TokenGrantedKeeps == SignInInv /\ TokenGranted => SignInInv'
<1> SUFFICES ASSUME SignInInv, TokenGranted
             PROVE  SignInInv'
  OBVIOUS
<1> USE TimesAssumption
<1>1. asked # NotAsking /\ asked.scope \in Scopes /\ asked.since \in Nat
  BY DEF TokenGranted, NotAsking, SignInInv, SignInTypeOK
<1>2. asked.scope \in CallsFor
  BY <1>1 DEF SignInInv, AskedIsWanted
<1>3. now \in Nat /\ source \in [Scopes -> [token : Tokens \cup {NoToken}, expiresAt : Nat]]
  BY DEF SignInInv, SignInTypeOK
<1>4. PICK claims \in Claims, issued \in asked.since..now, life \in Lifetimes,
           named \in BOOLEAN :
        LET token == [claims |-> claims, issued |-> issued, life |-> life,
                      arrived |-> now, named |-> named] IN
        /\ validateAppOnlyToken(claims, asked.scope)
        /\ source' = [source EXCEPT ![asked.scope] =
                        [token |-> token, expiresAt |-> expiry(token)]]
        /\ Carry(asked.scope, token)
  BY DEF TokenGranted
<1> DEFINE token == [claims |-> claims, issued |-> issued, life |-> life,
                     arrived |-> now, named |-> named]
<1>5. /\ token \in Tokens
      /\ token.arrived = now
      /\ validateAppOnlyToken(token.claims, asked.scope)
  <2>1. claims \in AllClaims /\ issued \in Nat /\ life \in Nat \ {0}
    BY <1>1, <1>3, ClaimsAssumption
  <2>2. token.arrived = now /\ token.claims = claims
    OBVIOUS
  <2> QED
    BY <1>3, <1>4, <2>1, <2>2 DEF Tokens
<1>6. /\ source' = [source EXCEPT ![asked.scope] =
                      [token |-> token, expiresAt |-> expiry(token)]]
      /\ Carry(asked.scope, token)
  BY <1>4
<1> HIDE DEF token
<1>7. now < token.issued + token.life \/ TakenOnTrust(token)
  BY <1>3, <1>5 DEF TakenOnTrust, Tokens
<1>8. /\ CarriedTokenIsGood'
      /\ stage' \in Stages
      /\ reads' \in 0..MaxReads /\ unread' \in 0..reads'
      /\ carried'.scope \in Scopes /\ carried'.token \in Tokens
      /\ carried'.at = now
  BY <1>2, <1>5, <1>6, <1>7, CarryKeeps
<1>9. expiry(token) \in Nat /\ expiry(token) = token.arrived + expiresIn(token)
  BY <1>3, <1>5 DEF expiry, expiresIn, Tokens
<1>10. /\ carried' = [scope |-> carried'.scope, token |-> carried'.token,
                      at |-> carried'.at]
       /\ now' = now /\ asked' = NotAsking
  BY <1>6 DEF Carry, TokenGranted
<1>11. SignInTypeOK'
  <2>1. [token |-> token, expiresAt |-> expiry(token)]
          \in [token : Tokens \cup {NoToken}, expiresAt : Nat]
    BY <1>5, <1>9
  <2>2. source' \in [Scopes -> [token : Tokens \cup {NoToken}, expiresAt : Nat]]
    BY <1>1, <1>3, <1>6, <2>1
  <2>3. now' \in 0..MaxTime /\ carried'.at \in 0..now'
    BY <1>8, <1>10 DEF SignInInv, SignInTypeOK
  <2> QED
    BY <1>8, <1>10, <2>2, <2>3 DEF SignInTypeOK
<1>12. CachedTokensAreGood'
  <2> SUFFICES ASSUME NEW s \in Scopes, source'[s].token # NoToken
               PROVE  /\ source'[s].token \in Tokens
                      /\ validateAppOnlyToken(source'[s].token.claims, s)
                      /\ source'[s].expiresAt =
                           source'[s].token.arrived + expiresIn(source'[s].token)
    BY DEF CachedTokensAreGood, validateAppOnlyToken, expiresIn
  <2>1. CASE s = asked.scope
    <3>1. source'[s].token = token /\ source'[s].expiresAt = expiry(token)
      BY <1>1, <1>3, <1>6, <2>1
    <3> QED
      BY <1>5, <1>9, <2>1, <3>1
  <2>2. CASE s # asked.scope
    <3>1. source'[s] = source[s]
      BY <1>3, <1>6, <2>2
    <3> QED
      BY <3>1 DEF SignInInv, CachedTokensAreGood
  <2> QED
    BY <2>1, <2>2
<1>13. AskedIsWanted'
  BY <1>10 DEF AskedIsWanted, NotAsking
<1> QED
  BY <1>8, <1>11, <1>12, <1>13 DEF SignInInv

LEMMA FinishKeeps == SignInInv /\ Finish => SignInInv'
<1> SUFFICES ASSUME SignInInv, Finish
             PROVE  SignInInv'
  OBVIOUS
<1>1. SignInTypeOK'
  BY DEF Finish, SignInInv, SignInTypeOK, Stages
<1>2. CarriedTokenIsGood' /\ CachedTokensAreGood'
  BY DEF Finish, SignInInv, CarriedTokenIsGood, CachedTokensAreGood,
         validateAppOnlyToken, expiresIn, TakenOnTrust
<1>3. AskedIsWanted'
  BY DEF Finish, AskedIsWanted, NotAsking
<1> QED
  BY <1>1, <1>2, <1>3 DEF SignInInv

LEMMA InitKeeps == Init => SignInInv
<1> SUFFICES ASSUME Init
             PROVE  SignInInv
  OBVIOUS
<1> USE TimesAssumption
<1>1. SignInTypeOK
  BY DEF Init, SignInTypeOK, Stages
<1>2. CarriedTokenIsGood /\ CachedTokensAreGood
  BY DEF Init, CarriedTokenIsGood, CachedTokensAreGood
<1>3. AskedIsWanted
  BY DEF Init, AskedIsWanted, NotAsking
<1> QED
  BY <1>1, <1>2, <1>3 DEF SignInInv

LEMMA StepKeeps == SignInInv /\ [Next]_signInVars => SignInInv'
<1> SUFFICES ASSUME SignInInv, [Next]_signInVars
             PROVE  SignInInv'
  OBVIOUS
<1>1. CASE Tick
  BY <1>1, TickKeeps
<1>2. ASSUME NEW s \in Scopes, UseCached(s)
      PROVE  SignInInv'
  BY <1>2, UseCachedKeeps
<1>3. ASSUME NEW s \in Scopes, Ask(s)
      PROVE  SignInInv'
  BY <1>3, AskKeeps
<1>4. CASE AssertIdentity
  BY <1>4, AssertKeeps
<1>5. CASE AskFails
  BY <1>5, RefuseKeeps DEF AskFails
<1>6. CASE TokenRefused
  <2>1. asked # NotAsking
    BY <1>6 DEF TokenRefused, NotAsking
  <2> QED
    BY <1>6, <2>1, RefuseKeeps DEF TokenRefused
<1>7. CASE TokenGranted
  BY <1>7, TokenGrantedKeeps
<1>8. CASE Finish
  BY <1>8, FinishKeeps
<1>9. CASE UNCHANGED signInVars
  BY <1>9 DEF signInVars, SignInInv, SignInTypeOK, CarriedTokenIsGood,
     CachedTokensAreGood, AskedIsWanted, CallsFor,
     validateAppOnlyToken, expiresIn, TakenOnTrust
<1> QED
  BY <1>1, <1>2, <1>3, <1>4, <1>5, <1>6, <1>7, <1>8, <1>9 DEF Next, Call

LEMMA Invariant == Spec => []SignInInv
BY InitKeeps, StepKeeps, PTL DEF Spec

(* Every state of the sign-in is well-formed.                              *)
THEOREM SignInTypeCorrect == Spec => []SignInTypeOK
<1>1. SignInInv => SignInTypeOK
  BY DEF SignInInv
<1> QED
  BY <1>1, Invariant, PTL

(* No call goes out with a token that says it is delegated or another      *)
(* tenant's, or is for Graph without roles; nor with one that has expired, *)
(* unless its own answer named no lifetime or took longer than the minute  *)
(* AccessToken keeps clear.  For every set of claims, lifetime, margin and *)
(* delay of an answer (AccessToken, tokenRequest, validateAppOnlyToken).   *)
THEOREM NoBadTokenIsCarried == Spec => []CarriedTokenIsGood
<1>1. SignInInv => CarriedTokenIsGood
  BY DEF SignInInv
<1> QED
  BY <1>1, Invariant, PTL

(* What the run has signed in to by each stage.                            *)
SignedIn ==
  /\ stage \in {"arm_token", "organization", "collecting"} =>
       source["graph"].token # NoToken
  /\ stage \in {"organization", "collecting"} => source["arm"].token # NoToken

(* Only a call that has its token moves the run on, and a token that a     *)
(* source has is only ever replaced by another.                            *)
LEMMA CarrySignsIn ==
  ASSUME SignedIn, NEW s \in CallsFor, NEW token, Carry(s, token),
         source'[s].token # NoToken,
         \A r \in Scopes : source[r].token # NoToken => source'[r].token # NoToken
  PROVE  /\ SignedIn'
         /\ stage' = "collecting" => \A r \in Scopes : source[r].token # NoToken
         /\ stage = "collecting" => stage' # "failed"
<1>1. CASE stage = "graph_token"
  BY <1>1 DEF Carry, CallsFor, SignedIn, Scopes
<1>2. CASE stage = "arm_token"
  BY <1>2 DEF Carry, CallsFor, SignedIn, Scopes
<1>3. CASE stage = "organization"
  BY <1>3 DEF Carry, CallsFor, SignedIn, Scopes
<1>4. CASE stage = "collecting"
  BY <1>4 DEF Carry, CallsFor, SignedIn, Scopes
<1>. QED
  BY <1>1, <1>2, <1>3, <1>4 DEF CallsFor

LEMMA RefuseSignsIn ==
  ASSUME SignedIn, Refuse, UNCHANGED source
  PROVE  /\ SignedIn'
         /\ stage' = "collecting" => \A r \in Scopes : source[r].token # NoToken
         /\ stage = "collecting" => stage' # "failed"
<1>1. stage' = IF stage = "collecting" THEN stage ELSE "failed"
  BY DEF Refuse
<1>. QED
  BY <1>1 DEF SignedIn, Scopes

LEMMA Next_SignedIn ==
  ASSUME SignInInv, SignedIn, [Next]_signInVars
  PROVE  /\ SignedIn'
         /\ stage' = "collecting" => \A r \in Scopes : source[r].token # NoToken
         /\ stage = "collecting" => stage' # "failed"
<1>1. ASSUME UNCHANGED <<source, stage>>
      PROVE  /\ SignedIn'
             /\ stage' = "collecting" => \A r \in Scopes : source[r].token # NoToken
             /\ stage = "collecting" => stage' # "failed"
  BY <1>1 DEF SignedIn, Scopes
<1>2. CASE UNCHANGED signInVars
  BY <1>1, <1>2 DEF signInVars
<1>3. CASE Tick
  BY <1>1, <1>3 DEF Tick
<1>4. ASSUME NEW s \in Scopes, UseCached(s)
      PROVE  /\ SignedIn'
             /\ stage' = "collecting" => \A r \in Scopes : source[r].token # NoToken
             /\ stage = "collecting" => stage' # "failed"
  <2>1. /\ s \in CallsFor /\ source[s].token # NoToken /\ UNCHANGED source
        /\ Carry(s, source[s].token)
    BY <1>4 DEF UseCached, fresh
  <2>. QED
    BY <2>1, CarrySignsIn
<1>5. ASSUME NEW s \in Scopes, Ask(s)
      PROVE  UNCHANGED <<source, stage>>
  BY <1>5 DEF Ask
<1>6. CASE AssertIdentity
  BY <1>1, <1>6 DEF AssertIdentity
<1>7. CASE AskFails \/ TokenRefused
  <2>1. Refuse /\ UNCHANGED source
    BY <1>7 DEF AskFails, TokenRefused, Refuse
  <2>. QED
    BY <2>1, RefuseSignsIn
<1>8. CASE TokenGranted
  <2>1. asked # NotAsking /\ asked.scope \in Scopes
    BY <1>8 DEF TokenGranted, NotAsking, SignInInv, SignInTypeOK
  <2>2. asked.scope \in CallsFor
    BY <2>1 DEF SignInInv, AskedIsWanted
  <2>3. PICK token, expires :
          /\ token.life \in Lifetimes
          /\ source' = [source EXCEPT ![asked.scope] =
                          [token |-> token, expiresAt |-> expires]]
          /\ Carry(asked.scope, token)
    BY <1>8 DEF TokenGranted
  <2>4. token # NoToken
    BY <2>3, TimesAssumption DEF NoToken
  <2>5. source \in [Scopes -> [token : Tokens \cup {NoToken}, expiresAt : Nat]]
    BY DEF SignInInv, SignInTypeOK
  <2>6. source'[asked.scope].token = token
    BY <2>1, <2>3, <2>5
  <2>7. \A r \in Scopes : r # asked.scope => source'[r] = source[r]
    BY <2>3, <2>5
  <2>. QED
    BY <2>2, <2>3, <2>4, <2>6, <2>7, CarrySignsIn
<1>9. CASE Finish
  BY <1>9 DEF Finish, SignedIn
<1>. QED
  BY <1>1, <1>2, <1>3, <1>4, <1>5, <1>6, <1>7, <1>8, <1>9 DEF Next, Call

(* A run collects only with a token of each service, and what it loses     *)
(* later never fails it: however long its tokens last, whatever the token  *)
(* endpoint answers and when (microsoft.auth, Collector.Collect).          *)
THEOREM CollectingGoesOn == Spec => OnlySignInFailsTheRun
<1>1. Init => SignInInv /\ SignedIn
  BY InitKeeps DEF Init, SignedIn
<1>2. SignInInv /\ SignedIn /\ [Next]_signInVars => (SignInInv /\ SignedIn)'
  BY Next_SignedIn, StepKeeps
<1>3. SignInInv /\ SignedIn /\ [Next]_signInVars =>
        [/\ stage' = "collecting" => \A s \in Scopes : source[s].token # NoToken
         /\ stage = "collecting" => stage' # "failed"]_signInVars
  BY Next_SignedIn
<1>. QED
  BY <1>1, <1>2, <1>3, PTL DEF Spec, OnlySignInFailsTheRun

-----------------------------------------------------------------------------
(***************************************************************************)
(* Proofs about PagedRead: for every set of pages, however their links are *)
(* laid, a read is the whole of a list or a failure.                       *)
(***************************************************************************)

(* What has been read is the chain of pages up to the link to be followed. *)
OnTheChain ==
  /\ next # NoLink
  /\ out = <<>> => next.page = FirstPage
  /\ out # <<>> =>
       /\ out[1] = FirstPage
       /\ call \notin Objects
       /\ \A i \in 1 .. Len(out) - 1 :
            /\ held[out[i]].link.to \in OwnLinks
            /\ held[out[i]].link.page = out[i + 1]
       /\ held[out[Len(out)]].link = next

StepFits ==
  /\ step = "done" <=> result # "reading"
  /\ step # "done" => OnTheChain
  /\ step \in {"send", "answer"} => next.to \in OwnLinks
  /\ result = "ok" => Whole!IsWhole(out)
  /\ step = "route" => call \in ChildLists /\ sent = <<>>

ReadInv == ReadTypeOK /\ StepFits

LEMMA FailureType ==
  \A a \in Responses : failure(a) \in Failures \cup {"none"}
BY DEF failure, Failures, Responses, wrongJSON

LEMMA InitReadInv == ReadInit => ReadInv
<1> SUFFICES ASSUME ReadInit PROVE ReadInv
  OBVIOUS
<1> USE PagesAssumption, ServicesAssumption DEF ReadInit
<1>1. next \in Links /\ step \in Steps /\ result = "reading"
  BY DEF Links, OwnLinks, OtherLinks, Steps
<1>2. ReadTypeOK
  BY <1>1 DEF ReadTypeOK
<1>3. next # NoLink
  BY DEF NoLink
<1>4. StepFits
  BY <1>3 DEF StepFits, OnTheChain, OwnLinks
<1> QED
  BY <1>2, <1>4 DEF ReadInv

(* A link that may be followed leads to one of the service's pages, and    *)
(* Onward names that page.                                                 *)
LEMMA OnwardOf ==
  ASSUME ReadTypeOK, NEW p \in Pages
  PROVE  /\ held[p].link \in Links \cup {NoLink}
         /\ held[p].link = NoLink => Onward[p] = "last"
         /\ held[p].link.to \in OwnLinks => Onward[p] = held[p].link.page
BY ServicesAssumption DEF ReadTypeOK, Onward, NoLink, OwnLinks

LEMMA NextIn ==
  ASSUME ReadTypeOK, OnTheChain, next.to \in OwnLinks
  PROVE  next \in Links /\ next.page \in Pages
BY DEF ReadTypeOK, OnTheChain, Links

(* A page added at the end of the chain leaves a chain.                    *)
LEMMA ChainGrows ==
  ASSUME ReadTypeOK, OnTheChain, next.to \in OwnLinks,
         call' = call, held' = held, call \notin Objects,
         out' = Append(out, next.page), next' = nextLink(next.page),
         next' # NoLink
  PROVE  OnTheChain'
<1>1. next.page \in Pages /\ out \in Seq(Pages)
  BY NextIn DEF ReadTypeOK
<1>2. Len(out') = Len(out) + 1 /\ out'[Len(out')] = next.page
  BY <1>1
<1>3. \A i \in 1 .. Len(out) : out'[i] = out[i]
  BY <1>1
<1>4. next' = held[next.page].link
  BY DEF nextLink
<1>5. out'[1] = FirstPage
  <2>1. CASE out = <<>>
    BY <2>1, <1>2 DEF OnTheChain
  <2>2. CASE out # <<>>
    <3>1. Len(out) > 0
      BY <2>2, <1>1
    <3> QED
      BY <2>2, <3>1, <1>1, <1>3 DEF OnTheChain
  <2> QED
    BY <2>1, <2>2
<1>6. ASSUME NEW i \in 1 .. Len(out') - 1
      PROVE  /\ held[out'[i]].link.to \in OwnLinks
             /\ held[out'[i]].link.page = out'[i + 1]
  <2>1. i \in 1 .. Len(out) /\ out # <<>> /\ Len(out) \in Nat
    BY <1>1, <1>2
  <2>2. CASE i = Len(out)
    BY <2>1, <2>2, <1>2, <1>3 DEF OnTheChain
  <2>3. CASE i # Len(out)
    <3>1. i \in 1 .. Len(out) - 1 /\ i + 1 \in 1 .. Len(out)
      BY <2>1, <2>3
    <3> QED
      BY <2>1, <3>1, <1>3 DEF OnTheChain
  <2> QED
    BY <2>2, <2>3
<1>7. out' # <<>>
  BY <1>1
<1> QED
  BY <1>2, <1>4, <1>5, <1>6, <1>7 DEF OnTheChain

(* The chain whose last page has no link is the whole.                     *)
LEMMA ChainEnds ==
  ASSUME ReadTypeOK, OnTheChain, next.to \in OwnLinks,
         call' = call, held' = held,
         out' = Append(out, next.page), nextLink(next.page) = NoLink
  PROVE  Whole!IsWhole(out)'
<1>1. next.page \in Pages /\ out \in Seq(Pages)
  BY NextIn DEF ReadTypeOK
<1>2. Len(out') = Len(out) + 1 /\ out'[Len(out')] = next.page
  BY <1>1
<1>3. \A i \in 1 .. Len(out) : out'[i] = out[i]
  BY <1>1
<1>4. out' \in Seq(Pages) /\ Len(out') > 0
  BY <1>1, <1>2
<1>5. Onward' = Onward
  BY DEF Onward
<1>6. out'[1] = FirstPage
  <2>1. CASE out = <<>>
    BY <2>1, <1>2 DEF OnTheChain
  <2>2. CASE out # <<>>
    <3>1. Len(out) > 0
      BY <2>2, <1>1
    <3> QED
      BY <2>2, <3>1, <1>1, <1>3 DEF OnTheChain
  <2> QED
    BY <2>1, <2>2
<1>7. ASSUME call \notin Objects
      PROVE  /\ \A i \in 1 .. Len(out') - 1 : Onward[out'[i]] = out'[i + 1]
             /\ Onward[out'[Len(out')]] = "last"
  <2>1. Onward[next.page] = "last"
    BY <1>1, <1>7, OnwardOf DEF nextLink
  <2>2. ASSUME NEW i \in 1 .. Len(out') - 1
        PROVE  Onward[out'[i]] = out'[i + 1]
    <3>1. i \in 1 .. Len(out) /\ out # <<>> /\ Len(out) \in Nat
      BY <1>1, <1>2
    <3>2. out[i] \in Pages
      BY <1>1, <3>1
    <3>3. CASE i = Len(out)
      <4>1. held[out[i]].link = next
        BY <3>1, <3>3 DEF OnTheChain
      <4> QED
        BY <4>1, <3>1, <3>2, <3>3, <1>2, <1>3, OnwardOf
    <3>4. CASE i # Len(out)
      <4>1. i \in 1 .. Len(out) - 1 /\ i + 1 \in 1 .. Len(out)
        BY <3>1, <3>4
      <4>2. held[out[i]].link.to \in OwnLinks /\ held[out[i]].link.page = out[i + 1]
        BY <3>1, <4>1 DEF OnTheChain
      <4> QED
        BY <4>1, <4>2, <3>1, <3>2, <1>3, OnwardOf
    <3> QED
      BY <3>3, <3>4
  <2> QED
    BY <2>1, <2>2, <1>2
<1>8. ASSUME call \in Objects
      PROVE  Len(out') = 1
  BY <1>8, <1>2 DEF OnTheChain
<1> QED
  BY <1>4, <1>5, <1>6, <1>7, <1>8 DEF Whole!IsWhole, Whole!Last

(* A call that fails keeps what is known of it.                            *)
LEMMA FailInv ==
  ASSUME ReadInv, NEW why \in Failures, Fail(why),
         UNCHANGED <<call, held, next, out, sent>>,
         response' \in Responses \cup {NoResponse}
  PROVE  ReadInv'
<1>1. why # "ok" /\ why # "reading"
  BY DEF Failures
<1>2. ReadTypeOK'
  BY DEF ReadInv, ReadTypeOK, Fail, Steps
<1>3. StepFits'
  BY <1>1 DEF ReadInv, StepFits, Fail
<1> QED
  BY <1>2, <1>3 DEF ReadInv

LEMMA NextReadInv == ReadInv /\ [ReadNext]_readVars => ReadInv'
<1> SUFFICES ASSUME ReadInv, [ReadNext]_readVars PROVE ReadInv'
  OBVIOUS
<1> USE DEF ReadInv
<1>1. CASE Route
  <2>1. CASE Fail("invalid_response")
    BY <1>1, <2>1, FailInv DEF Route, ReadTypeOK, Failures
  <2>2. CASE step' = "request" /\ UNCHANGED result
    <3>1. ReadTypeOK'
      BY <1>1, <2>2 DEF Route, ReadTypeOK, Steps
    <3>2. OnTheChain'
      BY <1>1, <2>2 DEF Route, StepFits, OnTheChain
    <3> QED
      BY <1>1, <2>2, <3>1, <3>2 DEF Route, StepFits
  <2> QED
    BY <1>1, <2>1, <2>2 DEF Route
<1>2. CASE newRequest
  <2>1. CASE Fail("invalid_response") \/ Fail("no_request") \/ Fail("no_token")
    BY <1>2, <2>1, FailInv DEF newRequest, ReadTypeOK, Failures
  <2>2. CASE next.to \in OwnLinks /\ step' = "send" /\ UNCHANGED result
    <3>1. ReadTypeOK'
      BY <1>2, <2>2 DEF newRequest, ReadTypeOK, Steps
    <3>2. OnTheChain'
      BY <1>2, <2>2 DEF newRequest, StepFits, OnTheChain
    <3> QED
      BY <1>2, <2>2, <3>1, <3>2 DEF newRequest, StepFits
  <2> QED
    BY <1>2, <2>1, <2>2 DEF newRequest
<1>3. CASE Send
  <2>1. CASE sent' = sent /\ Fail("request_failed")
    BY <1>3, <2>1, FailInv DEF Send, ReadTypeOK, Failures
  <2>2. CASE /\ sent' = Append(sent, [to |-> resolveServiceURL(next), prefer |-> header])
             /\ step' = "answer" /\ UNCHANGED result
    <3>1. next.to \in OwnLinks /\ resolveServiceURL(next) = "own"
      BY <1>3 DEF Send, StepFits, resolveServiceURL
    <3>2. header \in BOOLEAN
      BY DEF header
    <3>3. [to |-> resolveServiceURL(next), prefer |-> header] \in [to : {"own"}, prefer : BOOLEAN]
      BY <3>1, <3>2
    <3>4. ReadTypeOK'
      BY <1>3, <2>2, <3>3 DEF Send, ReadTypeOK, Steps
    <3>5. OnTheChain'
      BY <1>3, <2>2 DEF Send, StepFits, OnTheChain
    <3> QED
      BY <1>3, <2>2, <3>1, <3>4, <3>5 DEF Send, StepFits
  <2> QED
    BY <1>3, <2>1, <2>2 DEF Send
<1>4. CASE Answer
  <2>1. /\ ReadTypeOK /\ OnTheChain /\ next.to \in OwnLinks /\ result = "reading"
        /\ call' = call /\ held' = held /\ sent' = sent
        /\ response' \in Responses
    BY <1>4 DEF Answer, StepFits
  <2>2. CASE failure(response') # "none"
    BY <1>4, <2>1, <2>2, FailInv, FailureType DEF Answer
  <2>3. CASE failure(response') = "none"
    <3>1. out' = Append(out, next.page) /\ next' = nextLink(next.page)
      BY <1>4, <2>3 DEF Answer
    <3>2. next.page \in Pages /\ out' \in Seq(Pages)
      BY <2>1, <3>1, NextIn DEF ReadTypeOK
    <3>3. next' \in Links \cup {NoLink}
      BY <2>1, <3>1, <3>2, OnwardOf DEF nextLink
    <3>4. CASE next' = NoLink
      <4>1. Return
        BY <1>4, <2>3, <3>4 DEF Answer
      <4>2. step' = "done" /\ result' \in {"invalid_response", "ok"}
        BY <4>1 DEF Return, Fail
      <4>3. ReadTypeOK'
        BY <2>1, <3>2, <3>3, <4>2 DEF ReadTypeOK, Steps, Failures
      <4>4. Whole!IsWhole(out)'
        BY <2>1, <3>1, <3>4, ChainEnds
      <4> QED
        BY <4>2, <4>3, <4>4 DEF StepFits
    <3>5. CASE next' # NoLink
      <4>1. step' = "request" /\ result' = result
        BY <1>4, <2>3, <3>5 DEF Answer
      <4>2. ReadTypeOK'
        BY <2>1, <3>2, <3>3, <4>1 DEF ReadTypeOK, Steps
      <4>3. call \notin Objects
        BY <3>1, <3>5 DEF nextLink
      <4>4. OnTheChain'
        BY <2>1, <3>1, <3>5, <4>3, ChainGrows
      <4> QED
        BY <2>1, <4>1, <4>2, <4>4 DEF StepFits
    <3> QED
      BY <3>4, <3>5
  <2> QED
    BY <2>2, <2>3
<1>5. CASE UNCHANGED readVars
  <2>1. ReadTypeOK'
    BY <1>5 DEF readVars, ReadTypeOK
  <2>2. OnTheChain' = OnTheChain /\ Whole!IsWhole(out)' = Whole!IsWhole(out)
    BY <1>5 DEF readVars, OnTheChain, Whole!IsWhole, Onward
  <2> QED
    BY <1>5, <2>1, <2>2 DEF readVars, StepFits
<1> QED
  BY <1>1, <1>2, <1>3, <1>4, <1>5 DEF ReadNext

(* Every variable has its type, for every service (PagedRead.Next).        *)
THEOREM ReadTypeCorrect == ReadSafety => []ReadTypeOK
<1>1. ReadInv => ReadTypeOK
  BY DEF ReadInv
<1> QED
  BY <1>1, InitReadInv, NextReadInv, PTL DEF ReadSafety

(* A request, and the token it carries, goes to the service's own scheme   *)
(* and host, with the header every page is asked for with                  *)
(* (resolveServiceURL, getPagedWithHeader).                                *)
THEOREM PagesAskedAlike == ReadSafety => []EveryPageAskedAlike
<1>1. ReadInit => EveryPageAskedAlike
  BY DEF ReadInit, EveryPageAskedAlike
<1>2. ReadInv /\ EveryPageAskedAlike /\ [ReadNext]_readVars => EveryPageAskedAlike'
  <2> SUFFICES ASSUME ReadInv, EveryPageAskedAlike, [ReadNext]_readVars
               PROVE  EveryPageAskedAlike'
    OBVIOUS
  <2>1. CASE UNCHANGED <<call, sent>>
    BY <2>1 DEF EveryPageAskedAlike
  <2>2. CASE Send /\ sent' # sent
    <3> DEFINE req == [to |-> "own", prefer |-> call \in WithPreferHeader]
    <3>1. next.to \in OwnLinks
      BY <2>2 DEF Send, ReadInv, StepFits
    <3>2. call' = call /\ sent' = Append(sent, req)
      BY <2>2, <3>1 DEF Send, resolveServiceURL, header
    <3>3. Len(sent') = Len(sent) + 1 /\ Len(sent) \in Nat
      BY <3>2 DEF ReadInv, ReadTypeOK
    <3>4. ASSUME NEW i \in 1 .. Len(sent') PROVE sent'[i] = req
      <4>1. CASE i = Len(sent')
        BY <4>1, <3>2, <3>3 DEF ReadInv, ReadTypeOK
      <4>2. CASE i # Len(sent')
        <5>1. i \in 1 .. Len(sent)
          BY <4>2, <3>3
        <5> HIDE DEF req
        <5>2. sent'[i] = sent[i]
          BY <5>1, <3>2 DEF ReadInv, ReadTypeOK
        <5> QED
          BY <5>1, <5>2 DEF EveryPageAskedAlike, req
      <4> QED
        BY <4>1, <4>2
    <3> QED
      BY <3>2, <3>4 DEF EveryPageAskedAlike
  <2> QED
    BY <2>1, <2>2 DEF ReadNext, Route, newRequest, Send, Answer, readVars
<1> QED
  BY <1>1, <1>2, InitReadInv, NextReadInv, PTL DEF ReadSafety

(* While the read goes on nothing was wrong with the last response.        *)
NothingWrongYet ==
  step # "done" =>
    \/ response = NoResponse
    \/ response \in Responses /\ failure(response) = "none"

LEMMA NotRefused ==
  ASSUME \/ response = NoResponse
         \/ response \in Responses /\ failure(response) = "none"
  PROVE  ~(response.read /\ response.status = "other")
BY DEF NoResponse, Responses, failure, wrongJSON

LEMMA FailureOf ==
  ASSUME NEW a \in Responses, failure(a) # "none"
  PROVE  /\ failure(a) \in Failures
         /\ failure(a) = "refused" <=> a.read /\ a.status = "other"
         /\ failure(a) = "too_large" => a.long
         /\ failure(a) = "invalid_response" => a.json = "no_value"
<1>1. a.read \in BOOLEAN /\ a.long \in BOOLEAN /\ a.json \in {"value", "no_value", "garbled"}
  BY DEF Responses
<1> QED
  BY <1>1, FailureType DEF failure, wrongJSON

(* A failure names its cause, whatever the body that came with it          *)
(* (GraphClient.do, ARMClient.do).                                         *)
THEOREM CausesAreNamed == ReadSafety => []FailureNamesItsCause
<1> DEFINE Cause == FailureNamesItsCause /\ NothingWrongYet
<1>1. ReadInit => Cause
  <2>1. ReadInit => step # "done" /\ response = NoResponse
    BY DEF ReadInit
  <2>2. ReadInit => FailureNamesItsCause
    BY <2>1 DEF FailureNamesItsCause
  <2>3. ReadInit => NothingWrongYet
    BY <2>1 DEF NothingWrongYet
  <2> QED
    BY <2>2, <2>3
<1>2. ReadInv /\ ReadInv' /\ Cause /\ [ReadNext]_readVars => Cause'
  <2> SUFFICES ASSUME ReadInv, ReadInv', Cause, [ReadNext]_readVars
               PROVE  Cause'
    OBVIOUS
  <2>1. CASE UNCHANGED readVars
    BY <2>1 DEF readVars, FailureNamesItsCause, NothingWrongYet
  <2>2. CASE Answer
    <3>1. response' \in Responses
      BY <2>2 DEF Answer
    <3>2. CASE failure(response') # "none"
      <4>1. step' = "done" /\ result' = failure(response')
        BY <2>2, <3>2 DEF Answer, Fail
      <4> QED
        BY <3>1, <3>2, <4>1, FailureOf DEF FailureNamesItsCause, NothingWrongYet
    <3>3. CASE failure(response') = "none"
      <4>1. response'.read /\ response'.status # "other"
        BY <3>1, <3>3 DEF failure, Responses
      <4>2. CASE next' = NoLink
        <5>1. result' = IF hasNoOrganization(out') THEN "invalid_response" ELSE "ok"
          BY <2>2, <3>3, <4>2 DEF Answer, Return, Fail
        <5>2. step' = "done" /\ call' = call
          BY <2>2, <3>3, <4>2 DEF Answer, Return, Fail
        <5>3. hasNoOrganization(out') => call \in FirstOfList
          BY DEF hasNoOrganization
        <5> QED
          BY <4>1, <5>1, <5>2, <5>3 DEF FailureNamesItsCause, NothingWrongYet
      <4>3. CASE next' # NoLink
        <5>1. step' = "request"
          BY <2>2, <3>3, <4>3 DEF Answer
        <5> QED
          BY <3>1, <3>3, <5>1 DEF FailureNamesItsCause, NothingWrongYet
      <4> QED
        BY <4>2, <4>3
    <3> QED
      BY <3>2, <3>3
  <2>3. CASE Route \/ newRequest \/ Send
    <3>1. /\ step # "done" /\ response' = response /\ call' = call /\ next' = next
      BY <2>3 DEF Route, newRequest, Send
    <3>2. NothingWrongYet'
      BY <3>1 DEF NothingWrongYet
    <3>3. ~(response'.read /\ response'.status = "other")
      BY <3>1, NotRefused DEF NothingWrongYet
    <3>4. CASE Fail("invalid_response")
      <4>1. step' = "done" /\ result' = "invalid_response"
        BY <3>4 DEF Fail
      <4>2. CASE Route
        BY <3>1, <3>3, <4>1, <4>2, <3>2 DEF Route, FailureNamesItsCause, ReadInv, StepFits
      <4>3. CASE newRequest
        <5>1. next.to \notin OwnLinks \cup {"unparsable"}
          BY <4>1, <4>3 DEF newRequest, Fail, resolveServiceURL
        <5>2. next \in Links
          BY <3>1 DEF ReadInv, ReadTypeOK, StepFits, OnTheChain
        <5>3. next.to \in OtherLinks \ {"unparsable"}
          BY <5>1, <5>2 DEF Links
        <5> QED
          BY <3>1, <3>2, <3>3, <4>1, <5>3 DEF FailureNamesItsCause
      <4>4. CASE Send
        BY <4>1, <4>4 DEF Send, Fail
      <4> QED
        BY <2>3, <4>2, <4>3, <4>4
    <3>5. CASE Fail("no_request") \/ Fail("no_token") \/ Fail("request_failed")
      BY <3>2, <3>3, <3>5 DEF Fail, FailureNamesItsCause
    <3>6. CASE step' # "done"
      BY <3>2, <3>6 DEF FailureNamesItsCause
    <3> QED
      BY <2>3, <3>4, <3>5, <3>6 DEF Route, newRequest, Send
  <2> QED
    BY <2>1, <2>2, <2>3 DEF ReadNext
<1> QED
  BY <1>1, <1>2, InitReadInv, NextReadInv, PTL DEF ReadSafety

(* Every read implements ListRead: the caller gets the whole of a list or  *)
(* a failure, once (getPagedWithHeader, getARMPaged).                      *)
THEOREM ReadsAreWhole == ReadSafety => ReadIsWhole
<1>1. ReadInit => Whole!ListInit
  <2> SUFFICES ASSUME ReadInit PROVE Whole!ListInit
    OBVIOUS
  <2>1. Onward \in [Pages -> Pages \cup {"last", "refused"}]
    <3> SUFFICES ASSUME NEW p \in Pages
                 PROVE  Onward[p] \in Pages \cup {"last", "refused"}
      BY DEF Onward
    <3>1. held[p].link \in Links \cup {NoLink}
      BY ServicesAssumption DEF ReadInit
    <3> QED
      BY <3>1 DEF Onward, Links
  <2> QED
    BY <2>1 DEF ReadInit, Answered, Whole!ListInit, Whole!Unread, Whole!Last, Whole!Refused
<1>2. ReadInv /\ ReadInv' /\ [ReadNext]_readVars => [Whole!ListNext]_Whole!listVars
  <2> SUFFICES ASSUME ReadInv, ReadInv', ReadNext
               PROVE  [Whole!ListNext]_Whole!listVars
    BY DEF readVars, Whole!listVars, Answered, Onward
  <2>1. Onward' = Onward /\ call' = call /\ step # "done" /\ result = "reading"
    BY DEF ReadNext, Route, newRequest, Send, Answer, Onward, ReadInv, StepFits
  <2>2. Answered = Whole!Unread
    BY <2>1 DEF Answered, Whole!Unread
  <2>3. CASE result' = "reading"
    <3>1. Answered' = Answered
      BY <2>1, <2>3 DEF Answered
    <3> QED
      BY <2>1, <3>1 DEF Whole!listVars
  <2>4. CASE result' = "ok"
    <3>1. Answered' = [state |-> "read", pages |-> out']
      BY <2>4 DEF Answered
    <3>2. Whole!IsWhole(out)'
      BY <2>4 DEF ReadInv, StepFits
    <3>3. Whole!IsWhole(Answered'.pages)
      BY <2>1, <3>1, <3>2 DEF Whole!IsWhole
    <3> QED
      BY <2>1, <2>2, <3>1, <3>3 DEF Whole!ListNext
  <2>5. CASE result' \notin {"reading", "ok"}
    <3>1. Answered' = Whole!Failed
      BY <2>5 DEF Answered, Whole!Failed
    <3> QED
      BY <2>1, <2>2, <3>1 DEF Whole!ListNext
  <2> QED
    BY <2>3, <2>4, <2>5
<1> QED
  BY <1>1, <1>2, InitReadInv, NextReadInv, PTL DEF ReadSafety, ReadIsWhole, Whole!ListSpec

-----------------------------------------------------------------------------
(***************************************************************************)
(* That a run sends a credential only where it may go, for every           *)
(* configuration and environment and however often tokens are renewed.     *)
(* The argument is that the hosts are listed before anything is sent, and  *)
(* that a step that sends a credential is only reached by holding it.      *)
(***************************************************************************)

(* The hosts are those of the configuration once it is found valid, and    *)
(* nothing is sent before.                                                 *)
HostsAreListed ==
  /\ pc \in {"validate", "config_invalid"} => requests = {}
  /\ pc \notin {"validate", "config_invalid"} => hosts = CredentialHosts

(* What a step that is to come needs is there.                             *)
NextIsHeld ==
  /\ pc = "assertion" => raw.mode = "oidc"
  /\ pc = "exchange" => Held(IF raw.mode = "oidc" THEN "assertion" ELSE "client_secret")
  /\ pc \in {"assertion", "exchange", "organization", "collect"} => HasCredentials

Rightful(r) == r.host = HostOf(r.credential) /\ r.host \in hosts /\ Held(r.credential)

HandlerInv ==
  /\ raw \in Config
  /\ HostsAreListed
  /\ NextIsHeld
  /\ \A r \in requests : Rightful(r)

LEMMA ConfigIsRaw ==
  ASSUME raw \in Config
  PROVE  /\ config.mode = raw.mode /\ config.secret = raw.secret
         /\ config.requestURL = raw.requestURL
         /\ config.requestToken = raw.requestToken
         /\ config.tokenFile = raw.tokenFile
BY DEF Config, config

(* What a mode needs first it has, once the credentials are checked.       *)
LEMMA AcquireIsHeld ==
  ASSUME raw \in Config, HasCredentials
  PROVE  /\ acquire \in {"assertion", "exchange"}
         /\ acquire = "assertion" <=> raw.mode = "oidc"
         /\ acquire = "exchange" => Held("client_secret")
BY ConfigIsRaw DEF acquire, HasCredentials, Held, Config

LEMMA InitHandlerInv == HandlerInit => HandlerInv
BY ConfigsAssumption DEF HandlerInit, HandlerInv, HostsAreListed, NextIsHeld

(* What the configuration says stays what it is.                           *)
LEMMA SameConfig ==
  ASSUME raw' = raw
  PROVE  /\ config' = config /\ CredentialHosts' = CredentialHosts
         /\ HasCredentials' = HasCredentials
         /\ \A c : Held(c)' = Held(c)
BY DEF config, CredentialHosts, HasCredentials, githubOIDC, Held

(* A request that is rightful once the hosts are listed keeps the          *)
(* invariant.                                                              *)
LEMMA RequestKeeps ==
  ASSUME HandlerInv, raw' = raw, hosts' = hosts, pc \notin {"validate", "config_invalid"},
         NEW host, NEW credential, Request(host, credential),
         host = HostOf(credential), host \in CredentialHosts, Held(credential)
  PROVE  \A r \in requests' : Rightful(r)'
<1>1. \A r \in requests : Rightful(r)'
  BY SameConfig DEF HandlerInv, Rightful
<1>2. Rightful([host |-> host, credential |-> credential])'
  BY SameConfig DEF HandlerInv, HostsAreListed, Rightful
<1> QED
  BY <1>1, <1>2 DEF Request

LEMMA RequestsStay ==
  ASSUME HandlerInv, raw' = raw, hosts' = hosts, requests' = requests
  PROVE  \A r \in requests' : Rightful(r)'
BY SameConfig DEF HandlerInv, Rightful

LEMMA ValidateKeeps == HandlerInv /\ Validate => HandlerInv'
<1> SUFFICES ASSUME HandlerInv, Validate PROVE HandlerInv'
  OBVIOUS
<1>1. /\ pc = "validate" /\ raw' = raw /\ requests' = requests /\ requests = {}
      /\ pc' = "new" => hosts' = CredentialHosts
      /\ pc' \in {"new", "config_invalid"}
  BY DEF HandlerInv, HostsAreListed, Validate
<1>2. HostsAreListed' /\ NextIsHeld'
  BY <1>1, SameConfig DEF HostsAreListed, NextIsHeld
<1> QED
  BY <1>1, <1>2 DEF HandlerInv

LEMMA NewKeeps == HandlerInv /\ New => HandlerInv'
<1> SUFFICES ASSUME HandlerInv, New PROVE HandlerInv'
  OBVIOUS
<1>1. /\ pc = "new" /\ raw' = raw /\ requests' = requests /\ hosts' = hosts
      /\ pc' = IF HasCredentials THEN acquire ELSE "auth_failed"
  BY DEF New
<1>2. pc' \in {"assertion", "exchange", "auth_failed"}
  BY <1>1, AcquireIsHeld DEF HandlerInv
<1>3. HostsAreListed'
  BY <1>1, <1>2, SameConfig DEF HandlerInv, HostsAreListed
<1>4. NextIsHeld'
  BY <1>1, <1>2, AcquireIsHeld, SameConfig DEF HandlerInv, NextIsHeld
<1> QED
  BY <1>1, <1>3, <1>4, RequestsStay DEF HandlerInv

(* A token that is refused is asked for again, if at all, from the start.  *)
LEMMA RefusedKeeps ==
  ASSUME HandlerInv, pc \in {"assertion", "exchange"}, Refused
  PROVE  /\ raw' = raw /\ hosts' = hosts
         /\ HostsAreListed' /\ NextIsHeld'
<1>1. /\ raw' = raw /\ hosts' = hosts /\ pc' \in {"auth_failed", "collect"}
  BY DEF Refused
<1> QED
  BY <1>1, SameConfig DEF HandlerInv, HostsAreListed, NextIsHeld

LEMMA OidcAssertionKeeps == HandlerInv /\ oidcAssertion => HandlerInv'
<1> SUFFICES ASSUME HandlerInv, oidcAssertion PROVE HandlerInv'
  OBVIOUS
<1>1. pc = "assertion" /\ raw.mode = "oidc" /\ raw \in Config
  BY DEF oidcAssertion, HandlerInv, NextIsHeld
<1>2. \/ Refused
      \/ /\ pc' = "exchange" /\ raw' = raw /\ hosts' = hosts
         /\ Held("assertion")
  BY <1>1, ConfigIsRaw DEF oidcAssertion, githubOIDC, Held, Config
<1>3. raw' = raw /\ hosts' = hosts /\ HostsAreListed' /\ NextIsHeld'
  <2>1. CASE Refused
    BY <1>1, <2>1, RefusedKeeps
  <2>2. CASE ~Refused
    BY <1>1, <1>2, <2>2, SameConfig DEF HandlerInv, HostsAreListed, NextIsHeld
  <2> QED
    BY <2>1, <2>2
<1>4. \A r \in requests' : Rightful(r)'
  <2>1. CASE requests' = requests
    BY <1>3, <2>1, RequestsStay
  <2>2. CASE requests' # requests
    <3>1. /\ Request(config.requestURL, "request_token")
          /\ githubOIDC /\ config.requestURL # NoHost
      BY <2>2 DEF oidcAssertion
    <3>2. raw.requestURL = "runner" /\ Held("request_token")
      BY <1>1, <3>1, ConfigIsRaw DEF githubOIDC, Held, Config, NoHost
    <3>3. "runner" \in CredentialHosts
      BY <1>1, <3>2, ConfigIsRaw DEF CredentialHosts, NoHost
    <3>4. HostOf("request_token") = "runner"
      BY DEF HostOf
    <3> QED
      BY <1>1, <1>3, <3>1, <3>2, <3>3, <3>4, ConfigIsRaw, RequestKeeps
  <2> QED
    BY <2>1, <2>2
<1> QED
  BY <1>1, <1>3, <1>4 DEF HandlerInv

LEMMA TokenRequestKeeps == HandlerInv /\ tokenRequest => HandlerInv'
<1> SUFFICES ASSUME HandlerInv, tokenRequest PROVE HandlerInv'
  OBVIOUS
<1>1. pc = "exchange" /\ raw \in Config
  BY DEF tokenRequest, HandlerInv
<1>2. raw' = raw /\ hosts' = hosts /\ HostsAreListed' /\ NextIsHeld'
  <2>1. CASE Refused
    BY <1>1, <2>1, RefusedKeeps
  <2>2. CASE ~Refused
    <3>1. /\ raw' = raw /\ hosts' = hosts
          /\ pc' \in {acquire, "organization", "collect"}
      BY <2>2 DEF tokenRequest, AfterSignIn
    <3>2. HasCredentials
      BY <1>1 DEF HandlerInv, NextIsHeld
    <3>3. pc' \in {"assertion", "exchange", "organization", "collect"}
      BY <1>1, <3>1, <3>2, AcquireIsHeld
    <3>4. HostsAreListed'
      BY <1>1, <3>1, <3>3, SameConfig DEF HandlerInv, HostsAreListed
    <3>5. NextIsHeld'
      BY <1>1, <3>1, <3>2, AcquireIsHeld, SameConfig DEF NextIsHeld
    <3> QED
      BY <3>1, <3>4, <3>5
  <2> QED
    BY <2>1, <2>2
<1>3. \A r \in requests' : Rightful(r)'
  <2> DEFINE given == IF config.mode = "oidc" THEN "assertion" ELSE "client_secret"
  <2>1. Request("login", given)
    BY DEF tokenRequest
  <2>2. HostOf(given) = "login" /\ "login" \in CredentialHosts
    BY DEF HostOf, CredentialHosts, serviceHosts
  <2>3. Held(given)
    BY <1>1, ConfigIsRaw DEF HandlerInv, NextIsHeld
  <2> QED
    BY <1>1, <1>2, <2>1, <2>2, <2>3, RequestKeeps
<1> QED
  BY <1>1, <1>2, <1>3 DEF HandlerInv

LEMMA OrganizationKeeps == HandlerInv /\ Organization => HandlerInv'
<1> SUFFICES ASSUME HandlerInv, Organization PROVE HandlerInv'
  OBVIOUS
<1>1. /\ pc = "organization" /\ pc' \in {"collect", "auth_failed"}
      /\ raw' = raw /\ hosts' = hosts /\ Request("graph", "graph_token")
  BY DEF Organization
<1>2. HostsAreListed' /\ NextIsHeld'
  BY <1>1, SameConfig DEF HandlerInv, HostsAreListed, NextIsHeld
<1>3. /\ HostOf("graph_token") = "graph" /\ Held("graph_token")
      /\ "graph" \in CredentialHosts
  BY DEF HostOf, Held, CredentialHosts, serviceHosts
<1> QED
  BY <1>1, <1>2, <1>3, RequestKeeps DEF HandlerInv

LEMMA CollectKeeps == HandlerInv /\ Collect => HandlerInv'
<1> SUFFICES ASSUME HandlerInv, Collect PROVE HandlerInv'
  OBVIOUS
<1> DEFINE made == {[host |-> "graph", credential |-> "graph_token"],
                    [host |-> "management", credential |-> "arm_token"]}
<1>1. /\ pc = "collect" /\ pc' = pc /\ raw' = raw /\ hosts' = hosts
      /\ requests' \subseteq requests \cup made
  BY DEF Collect
<1>2. HostsAreListed' /\ NextIsHeld'
  BY <1>1, SameConfig DEF HandlerInv, HostsAreListed, NextIsHeld
<1>3. "graph" \in hosts' /\ "management" \in hosts'
  BY <1>1 DEF HandlerInv, HostsAreListed, CredentialHosts, serviceHosts
<1>4. \A r \in made : Rightful(r)'
  BY <1>3 DEF Rightful, HostOf, Held
<1>5. \A r \in requests : Rightful(r)'
  BY <1>1, SameConfig DEF HandlerInv, Rightful
<1> QED
  BY <1>1, <1>2, <1>4, <1>5 DEF HandlerInv

LEMMA RenewKeeps == HandlerInv /\ Renew => HandlerInv'
<1> SUFFICES ASSUME HandlerInv, Renew PROVE HandlerInv'
  OBVIOUS
<1>1. /\ pc = "collect" /\ pc' = acquire
      /\ raw' = raw /\ hosts' = hosts /\ requests' = requests
  BY DEF Renew
<1>2. HasCredentials /\ raw \in Config
  BY <1>1 DEF HandlerInv, NextIsHeld
<1>3. HostsAreListed'
  BY <1>1, <1>2, AcquireIsHeld, SameConfig DEF HandlerInv, HostsAreListed
<1>4. NextIsHeld'
  BY <1>1, <1>2, AcquireIsHeld, SameConfig DEF NextIsHeld
<1> QED
  BY <1>1, <1>3, <1>4, RequestsStay DEF HandlerInv

LEMMA NextHandlerInv == HandlerInv /\ [HandlerNext]_handlerVars => HandlerInv'
<1>1. ASSUME HandlerInv, Emit PROVE HandlerInv'
  <2>1. /\ pc = "collect" /\ pc' = "emitted"
        /\ raw' = raw /\ hosts' = hosts /\ requests' = requests
    BY <1>1 DEF Emit
  <2> QED
    BY <1>1, <2>1, SameConfig, RequestsStay DEF HandlerInv, HostsAreListed, NextIsHeld
<1>2. ASSUME HandlerInv, UNCHANGED handlerVars PROVE HandlerInv'
  <2>1. /\ pc' = pc /\ raw' = raw /\ hosts' = hosts /\ requests' = requests
    BY <1>2 DEF handlerVars
  <2> QED
    BY <1>2, <2>1, SameConfig, RequestsStay DEF HandlerInv, HostsAreListed, NextIsHeld
<1> QED
  BY <1>1, <1>2, ValidateKeeps, NewKeeps, OidcAssertionKeeps, TokenRequestKeeps,
     OrganizationKeeps, CollectKeeps, RenewKeeps DEF HandlerNext

(* A run sends a credential only if it holds it, and only to the host the  *)
(* credential is for, one the HTTP client was told of before; a run whose  *)
(* configuration is refused sends none (CredentialHosts, NewTokenSource,   *)
(* oidcAssertion).                                                         *)
THEOREM CredentialsGoWhereTheyMay == HandlerSpec => []CredentialsReachListedHosts
<1>1. HandlerInv => CredentialsReachListedHosts
  BY DEF HandlerInv, HostsAreListed, Rightful, CredentialsReachListedHosts
<1> QED
  BY <1>1, InitHandlerInv, NextHandlerInv, PTL DEF HandlerSpec

-----------------------------------------------------------------------------
(* A sequence that goes on with another one.                               *)
GoesOn(r, p, q) ==
  /\ Len(r) = Len(p) + Len(q)
  /\ \A i \in 1 .. Len(p) : r[i] = p[i]
  /\ \A i \in 1 .. Len(q) : r[Len(p) + i] = q[i]

LEMMA Joined ==
  ASSUME NEW S, NEW p \in Seq(S), NEW q \in Seq(S)
  PROVE  p \o q \in Seq(S) /\ GoesOn(p \o q, p, q)
<1>1. Len(p) \in Nat /\ Len(q) \in Nat
  OBVIOUS
<1>2. /\ p \o q \in Seq(S) /\ Len(p \o q) = Len(p) + Len(q)
      /\ \A i \in 1 .. Len(p) + Len(q) :
           (p \o q)[i] = IF i <= Len(p) THEN p[i] ELSE q[i - Len(p)]
  BY ConcatProperties
<1>3. ASSUME NEW i \in 1 .. Len(p) PROVE (p \o q)[i] = p[i]
  BY <1>1, <1>2
<1>4. ASSUME NEW i \in 1 .. Len(q) PROVE (p \o q)[Len(p) + i] = q[i]
  <2>1. /\ Len(p) + i \in 1 .. Len(p) + Len(q) /\ ~(Len(p) + i <= Len(p))
        /\ Len(p) + i - Len(p) = i
    BY <1>1
  <2>2. (p \o q)[Len(p) + i] = q[Len(p) + i - Len(p)]
    BY <1>2, <2>1
  <2>. QED
    BY <2>1, <2>2
<1>. QED
  BY <1>2, <1>3, <1>4 DEF GoesOn

(* What the ID of a server or of a vault is, segment by segment.           *)
EightJoin(p, a, b, c, d, e, f, g, h) ==
  /\ Len(p) = 8 /\ p[1] = a /\ p[2] = b /\ p[3] = c /\ p[4] = d /\ p[5] = e
  /\ p[6] = f /\ p[7] = g /\ p[8] = h
  /\ p \in Seq({a, b, c, d, e, f, g, h})

LEMMA EightJoined ==
  ASSUME NEW a, NEW b, NEW c, NEW d, NEW e, NEW f, NEW g, NEW h
  PROVE  EightJoin((<<a, b>> \o <<c, d, e>>) \o <<f, g, h>>, a, b, c, d, e, f, g, h)
BY DEF EightJoin

LEMMA EightTogether ==
  ASSUME NEW a, NEW b, NEW c, NEW d, NEW e, NEW f, NEW g, NEW h
  PROVE  EightJoin(<<a, b, c, d, e, f, g, h>>, a, b, c, d, e, f, g, h)
BY DEF EightJoin

FiveJoin(p, a, b, c, d, e) ==
  /\ Len(p) = 5
  /\ p[1] = a /\ p[2] = b /\ p[3] = c /\ p[4] = d /\ p[5] = e
  /\ p \in Seq({a, b, c, d, e})

LEMMA FiveJoined ==
  ASSUME NEW a, NEW b, NEW c, NEW d, NEW e
  PROVE  FiveJoin(<<a, b>> \o <<c, d, e>>,
           a, b, c, d, e)
BY DEF FiveJoin

SevenJoin(p, a, b, c, d, e, f, g) ==
  /\ Len(p) = 7
  /\ p[1] = a /\ p[2] = b /\ p[3] = c /\ p[4] = d /\ p[5] = e
  /\ p[6] = f /\ p[7] = g
  /\ p \in Seq({a, b, c, d, e, f, g})

LEMMA SevenJoined ==
  ASSUME NEW a, NEW b, NEW c, NEW d, NEW e, NEW f, NEW g
  PROVE  SevenJoin((<<a, b>> \o <<c, d, e>>) \o <<f, g>>,
           a, b, c, d, e, f, g)
BY DEF SevenJoin

NineJoin(p, a, b, c, d, e, f, g, h, i) ==
  /\ Len(p) = 9
  /\ p[1] = a /\ p[2] = b /\ p[3] = c /\ p[4] = d /\ p[5] = e
  /\ p[6] = f /\ p[7] = g /\ p[8] = h /\ p[9] = i
  /\ p \in Seq({a, b, c, d, e, f, g, h, i})

LEMMA NineJoined ==
  ASSUME NEW a, NEW b, NEW c, NEW d, NEW e, NEW f, NEW g, NEW h, NEW i
  PROVE  NineJoin(<<a, b, c, d, e, f, g, h>> \o <<i>>,
           a, b, c, d, e, f, g, h, i)
BY DEF NineJoin

ElevenJoin(p, a, b, c, d, e, f, g, h, i, j, k) ==
  /\ Len(p) = 11
  /\ p[1] = a /\ p[2] = b /\ p[3] = c /\ p[4] = d /\ p[5] = e
  /\ p[6] = f /\ p[7] = g /\ p[8] = h /\ p[9] = i /\ p[10] = j
  /\ p[11] = k
  /\ p \in Seq({a, b, c, d, e, f, g, h, i, j, k})

LEMMA ElevenJoined ==
  ASSUME NEW a, NEW b, NEW c, NEW d, NEW e, NEW f, NEW g, NEW h, NEW i, NEW j,
         NEW k
  PROVE  ElevenJoin(((<<a, b>> \o <<c, d, e>>) \o <<f, g, h>>) \o <<i, j, k>>,
           a, b, c, d, e, f, g, h, i, j, k)
BY DEF ElevenJoin

TwelveJoin(p, a, b, c, d, e, f, g, h, i, j, k, l) ==
  /\ Len(p) = 12
  /\ p[1] = a /\ p[2] = b /\ p[3] = c /\ p[4] = d /\ p[5] = e
  /\ p[6] = f /\ p[7] = g /\ p[8] = h /\ p[9] = i /\ p[10] = j
  /\ p[11] = k /\ p[12] = l
  /\ p \in Seq({a, b, c, d, e, f, g, h, i, j, k, l})

LEMMA TwelveJoined ==
  ASSUME NEW a, NEW b, NEW c, NEW d, NEW e, NEW f, NEW g, NEW h, NEW i, NEW j,
         NEW k, NEW l
  PROVE  TwelveJoin((((<<a, b>> \o <<c, d, e>>) \o <<f, g, h>>) \o <<i, j>>)
             \o <<k, l>>,
           a, b, c, d, e, f, g, h, i, j, k, l)
BY DEF TwelveJoin

ThirteenJoin(p, a, b, c, d, e, f, g, h, i, j, k, l, m) ==
  /\ Len(p) = 13
  /\ p[1] = a /\ p[2] = b /\ p[3] = c /\ p[4] = d /\ p[5] = e
  /\ p[6] = f /\ p[7] = g /\ p[8] = h /\ p[9] = i /\ p[10] = j
  /\ p[11] = k /\ p[12] = l /\ p[13] = m
  /\ p \in Seq({a, b, c, d, e, f, g, h, i, j, k, l, m})

LEMMA ThirteenJoined ==
  ASSUME NEW a, NEW b, NEW c, NEW d, NEW e, NEW f, NEW g, NEW h, NEW i, NEW j,
         NEW k, NEW l, NEW m
  PROVE  ThirteenJoin((((<<a, b>> \o <<c, d, e>>) \o <<f, g, h>>) \o <<i, j>>)
             \o <<k, l, m>>,
           a, b, c, d, e, f, g, h, i, j, k, l, m)
BY DEF ThirteenJoin

ParentIs(p, g, ns, parent, n) ==
  EightJoin(p, Word("subscriptions"), Name("sub-1"), Word("resourcegroups"),
            Name(g), Word("providers"), Word(ns), Word(parent), Name(n))

LEMMA ServerIs ==
  ASSUME NEW g, NEW n
  PROVE  ParentIs(Server(g, n), g, "microsoft.sql", "servers", n)
BY EightJoined, Zenon DEF ParentIs, Server, Under, Subscription

LEMMA VaultIs ==
  ASSUME NEW g, NEW n
  PROVE  ParentIs(Vault(g, n), g, "microsoft.recoveryservices", "vaults", n)
BY EightJoined, Zenon DEF ParentIs, Vault, Under, Subscription

LEMMA LeastIs ==
  ASSUME NEW S \in SUBSET Int, NEW m \in S, \A i \in S : m <= i
  PROVE  Min(S) = m
<1>1. \E x \in S : \A y \in S : x =< y
  OBVIOUS
<1>2. Min(S) \in S /\ \A y \in S : Min(S) =< y
  BY <1>1 DEF Min
<1>3. m \in Int /\ Min(S) \in Int /\ m <= Min(S) /\ Min(S) <= m
  BY <1>2
<1>. QED
  BY <1>3

(* The values the code finds in the ID of a server or vault.  A group that *)
(* is called what the server or vault is looked for by is found before it. *)
LEMMA ValuesFound ==
  ASSUME NEW p, NEW g, NEW parent,
         Len(p) \in {7, 8}, p[2] = Name("sub-1"), p[4] = Name(g),
         p[1].text = "subscriptions", p[2].text = "sub-1",
         p[3].text = "resourcegroups", p[4].text = g, p[5].text = "providers",
         p[6].text # parent, p[7].text = parent,
         parent \notin {"subscriptions", "sub-1", "resourcegroups", "providers"}
  PROVE  /\ resourceIDValue(p, "subscriptions") = Name("sub-1")
         /\ resourceIDValue(p, "resourcegroups") = Name(g)
         /\ resourceIDValue(p, parent) = IF g = parent THEN p[5]
                                         ELSE IF Len(p) = 8 THEN p[8] ELSE NoValue
<1>1. ASSUME NEW w
      PROVE  /\ Holding(p, w) \in SUBSET Int
             /\ \A i : i \in Holding(p, w) <=>
                         i \in 1 .. Len(p) - 1 /\ p[i].text = w
  BY DEF Holding
<1>2. Holding(p, "subscriptions") # {} /\ Min(Holding(p, "subscriptions")) = 1
  <2>1. 1 \in Holding(p, "subscriptions")
    BY <1>1
  <2>2. \A i \in Holding(p, "subscriptions") : 1 <= i
    BY <1>1
  <2>. QED
    BY <1>1, <2>1, <2>2, LeastIs
<1>3. Holding(p, "resourcegroups") # {} /\ Min(Holding(p, "resourcegroups")) = 3
  <2>1. 3 \in Holding(p, "resourcegroups")
    BY <1>1
  <2>2. \A i \in Holding(p, "resourcegroups") : 3 <= i
    BY <1>1
  <2>. QED
    BY <1>1, <2>1, <2>2, LeastIs
<1>4. CASE g = parent
  <2>1. 4 \in Holding(p, parent)
    BY <1>1, <1>4
  <2>2. \A i \in Holding(p, parent) : 4 <= i
    BY <1>1
  <2>3. Holding(p, parent) # {} /\ Min(Holding(p, parent)) = 4
    BY <1>1, <2>1, <2>2, LeastIs
  <2>. QED
    BY <1>2, <1>3, <1>4, <2>3 DEF resourceIDValue
<1>5. CASE g # parent /\ Len(p) = 8
  <2>1. 7 \in Holding(p, parent)
    BY <1>1, <1>5
  <2>2. \A i \in Holding(p, parent) : 7 <= i
    BY <1>1, <1>5
  <2>3. Holding(p, parent) # {} /\ Min(Holding(p, parent)) = 7
    BY <1>1, <2>1, <2>2, LeastIs
  <2>. QED
    BY <1>2, <1>3, <1>5, <2>3 DEF resourceIDValue
<1>6. CASE g # parent /\ Len(p) = 7
  <2>1. Holding(p, parent) = {}
    BY <1>1, <1>6
  <2>. QED
    BY <1>2, <1>3, <1>6, <2>1 DEF resourceIDValue
<1>. QED
  BY <1>4, <1>5, <1>6

(* The route that is put together from them.                               *)
LEMMA RouteFound ==
  ASSUME NEW p, NEW g, NEW parent, NEW v,
         resourceIDValue(p, "subscriptions") = Name("sub-1"),
         resourceIDValue(p, "resourcegroups") = Name(g),
         resourceIDValue(p, parent) = v
  PROVE  ParentRoute(p, parent) =
           IF v = NoValue THEN <<>>
           ELSE <<Word("subscriptions"), Name("sub-1"), Word("resourcegroups"), Name(g),
                  Word("providers"), Word(Provider[parent]), Word(parent), Name(v.text)>>
<1>1. NoValue # Name("sub-1") /\ NoValue # Name(g)
  BY DEF NoValue, Word, Name
<1>2. Name("sub-1").text = "sub-1" /\ Name(g).text = g
  BY DEF Name
<1>. QED
  BY <1>1, <1>2, Zenon DEF ParentRoute

(* What the segments of the ID of a server or a vault say.                 *)
LEMMA ParentSays ==
  ASSUME NEW p, NEW g, NEW ns, NEW parent, NEW n, ParentIs(p, g, ns, parent, n)
  PROVE  /\ Len(p) = 8 /\ p[2] = Name("sub-1") /\ p[4] = Name(g)
         /\ p[5] = Word("providers") /\ p[8] = Name(n)
         /\ p[1].text = "subscriptions" /\ ~p[1].named
         /\ p[2].text = "sub-1" /\ p[2].named
         /\ p[3].text = "resourcegroups" /\ ~p[3].named
         /\ p[4].text = g /\ p[4].named
         /\ p[5].text = "providers" /\ ~p[5].named
         /\ p[6].text = ns /\ ~p[6].named
         /\ p[7].text = parent /\ ~p[7].named
         /\ p[8].text = n /\ p[8].named
BY DEF ParentIs, EightJoin, Word, Name

LEMMA ParentsAreIn ==
  ASSUME NEW p, NEW g, NEW ns, NEW parent, NEW n, ParentIs(p, g, ns, parent, n)
  PROVE  p[4].text = g
BY ParentSays

(* The same texts stay the same with the same child.                       *)
LEMMA ChildrenJoin ==
  ASSUME NEW S, NEW p \in Seq(S), NEW q \in Seq(S), NEW c \in Seq(S),
         Len(p) = Len(q), \A i \in 1 .. Len(p) : p[i].text = q[i].text
  PROVE  Texts(p \o c) = Texts(q \o c)
<1>1. /\ p \o c \in Seq(S) /\ GoesOn(p \o c, p, c)
      /\ q \o c \in Seq(S) /\ GoesOn(q \o c, q, c)
  BY Joined
<1>2. DOMAIN (p \o c) = 1 .. Len(p) + Len(c) /\ DOMAIN (q \o c) = 1 .. Len(p) + Len(c)
  BY <1>1 DEF GoesOn
<1>3. ASSUME NEW i \in 1 .. Len(p) + Len(c) PROVE (p \o c)[i].text = (q \o c)[i].text
  <2>0. Len(p) \in Nat /\ Len(c) \in Nat
    OBVIOUS
  <2>1. CASE i <= Len(p)
    <3>1. i \in 1 .. Len(p)
      BY <2>0, <2>1
    <3>. QED
      BY <1>1, <3>1, Zenon DEF GoesOn
  <2>2. CASE ~(i <= Len(p))
    <3>1. i - Len(p) \in 1 .. Len(c) /\ Len(p) + (i - Len(p)) = i
      BY <2>0, <2>2
    <3>2. PICK j \in 1 .. Len(c) : Len(p) + j = i
      BY <3>1
    <3>3. (p \o c)[i] = c[j] /\ (q \o c)[i] = c[j]
      BY <1>1, <3>2, Zenon DEF GoesOn
    <3>. QED
      BY <3>3
  <2>. QED
    BY <2>1, <2>2
<1>. QED
  BY <1>2, <1>3, Zenon DEF Texts

(* The route the code puts together around a server or a vault.            *)
LEMMA ParentRoutes ==
  ASSUME NEW p, NEW g, NEW parent \in {"servers", "vaults"}, NEW n, NEW c,
         ParentIs(p, g, Provider[parent], parent, n), g # parent,
         NEW T, c \in Seq(T)
  PROVE  Texts(ParentRoute(p, parent) \o c) = Texts(p \o c)
<1>. DEFINE r == <<Word("subscriptions"), Name("sub-1"), Word("resourcegroups"),
                   Name(g), Word("providers"), Word(Provider[parent]), Word(parent),
                   Name(n)>>
            A == {Word("subscriptions"), Name("sub-1"), Word("resourcegroups"),
                  Name(g), Word("providers"), Word(Provider[parent]), Word(parent),
                  Name(n)}
            S == A \cup T
<1>1. /\ parent \notin {"subscriptions", "sub-1", "resourcegroups", "providers"}
      /\ Provider[parent] # parent
  BY DEF Provider
<1>2. /\ resourceIDValue(p, "subscriptions") = Name("sub-1")
      /\ resourceIDValue(p, "resourcegroups") = Name(g)
      /\ resourceIDValue(p, parent) = Name(n)
  BY <1>1, ParentSays, ValuesFound
<1>3. NoValue # Name(n) /\ Name(n).text = n
  BY DEF NoValue, Word, Name
<1>5. ParentRoute(p, parent) = r
  BY <1>2, <1>3, RouteFound, Zenon
<1>6. ParentIs(r, g, Provider[parent], parent, n)
  BY EightTogether, Zenon DEF ParentIs
<1>7. p \in Seq(A) /\ r \in Seq(A)
  BY <1>6, Zenon DEF ParentIs, EightJoin
<1>8. Len(p) = 8 /\ Len(r) = 8
  BY <1>6, Zenon DEF ParentIs, EightJoin
<1>9. ASSUME NEW i \in 1 .. 8 PROVE p[i] = r[i]
  <2>1. /\ p[1] = r[1] /\ p[2] = r[2] /\ p[3] = r[3] /\ p[4] = r[4] /\ p[5] = r[5]
        /\ p[6] = r[6] /\ p[7] = r[7] /\ p[8] = r[8]
    BY <1>6, Zenon DEF ParentIs, EightJoin
  <2>2. i \in {1, 2, 3, 4, 5, 6, 7, 8}
    OBVIOUS
  <2>. HIDE DEF r
  <2>. QED
    BY <2>1, <2>2
<1>. HIDE DEF r, A
<1>10. p \in Seq(S) /\ r \in Seq(S) /\ c \in Seq(S)
  BY <1>7
<1>. HIDE DEF S
<1>11. \A i \in 1 .. Len(r) : r[i].text = p[i].text
  BY <1>8, <1>9, Zenon
<1>12. Len(r) = Len(p)
  BY <1>8, Zenon
<1>13. Texts(r \o c) = Texts(p \o c)
  BY <1>10, <1>11, <1>12, ChildrenJoin, Zenon
<1>. QED
  BY <1>5, <1>13, Zenon

LEMMA OneSegment ==
  ASSUME NEW w
  PROVE  Segments(<<w>>) \in Seq({Word(w)})
BY DEF Segments

(* An ID without the name of its server, which is found in a group that is *)
(* called servers only.                                                    *)
BadID(g) == Under(g) \o Segments(<<"microsoft.sql", "servers">>)

LEMMA NamelessServer ==
  Segments(<<"microsoft.sql", "servers">>) = <<Word("microsoft.sql"), Word("servers")>>
BY DEF Segments

LEMMA BadIDIs ==
  ASSUME NEW g
  PROVE  SevenJoin(BadID(g), Word("subscriptions"), Name("sub-1"),
                   Word("resourcegroups"), Name(g), Word("providers"),
                   Word("microsoft.sql"), Word("servers"))
BY SevenJoined, NamelessServer, Zenon DEF BadID, Under, Subscription

LEMMA BadIDSays ==
  ASSUME NEW g
  PROVE  /\ Len(BadID(g)) = 7
         /\ BadID(g)[2] = Name("sub-1")
         /\ BadID(g)[4] = Name(g)
         /\ BadID(g)[5] = Word("providers")
         /\ BadID(g)[1].text = "subscriptions" /\ ~BadID(g)[1].named
         /\ BadID(g)[2].text = "sub-1" /\ BadID(g)[2].named
         /\ BadID(g)[3].text = "resourcegroups" /\ ~BadID(g)[3].named
         /\ BadID(g)[4].text = g /\ BadID(g)[4].named
         /\ BadID(g)[5].text = "providers" /\ ~BadID(g)[5].named
         /\ BadID(g)[6].text = "microsoft.sql" /\ ~BadID(g)[6].named
         /\ BadID(g)[7].text = "servers" /\ ~BadID(g)[7].named
<1>1. PICK p : p = BadID(g)
  OBVIOUS
<1>2. SevenJoin(p, Word("subscriptions"), Name("sub-1"),
                Word("resourcegroups"), Name(g), Word("providers"),
                Word("microsoft.sql"), Word("servers"))
  BY <1>1, BadIDIs, Zenon
<1>3. /\ Len(p) = 7
      /\ p[1] = Word("subscriptions") /\ p[2] = Name("sub-1")
      /\ p[3] = Word("resourcegroups") /\ p[4] = Name(g)
      /\ p[5] = Word("providers") /\ p[6] = Word("microsoft.sql")
      /\ p[7] = Word("servers")
  BY <1>2 DEF SevenJoin
<1>4. /\ p[1].text = "subscriptions" /\ ~p[1].named
      /\ p[2].text = "sub-1" /\ p[2].named
      /\ p[3].text = "resourcegroups" /\ ~p[3].named
      /\ p[4].text = g /\ p[4].named
      /\ p[5].text = "providers" /\ ~p[5].named
      /\ p[6].text = "microsoft.sql" /\ ~p[6].named
      /\ p[7].text = "servers" /\ ~p[7].named
  BY <1>3 DEF Word, Name
<1>. QED
  BY <1>1, <1>3, <1>4, Zenon

LEMMA BadIDsLeadNowhere ==
  ASSUME NEW g, g # "servers"
  PROVE  ParentRoute(BadID(g), "servers") = <<>>
<1>1. /\ resourceIDValue(BadID(g), "subscriptions") = Name("sub-1")
      /\ resourceIDValue(BadID(g), "resourcegroups") = Name(g)
      /\ resourceIDValue(BadID(g), "servers") = NoValue
  BY BadIDSays, ValuesFound
<1>. QED
  BY <1>1, RouteFound, Zenon

(* A record of a call, whatever is in its fields.                          *)
LEMMA CallOf ==
  ASSUME NEW i, NEW p, NEW c
  PROVE  LET ask == [id |-> i, parent |-> p, child |-> c] IN
         ask.id = i /\ ask.parent = p /\ ask.child = c
OBVIOUS

(* The calls of each kind.                                                 *)
LEMMA ServerCallsAre ==
  ASSUME NEW ask, ask \in ServerCalls
  PROVE  \E g \in Groups, n \in Names :
           ask = [id |-> Server(g, n), parent |-> "servers",
                  child |-> Segments(<<"databases">>)]
BY DEF ServerCalls

LEMMA VaultCallsAre ==
  ASSUME NEW ask, ask \in VaultCalls
  PROVE  \E g \in Groups, n \in Names,
            w \in {"backupprotecteditems", "backuppolicies", "backupjobs"} :
           ask = [id |-> Vault(g, n), parent |-> "vaults", child |-> Segments(<<w>>)]
BY DEF VaultCalls

(* The other calls keep the ID they are about.                             *)
LEMMA OtherCallsAre ==
  ASSUME NEW ask, ask \in ListCalls \cup EncryptionCalls \cup SettingsCalls
  PROVE  ask.parent = "none"
<1>1. CASE ask \in ListCalls
  BY <1>1 DEF ListCalls
<1>2. CASE ask \in EncryptionCalls
  BY <1>2 DEF EncryptionCalls
<1>3. CASE ask \in SettingsCalls
  BY <1>3 DEF SettingsCalls
<1>. QED
  BY <1>1, <1>2, <1>3

(* Every call that is made for a server or a vault gets the route to it.   *)
LEMMA CallsAreRouted ==
  ASSUME NEW ask \in NamedCalls, ask.parent # "none",
         ask.id[4].text # ask.parent,
         ParentRoute(ask.id, ask.parent) # <<>>
  PROVE  Texts(ParentRoute(ask.id, ask.parent) \o ask.child)
           = Texts(ask.id \o ask.child)
<1>1. ask \in ServerCalls \/ ask \in VaultCalls \/ ask \in BadCalls
  <2>1. ASSUME ask \in ListCalls \cup EncryptionCalls \cup SettingsCalls PROVE FALSE
    BY <2>1, OtherCallsAre, Zenon
  <2>. QED
    BY <2>1, Zenon DEF NamedCalls
<1>2. CASE ask \in ServerCalls
  <2>1. PICK g \in Groups, n \in Names :
          ask = [id |-> Server(g, n), parent |-> "servers",
                 child |-> Segments(<<"databases">>)]
    BY <1>2, ServerCallsAre, Zenon
  <2>6. /\ ask.id = Server(g, n) /\ ask.parent = "servers"
        /\ ask.child = Segments(<<"databases">>)
    BY <2>1, CallOf, Zenon
  <2>2. ParentIs(ask.id, g, Provider["servers"], "servers", n)
    <3>1. Provider["servers"] = "microsoft.sql"
      BY DEF Provider
    <3>. QED
      BY <2>6, <3>1, ServerIs, Zenon
  <2>3. ask.id[4].text = g
    BY <2>2, ParentsAreIn, Zenon
  <2>4. ask.child \in Seq({Word("databases")})
    BY <2>6, OneSegment, Zenon
  <2>. QED
    <3>1. "servers" \in {"servers", "vaults"} /\ g # "servers"
      BY <2>6, <2>3
    <3>2. Texts(ParentRoute(ask.id, "servers") \o ask.child)
            = Texts(ask.id \o ask.child)
      BY <2>2, <2>4, <3>1, ParentRoutes, Zenon
    <3>. QED
      BY <2>6, <3>2, Zenon
<1>3. CASE ask \in VaultCalls
  <2>1. PICK g \in Groups, n \in Names,
             w \in {"backupprotecteditems", "backuppolicies", "backupjobs"} :
          ask = [id |-> Vault(g, n), parent |-> "vaults", child |-> Segments(<<w>>)]
    BY <1>3, VaultCallsAre, Zenon
  <2>6. /\ ask.id = Vault(g, n) /\ ask.parent = "vaults"
        /\ ask.child = Segments(<<w>>)
    BY <2>1, CallOf, Zenon
  <2>2. ParentIs(ask.id, g, Provider["vaults"], "vaults", n)
    <3>1. Provider["vaults"] = "microsoft.recoveryservices"
      BY DEF Provider
    <3>. QED
      BY <2>6, <3>1, VaultIs, Zenon
  <2>3. ask.id[4].text = g
    BY <2>2, ParentsAreIn, Zenon
  <2>4. ask.child \in Seq({Word(w)})
    BY <2>6, OneSegment, Zenon
  <2>. QED
    <3>1. "vaults" \in {"servers", "vaults"} /\ g # "vaults"
      BY <2>6, <2>3
    <3>2. Texts(ParentRoute(ask.id, "vaults") \o ask.child)
            = Texts(ask.id \o ask.child)
      BY <2>2, <2>4, <3>1, ParentRoutes, Zenon
    <3>. QED
      BY <2>6, <3>2, Zenon
<1>4. CASE ask \in BadCalls
  <2>1. PICK g \in Groups :
          ask = [id |-> BadID(g), parent |-> "servers",
                 child |-> Segments(<<"databases">>)]
    BY <1>4 DEF BadCalls, BadID
  <2>6. ask.id = BadID(g) /\ ask.parent = "servers"
    BY <2>1, CallOf, Zenon
  <2>2. g # "servers"
    <3>1. ask.id[4].text = g
      <4>1. BadID(g)[4].text = g
        BY BadIDSays
      <4>. QED
        BY <2>6, <4>1, Zenon
    <3>. QED
      BY <2>6, <3>1, Zenon
  <2>. QED
    BY <2>6, <2>2, BadIDsLeadNowhere, Zenon
<1>. QED
  BY <1>1, <1>2, <1>3, <1>4

(***************************************************************************)
(* A call about a resource asks for what is under that resource, unless    *)
(* the resource group has the name of the type it is looked for by.        *)
(***************************************************************************)
RouteInv == RoutesReachTheResource /\ namedCall \in NamedCalls

THEOREM ResourcesAreReached == NamesSpec => []RoutesReachTheResource
<1>1. NamesInit => RouteInv
  BY DEF NamesInit, RouteInv, RoutesReachTheResource
<1>2. RouteInv /\ [NamesNext]_namesVars => RouteInv'
  <2>. SUFFICES ASSUME RouteInv, [NamesNext]_namesVars PROVE RouteInv'
    OBVIOUS
  <2>1. CASE MakeRoute
    <3>1. namedCall' = namedCall /\ namedCall \in NamedCalls
      BY <2>1 DEF MakeRoute, RouteInv
    <3>2. CASE namedCall.parent = "none"
      <4>1. route' = namedCall.id \o namedCall.child
        BY <2>1, <3>2 DEF MakeRoute
      <4>. QED
        BY <3>1, <4>1, Zenon DEF RouteInv, RoutesReachTheResource
    <3>3. CASE namedCall.parent # "none"
      <4>1. /\ route' = ParentRoute(namedCall.id, namedCall.parent) \o namedCall.child
            /\ ParentRoute(namedCall.id, namedCall.parent) # <<>>
        BY <2>1, <3>3, Zenon DEF MakeRoute
      <4>2. namedCall.id[4].text # namedCall.parent =>
              Texts(route') = Texts(namedCall.id \o namedCall.child)
        BY <3>1, <3>3, <4>1, CallsAreRouted, Zenon
      <4>. QED
        BY <3>1, <3>3, <4>2, Zenon DEF RouteInv, RoutesReachTheResource
    <3>. QED
      BY <3>2, <3>3
  <2>2. CASE UNCHANGED <<namedCall, route>>
    <3>1. namedCall' = namedCall /\ route' = route
      BY <2>2
    <3>. QED
      BY <3>1, Zenon DEF RouteInv, RoutesReachTheResource
  <2>3. MakeRoute \/ UNCHANGED <<namedCall, route>>
    BY DEF NamesNext, namesVars, InvalidID, TemplateSegment, TemplateProvider,
       TemplateName, TemplateDone, RouteAnswered, Failed, SanitizeSegment,
       SanitizeProvider, SanitizeName, SanitizeDone, Keep
  <2>. QED
    BY <2>1, <2>2, <2>3
<1>3. RouteInv => RoutesReachTheResource
  BY DEF RouteInv
<1>. QED
  BY <1>1, <1>2, <1>3, PTL DEF NamesSpec

LEMMA Replacing ==
  ASSUME NEW S, NEW q \in Seq(S), NEW i \in 1 .. Len(q), NEW e
  PROVE  LET r == [q EXCEPT ![i] = e] IN
         /\ r \in Seq(S \cup {e}) /\ Len(r) = Len(q)
         /\ r[i] = e /\ \A j \in 1 .. Len(q) : j # i => r[j] = q[j]
OBVIOUS

Odds == {1, 3, 5, 7, 9, 11, 13}

(* A path: its words and names alternate, up to a provider at b and after  *)
(* it.  What a message puts in the place of a name is not the name.        *)
IsPath(p, b) ==
  /\ \E S : p \in Seq(S)
  /\ Len(p) <= 13 /\ b \in {3, 5} /\ b + 1 <= Len(p)
  /\ p[1].text = "subscriptions" /\ ~p[1].named
  /\ p[2].named /\ p[2].text # "[subscription_id]"
  /\ b = 5 => /\ p[3].text = "resourcegroups" /\ ~p[3].named
              /\ p[4].named /\ p[4].text # "[resource_group]"
  /\ p[b].text = "providers" /\ ~p[b].named /\ ~p[b + 1].named
  /\ \A i \in Odds : b < i /\ i <= Len(p) =>
       /\ ~p[i].named
       /\ i < Len(p) /\ p[i + 1].named => Bracketed(p[i].text) # p[i + 1].text

(* A route ends with a type or a name, and a second provider has one type. *)
IsRoute(p, b) ==
  /\ IsPath(p, b)
  /\ \A i \in Odds : b < i /\ i <= Len(p) =>
       /\ p[i].text \notin {"subscriptions", "resourcegroups"}
       /\ i = Len(p) => p[i].text # "providers"
       /\ i < Len(p) => IF p[i].text = "providers" THEN ~p[i + 1].named /\ i + 2 = Len(p)
                        ELSE p[i + 1].named

(* Where the loops over a route may be.                                    *)
TemplateAt(p, b, i) ==
  \/ i \in Odds /\ i <= Len(p) /\ (i <= b \/ i = Len(p) \/ p[i].text = "providers")
  \/ i \in Nat /\ i > Len(p)
NamesAt(b, i) == i \in {4, 6, 8, 10, 12} /\ i > b

LEMMA PathsAreSequences ==
  ASSUME NEW p, NEW b, IsPath(p, b)
  PROVE  Len(p) \in Nat /\ DOMAIN p = 1 .. Len(p)
<1>1. PICK S : p \in Seq(S)
  BY DEF IsPath
<1>. QED
  BY <1>1

LEMMA SegmentSteps ==
  ASSUME NEW p, NEW b, NEW i, IsRoute(p, b), TemplateAt(p, b, i), i <= Len(p)
  PROVE  /\ i \in Odds /\ ~p[i].named
         /\ p[i].text \in {"subscriptions", "resourcegroups"} =>
              i + 1 <= Len(p) /\ p[i + 1].named /\ TemplateAt(p, b, i + 2)
         /\ p[i].text = "providers" =>
              i + 1 <= Len(p) /\ ~p[i + 1].named /\ NamesAt(b, i + 1)
         /\ p[i].text \notin {"subscriptions", "resourcegroups", "providers"} =>
              TemplateAt(p, b, i + 1)
<1>1. Len(p) \in Nat /\ b \in {3, 5} /\ b + 1 <= Len(p)
  BY PathsAreSequences DEF IsRoute, IsPath
<1>2. i \in Odds /\ (i <= b \/ i = Len(p) \/ p[i].text = "providers")
  BY <1>1 DEF TemplateAt
<1>3. CASE i <= b
  <2>1. \/ i = 1 /\ ~p[1].named /\ p[1].text = "subscriptions" /\ p[2].named
        \/ i = 3 /\ b = 5 /\ ~p[3].named /\ p[3].text = "resourcegroups" /\ p[4].named
        \/ i = b /\ ~p[b].named /\ p[b].text = "providers" /\ ~p[b + 1].named
    BY <1>1, <1>2, <1>3 DEF IsRoute, IsPath, Odds
  <2>. QED
    BY <1>1, <1>2, <2>1 DEF TemplateAt, NamesAt, Odds
<1>4. CASE b < i
  <2>1. /\ ~p[i].named /\ p[i].text \notin {"subscriptions", "resourcegroups"}
        /\ i = Len(p) => p[i].text # "providers"
        /\ i < Len(p) /\ p[i].text = "providers" => ~p[i + 1].named
    BY <1>2, <1>4 DEF IsRoute, IsPath
  <2>2. i \in Nat /\ i + 1 \in Nat
    BY <1>2 DEF Odds
  <2>3. CASE i = Len(p)
    BY <1>1, <1>2, <2>1, <2>2, <2>3 DEF TemplateAt
  <2>4. CASE i < Len(p)
    <3>1. p[i].text = "providers" /\ i <= 13 /\ Len(p) <= 13
      BY <1>1, <1>2, <1>4, <2>2, <2>4 DEF IsRoute, IsPath
    <3>2. i + 1 \in {4, 6, 8, 10, 12} /\ i + 1 > b
      BY <1>1, <1>2, <1>4, <2>4, <3>1 DEF Odds
    <3>. QED
      BY <1>1, <1>2, <2>1, <2>2, <2>4, <3>1, <3>2 DEF NamesAt
  <2>. QED
    BY <1>1, <2>2, <2>3, <2>4
<1>. QED
  BY <1>1, <1>2, <1>3, <1>4 DEF Odds

LEMMA NameSteps ==
  ASSUME NEW p, NEW b, NEW i, IsRoute(p, b), NamesAt(b, i), i <= Len(p)
  PROVE  /\ i + 2 <= Len(p) /\ p[i + 1].text # "providers" =>
              ~p[i + 1].named /\ p[i + 2].named /\ NamesAt(b, i + 2)
         /\ ~(i + 2 <= Len(p) /\ p[i + 1].text # "providers") =>
              TemplateAt(p, b, i + 1)
<1>1. Len(p) \in Nat /\ b \in {3, 5} /\ Len(p) <= 13
  BY PathsAreSequences DEF IsRoute, IsPath
<1>2. i + 1 \in Odds /\ b < i + 1 /\ i + 1 + 1 = i + 2 /\ i \in Nat
  BY <1>1 DEF NamesAt, Odds
<1>3. i + 1 <= Len(p) =>
        /\ ~p[i + 1].named
        /\ i + 1 < Len(p) /\ p[i + 1].text # "providers" => p[i + 2].named
  BY <1>2 DEF IsRoute, IsPath
<1>4. i + 2 <= Len(p) => NamesAt(b, i + 2)
  BY <1>1, <1>2 DEF NamesAt
<1>5. i + 1 = Len(p) \/ p[i + 1].text = "providers" \/ i + 1 > Len(p) =>
        TemplateAt(p, b, i + 1)
  BY <1>1, <1>2 DEF TemplateAt
<1>. QED
  BY <1>1, <1>2, <1>3, <1>4, <1>5

(* A route whose names before k are replaced.                              *)
Templated(p, q, k) ==
  /\ \E S : q \in Seq(S)
  /\ Len(q) = Len(p)
  /\ \A j \in 1 .. Len(p) :
       /\ q[j].named = p[j].named
       /\ IF p[j].named /\ j < k THEN Placeholder(q[j].text) ELSE q[j] = p[j]

(* One name more is replaced.                                              *)
LEMMA TemplatesGrow ==
  ASSUME NEW p, NEW q, NEW k \in Nat, NEW n \in Nat, NEW t,
         Templated(p, q, k), Len(p) \in Nat, Placeholder(t),
         k <= n, \A j \in k .. n - 1 : j <= Len(p) => ~p[j].named,
         n \in 1 .. Len(p), p[n].named
  PROVE  Templated(p, Rewritten(q, n, t), n + 1)
<1>. DEFINE e == [text |-> t, named |-> q[n].named]
            r == [q EXCEPT ![n] = e]
<1>1. PICK S : q \in Seq(S)
  BY DEF Templated
<1>2. Len(q) = Len(p) /\ n \in 1 .. Len(q)
  BY DEF Templated
<1>3. r = Rewritten(q, n, t)
  BY Zenon DEF Rewritten
<1>4. e.text = t /\ e.named = q[n].named
  OBVIOUS
<1>. HIDE DEF e
<1>5. /\ r \in Seq(S \cup {e}) /\ Len(r) = Len(q)
      /\ r[n] = e /\ \A j \in 1 .. Len(q) : j # n => r[j] = q[j]
  BY <1>1, <1>2, Replacing
<1>. HIDE DEF r
<1>6. ASSUME NEW j \in 1 .. Len(p)
      PROVE  /\ r[j].named = p[j].named
             /\ IF p[j].named /\ j < n + 1 THEN Placeholder(r[j].text) ELSE r[j] = p[j]
  <2>1. CASE j = n
    BY <1>4, <1>5, <2>1 DEF Templated
  <2>2. CASE j # n
    <3>1. r[j] = q[j]
      BY <1>2, <1>5, <2>2
    <3>2. p[j].named /\ j < n + 1 => j < k
      BY <2>2
    <3>3. j < k => j < n + 1
      BY <2>2
    <3>. QED
      BY <3>1, <3>2, <3>3, Zenon DEF Templated
  <2>. QED
    BY <2>1, <2>2
<1>7. Templated(p, r, n + 1)
  BY <1>2, <1>5, <1>6, Zenon DEF Templated
<1>. QED
  BY <1>3, <1>7, Zenon

(* Nothing is replaced while no name is passed.                            *)
LEMMA TemplatesStay ==
  ASSUME NEW p, NEW q, NEW k \in Nat, NEW n \in Nat, Len(p) \in Nat,
         Templated(p, q, k), k <= n, \A j \in k .. n - 1 : j <= Len(p) => ~p[j].named
  PROVE  Templated(p, q, n)
<1>1. ASSUME NEW j \in 1 .. Len(p)
      PROVE  p[j].named /\ j < n <=> p[j].named /\ j < k
  OBVIOUS
<1>. QED
  BY <1>1, Zenon DEF Templated

(* A path whose names before k are masked.                                 *)
Masked(p, q, k) ==
  /\ \E S : q \in Seq(S)
  /\ Len(q) = Len(p)
  /\ \A j \in 1 .. Len(p) :
       /\ q[j].named = p[j].named
       /\ p[j].named /\ j < k => q[j].text # p[j].text
       /\ j >= k => q[j] = p[j]

LEMMA MasksGrow ==
  ASSUME NEW p, NEW q, NEW k \in Nat, NEW n \in Nat, NEW t,
         Masked(p, q, k), Len(p) \in Nat,
         k <= n, \A j \in k .. n - 1 : j <= Len(p) => ~p[j].named,
         n \in 1 .. Len(p), t # p[n].text \/ ~p[n].named,
         NEW s, s = Rewritten(q, n, t)
  PROVE  Masked(p, s, n + 1) /\ s[n].text = t
<1>. DEFINE e == [text |-> t, named |-> q[n].named]
            r == [q EXCEPT ![n] = e]
<1>1. PICK S : q \in Seq(S)
  BY DEF Masked
<1>2. Len(q) = Len(p) /\ n \in 1 .. Len(q)
  BY DEF Masked
<1>3. r = s
  BY Zenon DEF Rewritten
<1>4. e.text = t /\ e.named = q[n].named
  OBVIOUS
<1>. HIDE DEF e
<1>5. /\ r \in Seq(S \cup {e}) /\ Len(r) = Len(q)
      /\ r[n] = e /\ \A j \in 1 .. Len(q) : j # n => r[j] = q[j]
  BY <1>1, <1>2, Replacing
<1>. HIDE DEF r
<1>6. ASSUME NEW j \in 1 .. Len(p)
      PROVE  /\ r[j].named = p[j].named
             /\ p[j].named /\ j < n + 1 => r[j].text # p[j].text
             /\ j >= n + 1 => r[j] = p[j]
  <2>1. CASE j = n
    BY <1>4, <1>5, <2>1 DEF Masked
  <2>2. CASE j # n
    <3>1. r[j] = q[j]
      BY <1>2, <1>5, <2>2
    <3>2. p[j].named /\ j < n + 1 => j < k
      BY <2>2
    <3>3. j >= n + 1 => j >= k
      BY <2>2
    <3>. QED
      BY <3>1, <3>2, <3>3, Zenon DEF Masked
  <2>. QED
    BY <2>1, <2>2
<1>7. Masked(p, r, n + 1) /\ r[n].text = t
  BY <1>2, <1>4, <1>5, <1>6, Zenon DEF Masked
<1>. QED
  BY <1>3, <1>7, Zenon

LEMMA MasksStay ==
  ASSUME NEW p, NEW q, NEW k \in Nat, NEW n \in Nat, Len(p) \in Nat,
         Masked(p, q, k), k <= n, \A j \in k .. n - 1 : j <= Len(p) => ~p[j].named
  PROVE  Masked(p, q, n)
<1>1. ASSUME NEW j \in 1 .. Len(p)
      PROVE  /\ p[j].named /\ j < n => p[j].named /\ j < k
             /\ j >= n => j >= k
  OBVIOUS
<1>. QED
  BY <1>1, Zenon DEF Masked

-----------------------------------------------------------------------------
(* Where a path is rewritten, and what is rewritten of it by then.         *)
Asked == IF route = <<>> THEN namedCall.id ELSE route

Templating ==
  /\ phase = "template" =>
       /\ route # <<>>
       /\ \E b : /\ IsRoute(route, b) /\ TemplateAt(route, b, at)
                 /\ Templated(route, path, at)
  /\ phase = "template_names" =>
       /\ route # <<>>
       /\ \E b : /\ IsRoute(route, b) /\ NamesAt(b, at) /\ at <= Len(route)
                 /\ Templated(route, path, at + 1)

MaskWords == {"[subscription_id]", "[resource_group]"}

Sanitizing ==
  /\ phase = "sanitize" =>
       \E b : /\ IsPath(Asked, b)
              /\ \/ /\ at \in Odds /\ at <= b /\ Masked(Asked, path, at)
                 \/ /\ at \in {2, 4} /\ at < b /\ Masked(Asked, path, at + 1)
                    /\ path[at].text \in MaskWords
                 \/ /\ at \in Nat /\ at > Len(Asked) /\ Masked(Asked, path, at)
  /\ phase = "sanitize_names" =>
       \E b : /\ IsPath(Asked, b) /\ at \in Odds /\ at > b
              /\ Masked(Asked, path, at)

Written ==
  /\ route # <<>> => \E b : IsRoute(route, b)
  /\ phase = "asked" => route = <<>> /\ row = <<>> /\ message = <<>>
  /\ phase = "sent" => route # <<>>
  /\ row # <<>> => route # <<>> /\ Templated(route, row, Len(route) + 1)
  /\ message # <<>> => Masked(Asked, message, Len(Asked) + 1)

PathsInv == namedCall \in NamedCalls /\ Written /\ Templating /\ Sanitizing

(* One iteration of TemplateRoute's outer loop.                            *)
LEMMA SegmentsAreTemplated ==
  ASSUME PathsInv, TemplateSegment
  PROVE  Templating'
<1>1. phase = "template" /\ phase' = "template" /\ route' = route /\ route # <<>>
  BY DEF TemplateSegment, Keep, PathsInv, Templating
<1>2. PICK b : /\ IsRoute(route, b) /\ TemplateAt(route, b, at)
               /\ Templated(route, path, at)
  BY <1>1, Zenon DEF PathsInv, Templating
<1>3. Len(route) \in Nat /\ DOMAIN route = 1 .. Len(route) /\ Len(path) = Len(route)
  BY <1>2, PathsAreSequences DEF IsRoute, Templated
<1>4. at <= Len(route)
  BY <1>3 DEF TemplateSegment
<1>5. /\ at \in Nat /\ at >= 1 /\ ~route[at].named /\ path[at] = route[at]
      /\ route[at].text \in {"subscriptions", "resourcegroups"} =>
           at + 1 <= Len(route) /\ route[at + 1].named /\ TemplateAt(route, b, at + 2)
      /\ route[at].text \notin {"subscriptions", "resourcegroups", "providers"} =>
           TemplateAt(route, b, at + 1)
  <2>1. at \in Odds /\ ~route[at].named
    BY <1>2, <1>4, SegmentSteps, Zenon
  <2>2. at \in 1 .. Len(route)
    BY <1>3, <1>4, <2>1 DEF Odds
  <2>3. path[at] = route[at]
    BY <1>2, <2>1, <2>2, Zenon DEF Templated
  <2>4. at \in Nat /\ at >= 1
    BY <1>3, <2>2
  <2>. QED
    BY <1>2, <1>4, <2>1, <2>3, <2>4, SegmentSteps, Zenon
<1>6. CASE IsAt("subscriptions") \/ IsAt("resourcegroups")
  <2>1. at + 1 \in 1 .. Len(route) /\ route[at + 1].named /\ TemplateAt(route, b, at + 2)
    BY <1>3, <1>4, <1>5, <1>6 DEF IsAt
  <2>2. at' = at + 2 /\ \E t : Placeholder(t) /\ path' = Replaced(at + 1, t)
    BY <1>5, <1>6 DEF TemplateSegment, IsAt, NotAName, Placeholder
  <2>3. PICK t : Placeholder(t) /\ path' = Replaced(at + 1, t)
    BY <2>2
  <2>4. path' = Rewritten(path, at + 1, t)
    BY <1>3, <2>1, <2>3 DEF Replaced
  <2>5. Templated(route, path', at + 2)
    <3>1. at + 1 \in Nat /\ at <= at + 1
          /\ \A j \in at .. at + 1 - 1 : j <= Len(route) => ~route[j].named
          /\ at + 1 + 1 = at + 2
      BY <1>4, <1>5
    <3>. QED
      BY <1>2, <1>3, <1>5, <2>1, <2>3, <2>4, <3>1, TemplatesGrow
  <2>. QED
    BY <1>1, <1>2, <2>1, <2>2, <2>5 DEF Templating
<1>7. CASE NotAName
  <2>1. at' = at + 1 /\ path' = path
    BY <1>7 DEF TemplateSegment, NotAName
  <2>2. TemplateAt(route, b, at + 1)
    BY <1>3, <1>4, <1>5, <1>7 DEF IsAt, NotAName
  <2>3. Templated(route, path, at + 1)
    <3>1. at + 1 \in Nat /\ at <= at + 1
          /\ \A j \in at .. at + 1 - 1 : j <= Len(route) => ~route[j].named
      BY <1>4, <1>5
    <3>. QED
      BY <1>2, <1>3, <1>5, <3>1, TemplatesStay
  <2>. QED
    BY <1>1, <1>2, <2>1, <2>2, <2>3 DEF Templating
<1>. QED
  BY <1>6, <1>7 DEF NotAName, TemplateSegment

(* The steps of its inner loop.                                            *)
LEMMA ProvidersAreTemplated ==
  ASSUME PathsInv, TemplateProvider
  PROVE  Templating'
<1>1. /\ phase = "template" /\ phase' = "template_names" /\ at' = at + 1
      /\ route' = route /\ path' = path /\ route # <<>>
  BY DEF TemplateProvider, PathsInv, Templating
<1>2. PICK b : /\ IsRoute(route, b) /\ TemplateAt(route, b, at)
               /\ Templated(route, path, at)
  BY <1>1, Zenon DEF PathsInv, Templating
<1>3. Len(route) \in Nat /\ Len(path) = Len(route)
  BY <1>2, PathsAreSequences DEF IsRoute, Templated
<1>4. at <= Len(route) /\ path[at].text = "providers"
  BY <1>3 DEF TemplateProvider, IsAt
<1>5. at \in Odds /\ ~route[at].named
  BY <1>2, <1>4, SegmentSteps, Zenon
<1>6. at \in Nat /\ at \in 1 .. Len(route)
  BY <1>3, <1>4, <1>5 DEF Odds
<1>7. route[at].text = "providers"
  BY <1>2, <1>4, <1>5, <1>6, Zenon DEF Templated
<1>8. at + 1 <= Len(route) /\ ~route[at + 1].named /\ NamesAt(b, at + 1)
  BY <1>2, <1>4, <1>7, SegmentSteps, Zenon
<1>9. Templated(route, path, at + 1 + 1)
  <2>1. /\ at + 1 + 1 \in Nat /\ at <= at + 1 + 1
        /\ \A j \in at .. at + 1 + 1 - 1 : j <= Len(route) => ~route[j].named
    BY <1>5, <1>6, <1>8
  <2>. QED
    BY <1>2, <1>3, <1>6, <2>1, TemplatesStay
<1>. QED
  BY <1>1, <1>2, <1>8, <1>9 DEF Templating

LEMMA NamesAreTemplated ==
  ASSUME PathsInv, TemplateName
  PROVE  Templating'
<1>1. phase = "template_names" /\ route' = route /\ route # <<>>
  BY DEF TemplateName, PathsInv, Templating
<1>2. PICK b : /\ IsRoute(route, b) /\ NamesAt(b, at) /\ at <= Len(route)
               /\ Templated(route, path, at + 1)
  BY <1>1, Zenon DEF PathsInv, Templating
<1>3. Len(route) \in Nat /\ Len(path) = Len(route) /\ at \in Nat
  BY <1>2, PathsAreSequences DEF IsRoute, Templated, NamesAt
<1>4. at + 1 <= Len(route) => path[at + 1].text = route[at + 1].text
  BY <1>2, <1>3 DEF Templated
<1>5. CASE isType(at + 1) /\ at + 2 <= Len(path)
  <2>1. /\ path' = Replaced(at + 2, "{name}") /\ at' = at + 2 /\ phase' = phase
    BY <1>5 DEF TemplateName
  <2>2. at + 2 <= Len(route) /\ route[at + 1].text # "providers"
    BY <1>3, <1>4, <1>5 DEF isType
  <2>3. ~route[at + 1].named /\ route[at + 2].named /\ NamesAt(b, at + 2)
    BY <1>2, <2>2, NameSteps, Zenon
  <2>4. path' = Rewritten(path, at + 2, "{name}")
    BY <1>5, <2>1 DEF Replaced
  <2>5. Templated(route, path', at + 2 + 1)
    <3>0. PICK k \in Nat, n \in Nat : k = at + 1 /\ n = at + 2
      BY <1>3
    <3>1. /\ k <= n /\ n \in 1 .. Len(route)
          /\ \A j \in k .. n - 1 : j <= Len(route) => ~route[j].named
      BY <1>3, <2>2, <2>3, <3>0
    <3>a. Templated(route, path, k) /\ route[n].named
      BY <1>2, <2>3, <3>0
    <3>2. Placeholder("{name}")
      BY DEF Placeholder
    <3>. QED
      BY <1>3, <2>4, <3>0, <3>1, <3>a, <3>2, TemplatesGrow
  <2>. QED
    BY <1>1, <1>2, <2>1, <2>2, <2>3, <2>5 DEF Templating
<1>6. CASE ~(isType(at + 1) /\ at + 2 <= Len(path))
  <2>1. phase' = "template" /\ at' = at + 1 /\ path' = path
    BY <1>6, Zenon DEF TemplateName
  <2>2. ~(at + 2 <= Len(route) /\ route[at + 1].text # "providers")
    BY <1>3, <1>4, <1>6 DEF isType
  <2>3. TemplateAt(route, b, at + 1)
    BY <1>2, <2>2, NameSteps, Zenon
  <2>. QED
    BY <1>1, <1>2, <2>1, <2>3 DEF Templating
<1>. QED
  BY <1>5, <1>6

(* What the loops over a path for a message do.                            *)
LEMMA MaskSteps ==
  ASSUME NEW p, NEW b, IsPath(p, b), NEW i \in Odds, i <= b
  PROVE  /\ ~p[i].named /\ i <= Len(p) /\ i + 1 <= Len(p)
         /\ p[i].text = "subscriptions" =>
              i = 1 /\ p[i + 1].named /\ p[i + 1].text # "[subscription_id]"
         /\ p[i].text = "resourcegroups" =>
              i = 3 /\ b = 5 /\ p[i + 1].named /\ p[i + 1].text # "[resource_group]"
         /\ p[i].text = "providers" => i = b /\ ~p[i + 1].named
         /\ p[i].text \in {"subscriptions", "resourcegroups", "providers"}
<1>1. Len(p) \in Nat /\ b \in {3, 5} /\ b + 1 <= Len(p)
  BY PathsAreSequences DEF IsPath
<1>2. i = 1 \/ (i = 3 /\ b = 3) \/ (i = 3 /\ b = 5) \/ (i = 5 /\ b = 5)
  BY <1>1 DEF Odds
<1>. QED
  BY <1>1, <1>2 DEF IsPath

(* One iteration of sanitizePath's loop, and the step over a provider.     *)
LEMMA SegmentsAreMasked ==
  ASSUME PathsInv, SanitizeSegment
  PROVE  Sanitizing'
<1>1. /\ phase = "sanitize" /\ phase' = "sanitize" /\ at <= Len(path)
      /\ Asked' = Asked
  BY DEF SanitizeSegment, Keep, Asked
<1>2. PICK b : /\ IsPath(Asked, b)
               /\ \/ at \in Odds /\ at <= b /\ Masked(Asked, path, at)
                  \/ /\ at \in {2, 4} /\ at < b /\ Masked(Asked, path, at + 1)
                     /\ path[at].text \in MaskWords
                  \/ at \in Nat /\ at > Len(Asked) /\ Masked(Asked, path, at)
  BY <1>1, Zenon DEF PathsInv, Sanitizing
<1>3. Len(Asked) \in Nat /\ Len(path) = Len(Asked) /\ b \in {3, 5}
  BY <1>2, PathsAreSequences DEF Masked, IsPath
<1>4. CASE at \in Odds /\ at <= b /\ Masked(Asked, path, at)
  <2>1. /\ ~Asked[at].named /\ at \in 1 .. Len(Asked) /\ at + 1 \in 1 .. Len(Asked)
        /\ at \in Nat
    BY <1>2, <1>3, <1>4, MaskSteps DEF Odds
  <2>2. path[at] = Asked[at]
    BY <1>4, <2>1 DEF Masked
  <2>3. /\ Asked[at].text = "subscriptions" =>
             at = 1 /\ Asked[at + 1].text # "[subscription_id]"
        /\ Asked[at].text = "resourcegroups" =>
             at = 3 /\ b = 5 /\ Asked[at + 1].text # "[resource_group]"
        /\ Asked[at].text \in {"subscriptions", "resourcegroups", "providers"}
    BY <1>2, <1>4, MaskSteps, Zenon
  <2>4. ~NotAName
    BY <1>1, <2>2, <2>3 DEF NotAName, IsAt
  <2>5. PICK t \in MaskWords :
          /\ path' = Replaced(at + 1, t) /\ at' = at + segmentStep
          /\ t # Asked[at + 1].text /\ at + 1 \in {2, 4} /\ at + 1 < b
    BY <1>3, <2>2, <2>3, <2>4 DEF SanitizeSegment, IsAt, MaskWords
  <2>6. at' = at + 1
    BY <2>5 DEF segmentStep
  <2>7. path' = Rewritten(path, at + 1, t)
    BY <1>3, <2>1, <2>5 DEF Replaced
  <2>8. Masked(Asked, path', at + 1 + 1) /\ path'[at + 1].text = t
    <3>0. PICK n \in Nat : n = at + 1
      BY <2>1
    <3>1. /\ at <= n /\ n \in 1 .. Len(Asked)
          /\ \A j \in at .. n - 1 : j <= Len(Asked) => ~Asked[j].named
          /\ t # Asked[n].text \/ ~Asked[n].named
      BY <2>1, <2>5, <3>0
    <3>2. path' = Rewritten(path, n, t)
      BY <2>7, <3>0
    <3>3. Masked(Asked, path', n + 1) /\ path'[n].text = t
      BY <1>3, <1>4, <2>1, <3>0, <3>1, <3>2, MasksGrow
    <3>. QED
      BY <3>0, <3>3
  <2>. QED
    BY <1>1, <1>2, <2>5, <2>6, <2>8 DEF Sanitizing
<1>5. CASE /\ at \in {2, 4} /\ at < b /\ Masked(Asked, path, at + 1)
           /\ path[at].text \in MaskWords
  <2>1. NotAName
    BY <1>5 DEF NotAName, IsAt, MaskWords
  <2>2. at' = at + 1 /\ path' = path
    BY <2>1 DEF SanitizeSegment, NotAName
  <2>3. at + 1 \in Odds /\ at + 1 <= b
    BY <1>3, <1>5 DEF Odds
  <2>. QED
    BY <1>1, <1>2, <1>5, <2>2, <2>3 DEF Sanitizing
<1>6. ~(at \in Nat /\ at > Len(Asked))
  BY <1>1, <1>3
<1>. QED
  BY <1>2, <1>4, <1>5, <1>6

LEMMA ProvidersAreMasked ==
  ASSUME PathsInv, SanitizeProvider
  PROVE  Sanitizing'
<1>1. /\ phase = "sanitize" /\ at <= Len(path) /\ path[at].text = "providers"
      /\ Asked' = Asked /\ path' = path
  BY DEF SanitizeProvider, Asked, IsAt
<1>2. PICK b : /\ IsPath(Asked, b)
               /\ \/ at \in Odds /\ at <= b /\ Masked(Asked, path, at)
                  \/ /\ at \in {2, 4} /\ at < b /\ Masked(Asked, path, at + 1)
                     /\ path[at].text \in MaskWords
                  \/ at \in Nat /\ at > Len(Asked) /\ Masked(Asked, path, at)
  BY <1>1, Zenon DEF PathsInv, Sanitizing
<1>3. Len(Asked) \in Nat /\ Len(path) = Len(Asked) /\ b \in {3, 5}
  BY <1>2, PathsAreSequences DEF Masked, IsPath
<1>4. at \in Odds /\ at <= b /\ Masked(Asked, path, at)
  BY <1>1, <1>2, <1>3 DEF MaskWords
<1>5. /\ ~Asked[at].named /\ at \in 1 .. Len(Asked) /\ at + 1 <= Len(Asked)
      /\ at \in Nat
  BY <1>2, <1>3, <1>4, MaskSteps DEF Odds
<1>6. Asked[at].text = "providers"
  BY <1>1, <1>4, <1>5 DEF Masked
<1>7. at = b /\ ~Asked[at + 1].named
  BY <1>2, <1>4, <1>6, MaskSteps, Zenon
<1>8. at' = at + 2 /\ phase' = "sanitize_names"
  BY <1>3, <1>5 DEF SanitizeProvider
<1>9. Masked(Asked, path, at + 2)
  <2>1. /\ at + 2 \in Nat /\ at <= at + 2
        /\ \A j \in at .. at + 2 - 1 : j <= Len(Asked) => ~Asked[j].named
    BY <1>5, <1>7
  <2>. QED
    BY <1>3, <1>4, <1>5, <2>1, MasksStay
<1>10. at + 2 \in Odds /\ at + 2 > b
  BY <1>3, <1>7 DEF Odds
<1>. QED
  BY <1>1, <1>2, <1>8, <1>9, <1>10 DEF Sanitizing

(* The step from one name behind a provider to the next.                   *)
LEMMA NamesAreMasked ==
  ASSUME PathsInv, SanitizeName
  PROVE  Sanitizing'
<1>1. phase = "sanitize_names" /\ Asked' = Asked
  BY DEF SanitizeName, Asked
<1>2. PICK b : /\ IsPath(Asked, b) /\ at \in Odds /\ at > b
               /\ Masked(Asked, path, at)
  BY <1>1, Zenon DEF PathsInv, Sanitizing
<1>3. Len(Asked) \in Nat /\ Len(path) = Len(Asked) /\ b \in {3, 5} /\ at \in Nat
      /\ Len(Asked) <= 13 /\ at >= 1
  BY <1>2, PathsAreSequences DEF Masked, IsPath, Odds
<1>4. CASE at + 1 <= Len(path)
  <2>1. /\ path' = Replaced(at + 1, Bracketed(path[at].text)) /\ at' = at + 2
        /\ phase' = "sanitize_names"
    BY <1>1, <1>4 DEF SanitizeName
  <2>2. path[at] = Asked[at]
    BY <1>2, <1>3, <1>4 DEF Masked
  <2>3. /\ ~Asked[at].named
        /\ Asked[at + 1].named => Bracketed(Asked[at].text) # Asked[at + 1].text
    BY <1>2, <1>3, <1>4 DEF IsPath
  <2>4. path' = Rewritten(path, at + 1, Bracketed(Asked[at].text))
    BY <1>4, <2>1, <2>2 DEF Replaced
  <2>5. Masked(Asked, path', at + 1 + 1)
    <3>0. PICK n, t : n \in Nat /\ n = at + 1 /\ t = Bracketed(Asked[at].text)
      BY <1>3
    <3>1. /\ at <= n /\ n \in 1 .. Len(Asked)
          /\ \A j \in at .. n - 1 : j <= Len(Asked) => ~Asked[j].named
          /\ t # Asked[n].text \/ ~Asked[n].named
      BY <1>3, <1>4, <2>3, <3>0
    <3>2. path' = Rewritten(path, n, t)
      BY <2>4, <3>0
    <3>3. Masked(Asked, path', n + 1)
      BY <1>2, <1>3, <3>0, <3>1, <3>2, MasksGrow
    <3>. QED
      BY <3>0, <3>3
  <2>6. at + 1 + 1 = at + 2 /\ at + 2 \in Odds /\ at + 2 > b
    BY <1>2, <1>3, <1>4 DEF Odds
  <2>. QED
    BY <1>1, <1>2, <2>1, <2>5, <2>6 DEF Sanitizing
<1>5. CASE ~(at + 1 <= Len(path))
  <2>1. path' = path /\ at' = at + 1 /\ phase' = "sanitize"
    BY <1>5 DEF SanitizeName
  <2>2. at + 1 \in Nat /\ at + 1 > Len(Asked)
    BY <1>3, <1>5
  <2>3. Masked(Asked, path, at + 1)
    <3>1. at <= at + 1 /\ \A j \in at .. at + 1 - 1 : j <= Len(Asked) => ~Asked[j].named
      BY <1>2, <1>3, <1>5 DEF IsPath
    <3>. QED
      BY <1>2, <1>3, <2>2, <3>1, MasksStay
  <2>. QED
    BY <1>1, <1>2, <2>1, <2>2, <2>3 DEF Sanitizing
<1>. QED
  BY <1>4, <1>5

LEMMA ListChild ==
  Segments(<<"providers", "microsoft.sql", "servers">>) =
    <<Word("providers"), Word("microsoft.sql"), Word("servers")>>
BY DEF Segments

LEMMA SettingsChild ==
  Segments(<<"providers", "microsoft.insights", "diagnosticsettings">>) =
    <<Word("providers"), Word("microsoft.insights"), Word("diagnosticsettings")>>
BY DEF Segments

(* The list of the servers of a subscription.                              *)
LEMMA ListIsARoute ==
  IsRoute(Subscription \o Segments(<<"providers", "microsoft.sql", "servers">>), 3)
<1>. DEFINE p == Subscription \o Segments(<<"providers", "microsoft.sql", "servers">>)
<1>1. FiveJoin(p, Word("subscriptions"), Name("sub-1"), Word("providers"),
              Word("microsoft.sql"), Word("servers"))
  BY FiveJoined, ListChild, Zenon DEF Subscription
<1>. HIDE DEF p
<1>2. /\ p[1].text = "subscriptions" /\ ~p[1].named
      /\ p[2].text = "sub-1" /\ p[2].named
      /\ p[3].text = "providers" /\ ~p[3].named
      /\ p[4].text = "microsoft.sql" /\ ~p[4].named
      /\ p[5].text = "servers" /\ ~p[5].named
      /\ Len(p) = 5
  BY <1>1 DEF FiveJoin, Word, Name
<1>3. \E S : p \in Seq(S)
  BY <1>1, Zenon DEF FiveJoin
<1>4. IsPath(p, 3)
  BY <1>2, <1>3 DEF IsPath, Odds
<1>5. IsRoute(p, 3)
  BY <1>2, <1>4 DEF IsRoute, Odds
<1>. QED
  BY <1>5 DEF p

(* The encryption of a database.                                           *)
LEMMA EncryptionIsARoute ==
  ASSUME NEW g, NEW n, NEW d, g # "[resource_group]",
         Bracketed("servers") # n, Bracketed("databases") # d,
         Bracketed("transparentdataencryption") # "current"
  PROVE  IsRoute(Database(g, n, d)
                   \o <<Word("transparentdataencryption"), Name("current")>>, 5)
<1>. DEFINE p == Database(g, n, d)
                   \o <<Word("transparentdataencryption"), Name("current")>>
<1>1. TwelveJoin(p, Word("subscriptions"), Name("sub-1"), Word("resourcegroups"),
                Name(g), Word("providers"), Word("microsoft.sql"),
                Word("servers"), Name(n), Word("databases"), Name(d),
                Word("transparentdataencryption"), Name("current"))
  BY TwelveJoined, Zenon DEF Database, Server, Under, Subscription
<1>. HIDE DEF p
<1>2. /\ p[1].text = "subscriptions" /\ ~p[1].named
      /\ p[2].text = "sub-1" /\ p[2].named
      /\ p[3].text = "resourcegroups" /\ ~p[3].named
      /\ p[4].text = g /\ p[4].named
      /\ p[5].text = "providers" /\ ~p[5].named
      /\ p[6].text = "microsoft.sql" /\ ~p[6].named
      /\ p[7].text = "servers" /\ ~p[7].named
      /\ p[8].text = n /\ p[8].named
      /\ p[9].text = "databases" /\ ~p[9].named
      /\ p[10].text = d /\ p[10].named
      /\ p[11].text = "transparentdataencryption" /\ ~p[11].named
      /\ p[12].text = "current" /\ p[12].named
      /\ Len(p) = 12
  BY <1>1 DEF TwelveJoin, Word, Name
<1>3. \E S : p \in Seq(S)
  BY <1>1, Zenon DEF TwelveJoin
<1>4. IsPath(p, 5)
  BY <1>2, <1>3 DEF IsPath, Odds
<1>5. IsRoute(p, 5)
  BY <1>2, <1>4 DEF IsRoute, Odds
<1>. QED
  BY <1>5 DEF p

(* The settings of a machine, and of a database.                           *)
LEMMA MachineSettingsAreARoute ==
  ASSUME NEW g, NEW n, g # "[resource_group]",
         Bracketed("virtualmachines") # n
  PROVE  IsRoute(Machine(g, n) \o Segments(<<"providers", "microsoft.insights",
                                             "diagnosticsettings">>), 5)
<1>. DEFINE p == Machine(g, n) \o Segments(<<"providers", "microsoft.insights",
                                          "diagnosticsettings">>)
<1>1. ElevenJoin(p, Word("subscriptions"), Name("sub-1"), Word("resourcegroups"),
                Name(g), Word("providers"), Word("microsoft.compute"),
                Word("virtualmachines"), Name(n), Word("providers"),
                Word("microsoft.insights"), Word("diagnosticsettings"))
  BY ElevenJoined, SettingsChild, Zenon DEF Machine, Under, Subscription
<1>. HIDE DEF p
<1>2. /\ p[1].text = "subscriptions" /\ ~p[1].named
      /\ p[2].text = "sub-1" /\ p[2].named
      /\ p[3].text = "resourcegroups" /\ ~p[3].named
      /\ p[4].text = g /\ p[4].named
      /\ p[5].text = "providers" /\ ~p[5].named
      /\ p[6].text = "microsoft.compute" /\ ~p[6].named
      /\ p[7].text = "virtualmachines" /\ ~p[7].named
      /\ p[8].text = n /\ p[8].named
      /\ p[9].text = "providers" /\ ~p[9].named
      /\ p[10].text = "microsoft.insights" /\ ~p[10].named
      /\ p[11].text = "diagnosticsettings" /\ ~p[11].named
      /\ Len(p) = 11
  BY <1>1 DEF ElevenJoin, Word, Name
<1>3. \E S : p \in Seq(S)
  BY <1>1, Zenon DEF ElevenJoin
<1>4. IsPath(p, 5)
  BY <1>2, <1>3 DEF IsPath, Odds
<1>5. IsRoute(p, 5)
  BY <1>2, <1>4 DEF IsRoute, Odds
<1>. QED
  BY <1>5 DEF p

LEMMA DatabaseSettingsAreARoute ==
  ASSUME NEW g, NEW n, NEW d, g # "[resource_group]",
         Bracketed("servers") # n, Bracketed("databases") # d
  PROVE  IsRoute(Database(g, n, d) \o Segments(<<"providers", "microsoft.insights",
                                             "diagnosticsettings">>), 5)
<1>. DEFINE p == Database(g, n, d) \o Segments(<<"providers", "microsoft.insights",
                                          "diagnosticsettings">>)
<1>1. ThirteenJoin(p, Word("subscriptions"), Name("sub-1"),
                  Word("resourcegroups"), Name(g), Word("providers"),
                  Word("microsoft.sql"), Word("servers"), Name(n),
                  Word("databases"), Name(d), Word("providers"),
                  Word("microsoft.insights"), Word("diagnosticsettings"))
  BY ThirteenJoined, SettingsChild, Zenon DEF Database, Server, Under, Subscription
<1>. HIDE DEF p
<1>2. /\ p[1].text = "subscriptions" /\ ~p[1].named
      /\ p[2].text = "sub-1" /\ p[2].named
      /\ p[3].text = "resourcegroups" /\ ~p[3].named
      /\ p[4].text = g /\ p[4].named
      /\ p[5].text = "providers" /\ ~p[5].named
      /\ p[6].text = "microsoft.sql" /\ ~p[6].named
      /\ p[7].text = "servers" /\ ~p[7].named
      /\ p[8].text = n /\ p[8].named
      /\ p[9].text = "databases" /\ ~p[9].named
      /\ p[10].text = d /\ p[10].named
      /\ p[11].text = "providers" /\ ~p[11].named
      /\ p[12].text = "microsoft.insights" /\ ~p[12].named
      /\ p[13].text = "diagnosticsettings" /\ ~p[13].named
      /\ Len(p) = 13
  BY <1>1 DEF ThirteenJoin, Word, Name
<1>3. \E S : p \in Seq(S)
  BY <1>1, Zenon DEF ThirteenJoin
<1>4. IsPath(p, 5)
  BY <1>2, <1>3 DEF IsPath, Odds
<1>5. IsRoute(p, 5)
  BY <1>2, <1>4 DEF IsRoute, Odds
<1>. QED
  BY <1>5 DEF p

(* The ID of a server without its name.                                    *)
LEMMA BadIDIsAPath ==
  ASSUME NEW g, g # "[resource_group]"
  PROVE  IsPath(BadID(g), 5)
<1>1. \E S : BadID(g) \in Seq(S)
  BY BadIDIs, Zenon DEF SevenJoin
<1>2. PICK p : p = BadID(g)
  OBVIOUS
<1>3. /\ Len(p) = 7
      /\ p[1].text = "subscriptions" /\ ~p[1].named
      /\ p[2].text = "sub-1" /\ p[2].named
      /\ p[3].text = "resourcegroups" /\ ~p[3].named
      /\ p[4].text = g /\ p[4].named
      /\ p[5].text = "providers" /\ ~p[5].named
      /\ ~p[6].named /\ ~p[7].named
  BY <1>2, BadIDSays
<1>4. IsPath(p, 5)
  BY <1>1, <1>2, <1>3 DEF IsPath, Odds
<1>. QED
  BY <1>2, <1>4

(* The IDs of servers and vaults, and what is asked for beneath them.      *)
LEMMA ParentIsAPath ==
  ASSUME NEW p, NEW g, NEW parent \in {"servers", "vaults"}, NEW n,
         ParentIs(p, g, Provider[parent], parent, n),
         g # "[resource_group]", Bracketed(parent) # n
  PROVE  IsPath(p, 5)
<1>1. \E S : p \in Seq(S)
  BY Zenon DEF ParentIs, EightJoin
<1>2. /\ Len(p) = 8
      /\ p[1].text = "subscriptions" /\ ~p[1].named
      /\ p[2].text = "sub-1" /\ p[2].named
      /\ p[3].text = "resourcegroups" /\ ~p[3].named
      /\ p[4].text = g /\ p[4].named
      /\ p[5].text = "providers" /\ ~p[5].named
      /\ ~p[6].named
      /\ p[7].text = parent /\ ~p[7].named
      /\ p[8].text = n /\ p[8].named
  BY ParentSays
<1>. QED
  BY <1>1, <1>2 DEF IsPath, Odds

LEMMA ChildIsARoute ==
  ASSUME NEW g, NEW parent \in {"servers", "vaults"}, NEW n, NEW w,
         g # "[resource_group]", Bracketed(parent) # n,
         w \notin {"subscriptions", "resourcegroups", "providers"}
  PROVE  IsRoute(<<Word("subscriptions"), Name("sub-1"), Word("resourcegroups"),
                   Name(g), Word("providers"), Word(Provider[parent]), Word(parent),
                   Name(n)>> \o Segments(<<w>>), 5)
<1>. DEFINE p == <<Word("subscriptions"), Name("sub-1"), Word("resourcegroups"),
                   Name(g), Word("providers"), Word(Provider[parent]), Word(parent),
                   Name(n)>> \o Segments(<<w>>)
<1>1. Segments(<<w>>) = <<Word(w)>>
  BY DEF Segments
<1>2. NineJoin(p, Word("subscriptions"), Name("sub-1"), Word("resourcegroups"),
               Name(g), Word("providers"), Word(Provider[parent]), Word(parent),
               Name(n), Word(w))
  BY <1>1, NineJoined, Zenon
<1>. HIDE DEF p
<1>3. /\ p[1].text = "subscriptions" /\ ~p[1].named
      /\ p[2].text = "sub-1" /\ p[2].named
      /\ p[3].text = "resourcegroups" /\ ~p[3].named
      /\ p[4].text = g /\ p[4].named
      /\ p[5].text = "providers" /\ ~p[5].named
      /\ ~p[6].named
      /\ p[7].text = parent /\ ~p[7].named
      /\ p[8].text = n /\ p[8].named
      /\ p[9].text = w /\ ~p[9].named
      /\ Len(p) = 9
  BY <1>2 DEF NineJoin, Word, Name
<1>4. \E S : p \in Seq(S)
  BY <1>2, Zenon DEF NineJoin
<1>5. IsPath(p, 5)
  BY <1>3, <1>4 DEF IsPath, Odds
<1>6. IsRoute(p, 5)
  BY <1>3, <1>5 DEF IsRoute, Odds
<1>. QED
  BY <1>6 DEF p

(* Every call is about such a path, and asks for such a route.             *)
LEMMA NamesAreNoMasks ==
  /\ \A g \in Groups : g # "[resource_group]"
  /\ \A n \in Names \cup {"current", "providers"} :
       /\ Bracketed("servers") # n /\ Bracketed("databases") # n
       /\ Bracketed("vaults") # n /\ Bracketed("virtualmachines") # n
       /\ Bracketed("transparentdataencryption") # n
BY BracketsAssumption

CallIsNamed(ask) ==
  /\ ask.parent = "none" => \E b : IsRoute(ask.id \o ask.child, b)
  /\ ask.parent # "none" =>
       /\ \E b : IsPath(ask.id, b)
       /\ ParentRoute(ask.id, ask.parent) # <<>> =>
            \E b : IsRoute(ParentRoute(ask.id, ask.parent) \o ask.child, b)

(* A call about what is beneath a server or vault with an ID of its own.   *)
LEMMA ParentCallsAreNamed ==
  ASSUME NEW p, NEW g \in Groups, NEW parent \in {"servers", "vaults"},
         NEW n \in Names, NEW w,
         ParentIs(p, g, Provider[parent], parent, n),
         w \notin {"subscriptions", "resourcegroups", "providers"}
  PROVE  IsPath(p, 5) /\ IsRoute(ParentRoute(p, parent) \o Segments(<<w>>), 5)
<1>1. /\ parent \notin {"subscriptions", "sub-1", "resourcegroups", "providers"}
      /\ Provider[parent] # parent
  BY DEF Provider
<1>2. g # "[resource_group]" /\ Bracketed(parent) # n /\ Bracketed(parent) # "providers"
  BY NamesAreNoMasks
<1>3. IsPath(p, 5)
  BY <1>2, ParentIsAPath
<1>4. PICK v : v = IF g = parent THEN Word("providers") ELSE Name(n)
  OBVIOUS
<1>5. /\ resourceIDValue(p, "subscriptions") = Name("sub-1")
      /\ resourceIDValue(p, "resourcegroups") = Name(g)
      /\ resourceIDValue(p, parent) = v
  BY <1>1, <1>4, ParentSays, ValuesFound
<1>6. v # NoValue
  BY <1>4 DEF NoValue, Word, Name
<1>7. Bracketed(parent) # v.text
  BY <1>2, <1>4 DEF Word, Name
<1>8. ParentRoute(p, parent) =
        <<Word("subscriptions"), Name("sub-1"), Word("resourcegroups"), Name(g),
          Word("providers"), Word(Provider[parent]), Word(parent), Name(v.text)>>
  BY <1>5, <1>6, RouteFound, Zenon
<1>9. IsRoute(ParentRoute(p, parent) \o Segments(<<w>>), 5)
  BY <1>2, <1>7, <1>8, ChildIsARoute, Zenon
<1>. QED
  BY <1>3, <1>9

LEMMA EncryptionCallsAre ==
  ASSUME NEW ask, ask \in EncryptionCalls
  PROVE  \E g \in Groups, n \in Names, d \in Names :
           ask = [id |-> Database(g, n, d), parent |-> "none",
                  child |-> <<Word("transparentdataencryption"), Name("current")>>]
BY DEF EncryptionCalls

LEMMA SettingsOf ==
  ASSUME NEW D, NEW c,
         NEW ask, ask \in {[id |-> i, parent |-> "none", child |-> c] : i \in D}
  PROVE  ask.id \in D /\ ask.parent = "none" /\ ask.child = c
OBVIOUS

LEMMA SettingsCallsAre ==
  ASSUME NEW ask, ask \in SettingsCalls
  PROVE  /\ ask.parent = "none"
         /\ ask.child = Segments(<<"providers", "microsoft.insights",
                                    "diagnosticsettings">>)
         /\ \/ \E g \in Groups, n \in Names : ask.id = Machine(g, n)
            \/ \E g \in Groups, n \in Names, d \in Names : ask.id = Database(g, n, d)
<1>. DEFINE M == {Machine(g, n) : g \in Groups, n \in Names}
            B == {Database(g, n, d) : g \in Groups, n \in Names, d \in Names}
            c == Segments(<<"providers", "microsoft.insights", "diagnosticsettings">>)
<1>1. ask \in {[id |-> i, parent |-> "none", child |-> c] : i \in M \cup B}
  BY DEF SettingsCalls
<1>. HIDE DEF c
<1>2. ask.id \in M \/ ask.id \in B
  <2>. HIDE DEF M, B
  <2>. QED
    BY <1>1, SettingsOf
<1>3. ask.parent = "none" /\ ask.child = c
  <2>. HIDE DEF M, B
  <2>. QED
    BY <1>1, SettingsOf
<1>4. \/ \E g \in Groups, n \in Names : ask.id = Machine(g, n)
      \/ \E g \in Groups, n \in Names, d \in Names : ask.id = Database(g, n, d)
  BY <1>2
<1>. QED
  BY <1>3, <1>4, Zenon DEF c

(* The ID without a name is used when the group is called servers.         *)
LEMMA BadIDOfServers ==
  ParentRoute(BadID("servers"), "servers") =
    <<Word("subscriptions"), Name("sub-1"), Word("resourcegroups"), Name("servers"),
      Word("providers"), Word(Provider["servers"]), Word("servers"), Name("providers")>>
<1>1. /\ resourceIDValue(BadID("servers"), "subscriptions") = Name("sub-1")
      /\ resourceIDValue(BadID("servers"), "resourcegroups") = Name("servers")
      /\ resourceIDValue(BadID("servers"), "servers") = Word("providers")
  BY BadIDSays, ValuesFound
<1>2. Word("providers") # NoValue /\ Word("providers").text = "providers"
  BY DEF NoValue, Word
<1>. QED
  BY <1>1, <1>2, RouteFound, Zenon

LEMMA CallsAreNamed ==
  ASSUME NEW ask \in NamedCalls
  PROVE  CallIsNamed(ask)
<1>1. CASE ask \in ListCalls
  <2>1. ask = [id |-> Subscription, parent |-> "none",
               child |-> Segments(<<"providers", "microsoft.sql", "servers">>)]
    BY <1>1, Zenon DEF ListCalls
  <2>2. /\ ask.id = Subscription /\ ask.parent = "none"
        /\ ask.child = Segments(<<"providers", "microsoft.sql", "servers">>)
    BY <2>1, CallOf, Zenon
  <2>. QED
    BY <2>2, ListIsARoute, Zenon DEF CallIsNamed
<1>2. CASE ask \in EncryptionCalls
  <2>1. PICK g \in Groups, n \in Names, d \in Names :
          ask = [id |-> Database(g, n, d), parent |-> "none",
                 child |-> <<Word("transparentdataencryption"), Name("current")>>]
    BY <1>2, EncryptionCallsAre, Zenon
  <2>2. /\ ask.id = Database(g, n, d) /\ ask.parent = "none"
        /\ ask.child = <<Word("transparentdataencryption"), Name("current")>>
    BY <2>1, CallOf, Zenon
  <2>3. IsRoute(Database(g, n, d)
                  \o <<Word("transparentdataencryption"), Name("current")>>, 5)
    BY NamesAreNoMasks, EncryptionIsARoute
  <2>. QED
    BY <2>2, <2>3, Zenon DEF CallIsNamed
<1>3. CASE ask \in SettingsCalls
  <2>1. /\ ask.parent = "none"
        /\ ask.child = Segments(<<"providers", "microsoft.insights",
                                   "diagnosticsettings">>)
        /\ \/ \E g \in Groups, n \in Names : ask.id = Machine(g, n)
           \/ \E g \in Groups, n \in Names, d \in Names : ask.id = Database(g, n, d)
    BY <1>3, SettingsCallsAre, Zenon
  <2>2. CASE \E g \in Groups, n \in Names : ask.id = Machine(g, n)
    <3>1. PICK g \in Groups, n \in Names : ask.id = Machine(g, n)
      BY <2>2
    <3>2. IsRoute(Machine(g, n) \o Segments(<<"providers", "microsoft.insights",
                                              "diagnosticsettings">>), 5)
      BY NamesAreNoMasks, MachineSettingsAreARoute
    <3>. QED
      BY <2>1, <3>1, <3>2, Zenon DEF CallIsNamed
  <2>3. CASE \E g \in Groups, n \in Names, d \in Names : ask.id = Database(g, n, d)
    <3>1. PICK g \in Groups, n \in Names, d \in Names : ask.id = Database(g, n, d)
      BY <2>3
    <3>2. IsRoute(Database(g, n, d) \o Segments(<<"providers", "microsoft.insights",
                                                  "diagnosticsettings">>), 5)
      BY NamesAreNoMasks, DatabaseSettingsAreARoute
    <3>. QED
      BY <2>1, <3>1, <3>2, Zenon DEF CallIsNamed
  <2>. QED
    BY <2>1, <2>2, <2>3
<1>4. CASE ask \in ServerCalls
  <2>1. PICK g \in Groups, n \in Names :
          ask = [id |-> Server(g, n), parent |-> "servers",
                 child |-> Segments(<<"databases">>)]
    BY <1>4, ServerCallsAre, Zenon
  <2>2. /\ ask.id = Server(g, n) /\ ask.parent = "servers"
        /\ ask.child = Segments(<<"databases">>)
    BY <2>1, CallOf, Zenon
  <2>3. ParentIs(Server(g, n), g, Provider["servers"], "servers", n)
    <3>1. Provider["servers"] = "microsoft.sql"
      BY DEF Provider
    <3>. QED
      BY <3>1, ServerIs, Zenon
  <2>4. /\ IsPath(Server(g, n), 5)
        /\ IsRoute(ParentRoute(Server(g, n), "servers") \o Segments(<<"databases">>), 5)
    BY <2>3, ParentCallsAreNamed
  <2>. QED
    BY <2>2, <2>4, Zenon DEF CallIsNamed
<1>5. CASE ask \in VaultCalls
  <2>1. PICK g \in Groups, n \in Names,
             w \in {"backupprotecteditems", "backuppolicies", "backupjobs"} :
          ask = [id |-> Vault(g, n), parent |-> "vaults", child |-> Segments(<<w>>)]
    BY <1>5, VaultCallsAre, Zenon
  <2>2. /\ ask.id = Vault(g, n) /\ ask.parent = "vaults"
        /\ ask.child = Segments(<<w>>)
    BY <2>1, CallOf, Zenon
  <2>3. ParentIs(Vault(g, n), g, Provider["vaults"], "vaults", n)
    <3>1. Provider["vaults"] = "microsoft.recoveryservices"
      BY DEF Provider
    <3>. QED
      BY <3>1, VaultIs, Zenon
  <2>4. /\ IsPath(Vault(g, n), 5)
        /\ IsRoute(ParentRoute(Vault(g, n), "vaults") \o Segments(<<w>>), 5)
    BY <2>3, ParentCallsAreNamed
  <2>. QED
    BY <2>2, <2>4, Zenon DEF CallIsNamed
<1>6. CASE ask \in BadCalls
  <2>1. PICK g \in Groups :
          ask = [id |-> BadID(g), parent |-> "servers",
                 child |-> Segments(<<"databases">>)]
    BY <1>6 DEF BadCalls, BadID
  <2>2. /\ ask.id = BadID(g) /\ ask.parent = "servers"
        /\ ask.child = Segments(<<"databases">>)
    BY <2>1, CallOf, Zenon
  <2>3. IsPath(BadID(g), 5)
    BY NamesAreNoMasks, BadIDIsAPath
  <2>4. CASE g # "servers"
    BY <2>2, <2>3, <2>4, BadIDsLeadNowhere, Zenon DEF CallIsNamed
  <2>5. CASE g = "servers"
    <3>1. ParentRoute(BadID(g), "servers") =
            <<Word("subscriptions"), Name("sub-1"), Word("resourcegroups"), Name(g),
              Word("providers"), Word(Provider["servers"]), Word("servers"),
              Name("providers")>>
      BY <2>5, BadIDOfServers
    <3>2. IsRoute(ParentRoute(BadID(g), "servers") \o Segments(<<"databases">>), 5)
      BY <3>1, NamesAreNoMasks, ChildIsARoute
    <3>. QED
      BY <2>2, <2>3, <3>2, Zenon DEF CallIsNamed
  <2>. QED
    BY <2>4, <2>5
<1>. QED
  BY <1>1, <1>2, <1>3, <1>4, <1>5, <1>6 DEF NamedCalls

-----------------------------------------------------------------------------
(***************************************************************************)
(* Neither the row of a request nor the message of an error tells what the *)
(* customer called things.                                                 *)
(***************************************************************************)
LEMMA PathsStart == NamesInit => PathsInv
BY DEF NamesInit, PathsInv, Written, Templating, Sanitizing

LEMMA RoutesAreMade ==
  ASSUME PathsInv, MakeRoute
  PROVE  PathsInv'
<1>1. /\ namedCall' = namedCall /\ namedCall \in NamedCalls
      /\ row' = <<>> /\ message' = <<>> /\ phase' = "template" /\ at' = 1
      /\ path' = route'
  BY DEF MakeRoute, Rewrite, PathsInv, Written
<1>2. \E b : IsRoute(route', b)
  <2>1. CASE namedCall.parent = "none"
    <3>1. route' = namedCall.id \o namedCall.child
      BY <2>1, Zenon DEF MakeRoute
    <3>. QED
      BY <1>1, <2>1, <3>1, CallsAreNamed, Zenon DEF CallIsNamed
  <2>2. CASE namedCall.parent # "none"
    <3>1. /\ route' = ParentRoute(namedCall.id, namedCall.parent) \o namedCall.child
          /\ ParentRoute(namedCall.id, namedCall.parent) # <<>>
      BY <2>2, Zenon DEF MakeRoute
    <3>. QED
      BY <1>1, <2>2, <3>1, CallsAreNamed, Zenon DEF CallIsNamed
  <2>. QED
    BY <2>1, <2>2
<1>3. PICK b : IsRoute(route', b)
  BY <1>2
<1>4. /\ \E S : route' \in Seq(S)
      /\ Len(route') \in Nat /\ 1 <= Len(route') /\ 1 <= b
  <2>1. IsPath(route', b)
    BY <1>3, Zenon DEF IsRoute
  <2>. QED
    BY <2>1, PathsAreSequences DEF IsPath
<1>5. route' # <<>>
  BY <1>4
<1>6. Templated(route', route', 1)
  <2>1. \A j \in 1 .. Len(route') : ~(j < 1)
    BY <1>4
  <2>. QED
    BY <1>4, <2>1, Zenon DEF Templated
<1>7. TemplateAt(route', b, 1)
  BY <1>4 DEF TemplateAt, Odds
<1>8. Templating'
  BY <1>1, <1>3, <1>5, <1>6, <1>7 DEF Templating
<1>9. Written' /\ Sanitizing'
  BY <1>1, <1>2 DEF Written, Sanitizing
<1>. QED
  BY <1>1, <1>8, <1>9 DEF PathsInv

(* A path that is begun to be masked.                                      *)
LEMMA MasksBegin ==
  ASSUME NEW p, NEW b, IsPath(p, b)
  PROVE  1 \in Odds /\ 1 <= b /\ Masked(p, p, 1)
<1>1. Len(p) \in Nat /\ b \in {3, 5}
  BY PathsAreSequences DEF IsPath
<1>2. \A j \in 1 .. Len(p) : ~(j < 1)
  BY <1>1
<1>3. Masked(p, p, 1)
  BY <1>2, Zenon DEF Masked, IsPath
<1>. QED
  BY <1>1, <1>3 DEF Odds

LEMMA InvalidIDsAreMasked ==
  ASSUME PathsInv, InvalidID
  PROVE  PathsInv'
<1>1. /\ namedCall' = namedCall /\ namedCall \in NamedCalls /\ namedCall.parent # "none"
      /\ route' = <<>> /\ row' = <<>> /\ message' = <<>>
      /\ phase' = "sanitize" /\ at' = 1 /\ path' = namedCall.id
  BY DEF InvalidID, Rewrite, PathsInv, Written
<1>2. Asked' = namedCall.id
  BY <1>1 DEF Asked
<1>3. PICK b : IsPath(namedCall.id, b)
  BY <1>1, CallsAreNamed, Zenon DEF CallIsNamed
<1>4. 1 \in Odds /\ 1 <= b /\ Masked(namedCall.id, namedCall.id, 1)
  BY <1>3, MasksBegin, Zenon
<1>5. Sanitizing'
  BY <1>1, <1>2, <1>3, <1>4 DEF Sanitizing
<1>6. Written' /\ Templating'
  BY <1>1 DEF Written, Templating
<1>. QED
  BY <1>1, <1>5, <1>6 DEF PathsInv

LEMMA FailuresAreMasked ==
  ASSUME PathsInv, Failed
  PROVE  PathsInv'
<1>1. /\ namedCall' = namedCall /\ namedCall \in NamedCalls
      /\ route' = route /\ route # <<>> /\ row' = row /\ message' = message
      /\ phase' = "sanitize" /\ at' = 1 /\ path' = route
      /\ Asked' = Asked /\ Asked = route
  BY DEF Failed, Rewrite, PathsInv, Written, Asked
<1>2. PICK b : IsRoute(route, b)
  BY <1>1, Zenon DEF PathsInv, Written
<1>3. IsPath(route, b) /\ 1 \in Odds /\ 1 <= b /\ Masked(route, route, 1)
  BY <1>2, MasksBegin, Zenon DEF IsRoute
<1>4. Sanitizing'
  BY <1>1, <1>3 DEF Sanitizing
<1>5. Written' /\ Templating'
  BY <1>1 DEF PathsInv, Written, Templating
<1>. QED
  BY <1>1, <1>4, <1>5 DEF PathsInv

(* The loops end behind the last segment.                                  *)
LEMMA TemplatesEnd ==
  ASSUME PathsInv, TemplateDone
  PROVE  PathsInv'
<1>1. /\ namedCall' = namedCall /\ namedCall \in NamedCalls /\ phase = "template"
      /\ route' = route /\ route # <<>> /\ row' = path /\ message' = message
      /\ phase' = "sent" /\ at > Len(path) /\ Asked' = Asked
  BY DEF TemplateDone, PathsInv, Templating, Asked
<1>2. PICK b : /\ IsRoute(route, b) /\ TemplateAt(route, b, at)
               /\ Templated(route, path, at)
  BY <1>1, Zenon DEF PathsInv, Templating
<1>3. Len(route) \in Nat /\ Len(path) = Len(route) /\ at \in Nat
  BY <1>2, PathsAreSequences DEF IsRoute, Templated, TemplateAt, Odds
<1>4. Templated(route, path, Len(route) + 1)
  <2>1. \A j \in 1 .. Len(route) : j < at /\ j < Len(route) + 1
    BY <1>1, <1>3
  <2>. QED
    BY <1>2, <2>1, Zenon DEF Templated
<1>5. Written' /\ Templating' /\ Sanitizing'
  BY <1>1, <1>4 DEF PathsInv, Written, Templating, Sanitizing
<1>. QED
  BY <1>1, <1>5 DEF PathsInv

LEMMA MasksEnd ==
  ASSUME PathsInv, SanitizeDone
  PROVE  PathsInv'
<1>1. /\ namedCall' = namedCall /\ namedCall \in NamedCalls /\ phase = "sanitize"
      /\ route' = route /\ row' = row /\ message' = path
      /\ phase' = "done" /\ at > Len(path) /\ Asked' = Asked
  BY DEF SanitizeDone, PathsInv, Asked
<1>2. PICK b : /\ IsPath(Asked, b)
               /\ \/ at \in Odds /\ at <= b /\ Masked(Asked, path, at)
                  \/ /\ at \in {2, 4} /\ at < b /\ Masked(Asked, path, at + 1)
                     /\ path[at].text \in MaskWords
                  \/ at \in Nat /\ at > Len(Asked) /\ Masked(Asked, path, at)
  BY <1>1, Zenon DEF PathsInv, Sanitizing
<1>3. /\ Len(Asked) \in Nat /\ Len(path) = Len(Asked) /\ b \in {3, 5}
      /\ b + 1 <= Len(Asked)
  BY <1>2, PathsAreSequences DEF Masked, IsPath
<1>4. at \in Nat /\ Masked(Asked, path, at)
  BY <1>1, <1>2, <1>3 DEF Odds
<1>5. Masked(Asked, path, Len(Asked) + 1)
  <2>1. \A j \in 1 .. Len(Asked) : j < at /\ j < Len(Asked) + 1 /\ ~(j >= Len(Asked) + 1)
    BY <1>1, <1>3, <1>4
  <2>. QED
    BY <1>4, <2>1, Zenon DEF Masked
<1>6. Written' /\ Templating' /\ Sanitizing'
  BY <1>1, <1>5 DEF PathsInv, Written, Templating, Sanitizing
<1>. QED
  BY <1>1, <1>6 DEF PathsInv

(* What a loop leaves alone.                                               *)
LEMMA WrittenStays ==
  ASSUME PathsInv, UNCHANGED <<namedCall, route, row, message>>,
         phase' # "asked", phase' = "sent" => phase = "sent"
  PROVE  namedCall' \in NamedCalls /\ Written'
BY DEF PathsInv, Written, Asked

(* Whatever the groups and the resources are called, a path in a row shows  *)
(* a placeholder or a word of the schema where the route has a name, and   *)
(* the route itself elsewhere, and a message no name the failed path had    *)
(* (templateARMPath, sanitizeARMPath).                                     *)
THEOREM NamesAreLeftOut == NamesSpec => []PathsDropTheNames
<1>1. PathsInv /\ [NamesNext]_namesVars => PathsInv'
  <2>. SUFFICES ASSUME PathsInv, [NamesNext]_namesVars PROVE PathsInv'
    OBVIOUS
  <2>1. CASE MakeRoute
    BY <2>1, RoutesAreMade
  <2>2. CASE InvalidID
    BY <2>2, InvalidIDsAreMasked
  <2>3. CASE TemplateSegment \/ TemplateProvider \/ TemplateName
    <3>1. /\ UNCHANGED <<namedCall, route, row, message>>
          /\ phase' \in {"template", "template_names"}
      BY <2>3 DEF TemplateSegment, TemplateProvider, TemplateName, Keep
    <3>2. Templating'
      BY <2>3, SegmentsAreTemplated, ProvidersAreTemplated, NamesAreTemplated
    <3>3. Sanitizing'
      BY <3>1 DEF Sanitizing
    <3>. QED
      BY <3>1, <3>2, <3>3, WrittenStays DEF PathsInv
  <2>4. CASE SanitizeSegment \/ SanitizeProvider \/ SanitizeName
    <3>1. /\ UNCHANGED <<namedCall, route, row, message>>
          /\ phase' \in {"sanitize", "sanitize_names"}
      BY <2>4 DEF SanitizeSegment, SanitizeProvider, SanitizeName, Keep
    <3>2. Sanitizing'
      BY <2>4, SegmentsAreMasked, ProvidersAreMasked, NamesAreMasked
    <3>3. Templating'
      BY <3>1 DEF Templating
    <3>. QED
      BY <3>1, <3>2, <3>3, WrittenStays DEF PathsInv
  <2>5. CASE TemplateDone
    BY <2>5, TemplatesEnd
  <2>6. CASE SanitizeDone
    BY <2>6, MasksEnd
  <2>7. CASE Failed
    BY <2>7, FailuresAreMasked
  <2>8. CASE RouteAnswered
    <3>1. UNCHANGED <<namedCall, route, row, message>> /\ phase' = "done"
      BY <2>8 DEF RouteAnswered
    <3>2. Templating' /\ Sanitizing'
      BY <3>1 DEF Templating, Sanitizing
    <3>. QED
      BY <3>1, <3>2, WrittenStays DEF PathsInv
  <2>9. CASE UNCHANGED namesVars
    BY <2>9 DEF namesVars, PathsInv, Written, Templating, Sanitizing, Asked
  <2>. QED
    BY <2>1, <2>2, <2>3, <2>4, <2>5, <2>6, <2>7, <2>8, <2>9 DEF NamesNext
<1>2. PathsInv => PathsDropTheNames
  <2>. SUFFICES ASSUME PathsInv PROVE PathsDropTheNames
    OBVIOUS
  <2>1. ASSUME row # <<>>
        PROVE  /\ DOMAIN row = DOMAIN route
               /\ \A i \in DOMAIN row : IF row[i].named THEN Placeholder(row[i].text)
                                        ELSE row[i] = route[i]
    <3>1. PICK b : IsRoute(route, b)
      BY <2>1, Zenon DEF PathsInv, Written
    <3>2. Templated(route, row, Len(route) + 1)
      BY <2>1, Zenon DEF PathsInv, Written
    <3>3. PICK S : row \in Seq(S)
      BY <3>2 DEF Templated
    <3>4. /\ Len(route) \in Nat
          /\ DOMAIN route = 1 .. Len(route) /\ DOMAIN row = 1 .. Len(route)
      BY <3>1, <3>2, <3>3, PathsAreSequences DEF IsRoute, Templated
    <3>5. \A i \in 1 .. Len(route) : i < Len(route) + 1
      BY <3>4
    <3>. QED
      BY <3>2, <3>4, <3>5, Zenon DEF Templated
  <2>2. ASSUME message # <<>>
        PROVE  /\ DOMAIN message = DOMAIN Asked
               /\ \A i \in DOMAIN message :
                    message[i].named => message[i].text # Asked[i].text
    <3>1. Masked(Asked, message, Len(Asked) + 1)
      BY <2>2, Zenon DEF PathsInv, Written
    <3>. QED
      BY <3>1 DEF Masked
  <2>. QED
    BY <2>1, <2>2, Zenon DEF PathsDropTheNames, Asked
<1>. QED
  BY PathsStart, <1>1, <1>2, PTL DEF NamesSpec
=============================================================================
