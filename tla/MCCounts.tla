------------------------------ MODULE MCCounts ------------------------------
(***************************************************************************)
(* What the collections count, side by side: the users, the credentials of *)
(* the apps, the holders of privileged roles, the sign-ins, the security   *)
(* groups open to the world, and the resources.  The parts share no state, *)
(* so a behaviour takes one of them and leaves the others where they       *)
(* start.                                                                  *)
(***************************************************************************)
EXTENDS Users, Credentials, Privileged, MCSignInActivity, Exposure, Inventory

(* A tenant with any one user, alone or beside an enabled guest who has    *)
(* not signed in, and a second user who may still be created.              *)
mcUserIDs == {"ana", "bo"}
Ana == [u \in {"ana"} |->
          [enabled |-> "true", type |-> "Member", mfa |-> FALSE, last |-> 0]]
Bo == [enabled |-> "true", type |-> "Guest", mfa |-> FALSE, last |-> Never]
mcDirectories ==
  {[Ana EXCEPT !["ana"].enabled = e, !["ana"].type = t, !["ana"].mfa = m] :
     e \in {"true", "false", "null"}, t \in {"Member", "Guest"}, m \in BOOLEAN}
    \cup {[u \in mcUserIDs |-> IF u = "bo" THEN Bo ELSE Ana[u]]}

(* Credentials that end in the window, at its end and after it, one that   *)
(* never ends, one whose end does not parse, and one valid for just a year.*)
Issued(owner, kind, start, end) ==
  [owner |-> owner, kind |-> kind, start |-> start, end |-> end]
mcCatalog ==
  {Issued("application", "password", -1, 1),
   Issued("application", "key", -2, 2),
   Issued("servicePrincipal", "key", 0, 3),
   Issued("servicePrincipal", "password", -1, NoDate),
   Issued("application", "password", BadDate, BadDate)}

(* Two users of every kind that tells two values apart, one group and an   *)
(* app, with assignments of every role in every order.                     *)
Holder(d, g, l, m, p, s) ==
  [disabled |-> d, guest |-> g, listed |-> l, mfa |-> m,
   phishingResistant |-> p, signedIn |-> s]
mcHolders ==
  {Holder(FALSE, FALSE, TRUE, TRUE, TRUE, TRUE),
   Holder(FALSE, TRUE, TRUE, TRUE, FALSE, FALSE),
   Holder(FALSE, FALSE, TRUE, FALSE, FALSE, TRUE),
   Holder(FALSE, TRUE, FALSE, TRUE, TRUE, FALSE),
   Holder(TRUE, FALSE, TRUE, FALSE, FALSE, FALSE)}
mcRoleUsers == {"u1", "u2"}
mcHolderDirectories == [mcRoleUsers -> mcHolders]

(* Groups of one rule, of one that denies before one that allows, and of   *)
(* one for each family of addresses, with ranges that begin, end and just  *)
(* miss the two ports, and prefixes of all addresses, of one family and of *)
(* a network.                                                              *)
Span(a, b) == [from |-> a, to |-> b]
PortSets == {{Span(20, 22)}, {Span(22, 80), Span(3389, 3389)},
             {Span(23, 3388)}, {Span(0, 65535)}, {Span(1, 0)}}
SourceSets == {{"0.0.0.0/0"}, {"::/0"}, {"10.0.0.0/8"}, {"10.0.0.0/8", "internet"}}
RuleOf(access, direction, protocol, sources, ports) ==
  [access |-> access, direction |-> direction, protocol |-> protocol,
   sources |-> sources, ports |-> ports]
InboundRules == {RuleOf(a, "Inbound", "tcp", s, p) :
                   a \in {"Allow", "Deny"}, s \in SourceSets, p \in PortSets}
OtherRules == {RuleOf("Allow", "Outbound", "*", {"any"}, {Span(0, 65535)}),
               RuleOf("Allow", "Inbound", "udp", {"*"}, {Span(22, 22)}),
               RuleOf("Deny", "Inbound", "any", {"*"}, {Span(0, 65535)})}
mcRules == InboundRules \cup OtherRules
Denying == {r \in mcRules : r.access = "Deny"}
mcSecurityGroups ==
  {<<>>} \cup {<<r>> : r \in mcRules}
    \cup {<<r1, r2>> : r1 \in Denying, r2 \in mcRules \ Denying}
    \cup {<<RuleOf("Allow", "Inbound", "*", {"0.0.0.0/0"}, {Span(22, 22)}),
            RuleOf("Allow", "Inbound", "tcp", {"::/0"}, {Span(0, 65535)})>>}

(* Resources whose tags disagree under one wanted key and under two, with  *)
(* empty ones first, and more types than are listed.                       *)
mcKeys == <<"environment", "env">>
Tag(spelling, key, value) == [spelling |-> spelling, key |-> key, value |-> value]
Tagged(type, tags) == [type |-> type, tags |-> tags]
mcResources ==
  {Tagged(1, {}),
   Tagged(2, {Tag(1, "environment", "dev"), Tag(2, "environment", "prod")}),
   Tagged(3, {Tag(1, "env", "dev"), Tag(2, "environment", "production")}),
   Tagged(1, {Tag(1, "environment", Blank), Tag(2, "environment", "prod"),
              Tag(3, "env", "dev")}),
   Tagged(NoType, {Tag(1, "owner", "prod"), Tag(2, "env", Blank)})}

-----------------------------------------------------------------------------
VARIABLE part

countsVars == <<usersVars, credentialsVars, privilegedVars, activityVars,
                exposureVars, inventoryVars, part>>

Parts == {"users", "credentials", "holders", "sign_ins", "network", "resources"}

CountsInit ==
  /\ part \in Parts
  /\ part # "users" => directory = CHOOSE d \in mcDirectories : TRUE
  /\ part # "credentials" => tenant = {}
  /\ part # "holders" => holderFacts = CHOOSE d \in mcHolderDirectories : TRUE
  /\ UsersInit /\ CredentialsInit /\ PrivilegedInit
  /\ ActivityInit /\ ExposureInit /\ InventoryInit

CountsNext ==
  /\ UNCHANGED part
  /\ IF part = "users" THEN UsersNext ELSE UNCHANGED usersVars
  /\ IF part = "credentials" THEN CredentialsNext ELSE UNCHANGED credentialsVars
  /\ IF part = "holders" THEN PrivilegedNext ELSE UNCHANGED privilegedVars
  /\ IF part = "sign_ins" THEN ActivityNext ELSE UNCHANGED activityVars
  /\ IF part = "network" THEN ExposureNext ELSE UNCHANGED exposureVars
  /\ IF part = "resources" THEN InventoryNext ELSE UNCHANGED inventoryVars

CountsSpec == CountsInit /\ [][CountsNext]_countsVars
=============================================================================
