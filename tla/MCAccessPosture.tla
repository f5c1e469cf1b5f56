---------------------------- MODULE MCAccessPosture ----------------------------
(* Up to two subscriptions, two users and two service principals.  The first *)
(* subscription holds up to two role assignments and the second up to one,   *)
(* so that a principal may hold roles in both, an admin one in either, and a *)
(* group or another principal may hold a role beside known holders.          *)
EXTENDS AccessPosture, FiniteSetsExt

MCUsers == {"u1", "u2"}
MCServicePrincipals == {"s1", "s2"}

MCAssignments ==
  [principal : MCUsers, type : {"User"}, role : {"admin", "reader"}]
    \cup [principal : MCServicePrincipals, type : {"ServicePrincipal"},
          role : {"writer", "reader"}]
    \cup [principal : {NoPrincipal}, type : {"Group"}, role : {"admin", "reader"}]
    \cup [principal : {"u1"}, type : {"Other"}, role : {"admin", "reader"}]
    \cup [principal : {NoPrincipal}, type : {"Other"}, role : {"admin"}]

Unreadable == [unreadable |-> TRUE, rbacMiss |-> FALSE, roleAssignments |-> {}]
Unlisted == [unreadable |-> FALSE, rbacMiss |-> TRUE, roleAssignments |-> {}]
Listed(as) == [unreadable |-> FALSE, rbacMiss |-> FALSE, roleAssignments |-> as]

MCAnswers(n) == {Unreadable, Unlisted} \cup
  {Listed(as) : as \in UNION {kSubset(k, MCAssignments) : k \in 0..n}}

MCTenancies == {<<>>} \cup {<<a>> : a \in MCAnswers(2)}
                 \cup {<<a, b>> : a \in MCAnswers(2), b \in MCAnswers(1)}

(* u1 is an active member, u2 a guest who has not signed in.  s1 is an       *)
(* application's, with an old credential; s2 a managed identity.             *)
Everything ==
  [usersMiss |-> NoWhy, signInMiss |-> NoWhy, servicePrincipalsMiss |-> NoWhy,
   applicationsMiss |-> NoWhy, users |-> MCUsers, disabled |-> {},
   guests |-> {"u2"}, signedIn |-> {"u1"}, apps |-> {"s1"}, disabledApps |-> {},
   neverExpiring |-> {"s1"}, overdue |-> {"s1"}]

(* Each list unread, u2 disabled, u1 deleted, and s1 disabled and rotated.   *)
MCDirectories ==
  {Everything,
   [Everything EXCEPT !.usersMiss = "users"],
   [Everything EXCEPT !.signInMiss = "sign_ins", !.users = {"u2"}],
   [Everything EXCEPT !.servicePrincipalsMiss = "service_principals",
                      !.disabled = {"u2"}],
   [Everything EXCEPT !.applicationsMiss = "applications",
                      !.disabledApps = {"s1"}],
   [Everything EXCEPT !.disabledApps = {"s1"}, !.overdue = {},
                      !.disabled = {"u2"}]}
===============================================================================
