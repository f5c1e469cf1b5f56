------------------------------- MODULE Users --------------------------------
(***************************************************************************)
(* The user values of the Entra artifact, and the tenant that goes on      *)
(* changing while they are collected: the users, the registration report   *)
(* and the sign-in times are three reads, the report is refreshed by Graph *)
(* only now and then, and the counts are taken at a later time than any of *)
(* them.                                                                   *)
(*                                                                         *)
(* A count is kept as the set of users counted.  Of what a user has        *)
(* registered only MFA is kept; the other registration values are counted  *)
(* over the same population.                                               *)
(***************************************************************************)
EXTENDS Integers, FiniteSets

CONSTANTS
  UserIDs,      \* the users a tenant may come to have
  Directories,  \* the tenants a run may start in
  InactiveDays, \* how long a user may go without a sign-in (90)
  MaxDay,       \* bound: the last day of the run
  MaxChanges    \* bound: the changes to the tenant during the run

Never == -1
UserFacts == [enabled : {"true", "false", "null"}, type : {"Member", "Guest"},
              mfa : BOOLEAN, last : Never .. MaxDay]
Lists == UNION {[S -> UserFacts] : S \in SUBSET UserIDs}
Reports == UNION {[S -> BOOLEAN] : S \in SUBSET UserIDs}
Empty == [u \in {} |-> FALSE]

ASSUME DirectoriesAssumption ==
  Directories \subseteq {d \in Lists : \A u \in DOMAIN d : d[u].last \in {Never, 0}}
ASSUME UsersBoundsAssumption ==
  InactiveDays \in Nat /\ MaxDay \in Nat /\ MaxChanges \in Nat

VARIABLES
  directory,  \* the tenant's users
  report,     \* the registration report, as Graph last refreshed it
  today,      \* the day it is
  changes,    \* how often the tenant changed
  pc,         \* the read or count that is next
  users, registrations, signInUsers,  \* what the reads gave
  unread,     \* the reads that failed
  members, listed, registered,        \* the users counted
  total, inactive, inactiveGuests,
  signIns,    \* the days each user signed in
  steady,     \* the users who did not change since the run began
  readAt, countedAt, guestsAt  \* when the sign-in times were read and counted

tenantVars == <<directory, report, today, changes, signIns, steady>>
listVars == <<users, registrations, signInUsers, unread, readAt>>
countVars == <<members, listed, registered, total, inactive, inactiveGuests,
               countedAt, guestsAt>>
usersVars == <<tenantVars, pc, listVars, countVars>>

Registered(d) == [u \in DOMAIN d |-> d[u].mfa]

UsersInit ==
  /\ directory \in Directories
  /\ report = Registered(directory)
  /\ today = 0 /\ changes = 0
  /\ pc = "users"
  /\ users = Empty /\ registrations = Empty /\ signInUsers = Empty
  /\ unread = {}
  /\ members = {} /\ listed = {} /\ registered = {}
  /\ total = {} /\ inactive = {} /\ inactiveGuests = {}
  /\ signIns = [u \in DOMAIN directory |-> {directory[u].last} \ {Never}]
  /\ steady = UserIDs
  /\ readAt = 0 /\ countedAt = 0 /\ guestsAt = 0

-----------------------------------------------------------------------------
(* The tenant: a change is made to one user, who is then not steady.  The  *)
(* ID of a deleted user is not used again.                                 *)
Change(u, d, s) ==
  /\ changes < MaxChanges /\ pc # "done"
  /\ changes' = changes + 1
  /\ directory' = d /\ signIns' = s /\ steady' = steady \ {u}
  /\ UNCHANGED <<report, today, pc, listVars, countVars>>

Put(u, facts) == [v \in DOMAIN directory \cup {u} |-> IF v = u THEN facts ELSE directory[v]]
Days(u, days) == [v \in DOMAIN signIns \cup {u} |-> IF v = u THEN days ELSE signIns[v]]
Without(f, u) == [v \in DOMAIN f \ {u} |-> f[v]]

Create(u) ==
  /\ u \notin DOMAIN signIns
  /\ \E type \in {"Member", "Guest"} :
       Change(u, Put(u, [enabled |-> "true", type |-> type, mfa |-> FALSE, last |-> Never]),
              Days(u, {}))
Delete(u) ==
  u \in DOMAIN directory /\ Change(u, Without(directory, u), signIns)
Enable(u) ==
  /\ u \in DOMAIN directory
  /\ \E e \in {"true", "false"} \ {directory[u].enabled} :
       Change(u, Put(u, [directory[u] EXCEPT !.enabled = e]), signIns)
Register(u) ==
  /\ u \in DOMAIN directory /\ ~directory[u].mfa
  /\ Change(u, Put(u, [directory[u] EXCEPT !.mfa = TRUE]), signIns)
UserSignsIn(u) ==
  /\ u \in DOMAIN directory /\ directory[u].enabled # "false"
  /\ Change(u, Put(u, [directory[u] EXCEPT !.last = today]),
            Days(u, signIns[u] \cup {today}))

RefreshReport ==
  /\ pc # "done" /\ report # Registered(directory)
  /\ report' = Registered(directory)
  /\ UNCHANGED <<directory, today, changes, signIns, steady, pc, listVars, countVars>>

Tick ==
  /\ pc # "done" /\ today < MaxDay
  /\ today' = today + 1
  /\ UNCHANGED <<directory, report, changes, signIns, steady, pc, listVars, countVars>>

Tenant ==
  \/ \E u \in UserIDs : Create(u) \/ Delete(u) \/ Enable(u) \/ Register(u) \/ UserSignsIn(u)
  \/ RefreshReport \/ Tick

-----------------------------------------------------------------------------
(* A read gives the list as it is, or fails and is empty.                  *)
ReadUsers ==
  /\ pc = "users" /\ pc' = "registrations"
  /\ \/ users' = directory /\ UNCHANGED unread
     \/ unread' = unread \cup {pc} /\ UNCHANGED users
  /\ UNCHANGED <<tenantVars, registrations, signInUsers, readAt, countVars>>

ReadRegistrations ==
  /\ pc = "registrations" /\ pc' = "sign_ins"
  /\ \/ registrations' = report /\ UNCHANGED unread
     \/ unread' = unread \cup {pc} /\ UNCHANGED registrations
  /\ UNCHANGED <<tenantVars, users, signInUsers, readAt, countVars>>

ReadSignInActivity ==
  /\ pc = "sign_ins" /\ pc' = "counts"
  /\ \/ signInUsers' = directory /\ readAt' = today /\ UNCHANGED unread
     \/ unread' = unread \cup {pc} /\ UNCHANGED <<signInUsers, readAt>>
  /\ UNCHANGED <<tenantVars, users, registrations, countVars>>

-----------------------------------------------------------------------------
(* Mutant: a user without the property is taken for enabled.               *)
notDisabled(user) == user.enabled # "false"

enabledAccount(user) == user.enabled = "true"
EnabledMember(user) == enabledAccount(user) /\ user.type = "Member"
EnabledMemberIDs == {u \in DOMAIN users : EnabledMember(users[u])}

(* The members the report lists.                                           *)
listedMembers(ids) == ids \cap DOMAIN registrations

(* The list the inactive users are counted in.                             *)
includedUsers == signInUsers

(* Mutant: a sign-in on the first day of the window is too old.            *)
signedInAfter(last, cutoff) == last > cutoff

inactiveCutoff == today - InactiveDays
signedInSince(last, cutoff) == last # Never /\ last >= cutoff

countInactive(include) ==
  {u \in include \cap DOMAIN signInUsers :
     ~signedInSince(signInUsers[u].last, inactiveCutoff)}

(* The registration values need the users and the report, the inactive     *)
(* users the sign-in times alone.                                          *)
CountUsers ==
  /\ pc = "counts" /\ pc' = "guests"
  /\ members' = EnabledMemberIDs
  /\ IF unread \cap {"users", "registrations"} = {}
     THEN /\ listed' = listedMembers(EnabledMemberIDs)
          /\ registered' = {u \in listed' \cap DOMAIN registrations : registrations[u]}
     ELSE UNCHANGED <<listed, registered>>
  /\ total' = {u \in DOMAIN includedUsers : enabledAccount(includedUsers[u])}
  /\ inactive' = countInactive({u \in DOMAIN signInUsers : enabledAccount(signInUsers[u])})
  /\ countedAt' = today
  /\ UNCHANGED <<tenantVars, listVars, inactiveGuests, guestsAt>>

(* The guests are counted by another reading of the clock.                 *)
CountGuests ==
  /\ pc = "guests" /\ pc' = "done"
  /\ inactiveGuests' = countInactive({u \in DOMAIN signInUsers :
       enabledAccount(signInUsers[u]) /\ signInUsers[u].type = "Guest"})
  /\ guestsAt' = today
  /\ UNCHANGED <<tenantVars, listVars, members, listed, registered, total, inactive,
                 countedAt>>

Collector ==
  ReadUsers \/ ReadRegistrations \/ ReadSignInActivity \/ CountUsers \/ CountGuests
UsersNext == Tenant \/ Collector
UsersSpec == UsersInit /\ [][UsersNext]_usersVars
-----------------------------------------------------------------------------
(* The tenant, the lists and the counts have their types; the counts are   *)
(* of users that a read listed, and there are none before it.              *)
UsersTypeOK ==
  /\ directory \in Lists /\ users \in Lists /\ signInUsers \in Lists
  /\ report \in Reports /\ registrations \in Reports
  /\ DOMAIN directory \subseteq DOMAIN signIns
  /\ today \in 0 .. MaxDay /\ changes \in 0 .. MaxChanges
  /\ unread \subseteq {"users", "registrations", "sign_ins"}
  /\ members \cup listed \subseteq DOMAIN users
  /\ inactive \cup inactiveGuests \subseteq DOMAIN signInUsers
  /\ pc \notin {"guests", "done"} => members \cup listed \cup total \cup inactive = {}

(* Nobody is counted as unregistered whom the report did not list so: a    *)
(* member created after it was refreshed is outside the population, and so *)
(* is one deleted, disabled or made a guest before the users were read     *)
(* (computeRegistrationMetrics).                                           *)
UnregisteredWereListedSo ==
  \A u \in listed \ registered :
    /\ u \in DOMAIN registrations /\ ~registrations[u]
    /\ u \in DOMAIN users /\ EnabledMember(users[u])

(* A share is never over another list than it is of: whoever came or went  *)
(* between the reads, the registered are among the listed, the listed      *)
(* among the members, and the inactive among the enabled users of the same *)
(* list (collectEntra).                                                    *)
SharesStayWithinTheirList ==
  /\ registered \subseteq listed /\ listed \subseteq members
  /\ inactive \subseteq total

(* An enabled user who is counted inactive did not sign in from the first  *)
(* day of the window to the day before the list was read, and one who is   *)
(* not did sign in on a day of the window, where the window is that of the *)
(* clock at the count, later than the read and not the same for the guests *)
(* (countInactive, signedInSince).                                         *)
SignedIn(u, from, to) == \E d \in signIns[u] : from <= d /\ d <= to

InactiveDidNotSignIn ==
  pc = "done" /\ "sign_ins" \notin unread =>
    \A u \in total :
      LET guest == signInUsers[u].type = "Guest"
          from  == countedAt - InactiveDays
          fromG == guestsAt - InactiveDays
      IN /\ u \in inactive => ~SignedIn(u, from, readAt - 1)
         /\ u \notin inactive => SignedIn(u, from, countedAt)
         /\ u \in inactiveGuests => guest /\ ~SignedIn(u, fromG, readAt - 1)
         /\ guest /\ u \notin inactiveGuests => SignedIn(u, fromG, guestsAt)

(* A user who did not change during the run is counted for what the user   *)
(* is: an enabled member among the members, and among the listed with the  *)
(* right registration, an enabled user among the users, and nobody else.   *)
(* The reads before it, and what happened to other users, do not matter    *)
(* (summarizeUsers, User.EnabledMember).                                   *)
SteadyUsersCount ==
  pc = "done" =>
    \A u \in DOMAIN directory \cap steady :
      LET member == directory[u].enabled = "true" /\ directory[u].type = "Member"
      IN /\ "users" \notin unread => (u \in members <=> member)
         /\ unread \cap {"users", "registrations"} = {} =>
              /\ u \in listed <=> member
              /\ u \in registered <=> member /\ directory[u].mfa
         /\ "sign_ins" \notin unread =>
              (u \in total <=> directory[u].enabled = "true")
=============================================================================
