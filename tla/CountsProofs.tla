---------------------------- MODULE CountsProofs ----------------------------
(***************************************************************************)
(* Proofs about the numbers of the artifacts: the users and their          *)
(* registrations, the credentials of the applications, the holders of      *)
(* privileged roles, the sign-ins of a window, the security groups open to *)
(* the world, and the inventory of the resources.                          *)
(***************************************************************************)
EXTENDS Users, Credentials, Privileged, SignInActivity, Exposure, Inventory,
        FiniteSetTheorems, NaturalsInduction, WellFoundedInduction, TLAPS

-----------------------------------------------------------------------------
(***************************************************************************)
(* What holds of the user values for every tenant, however it changes      *)
(* between the three reads and the counts.  The argument is about the      *)
(* users who do not change: a read that succeeds shows each as the tenant  *)
(* holds it, and no later change of the tenant is to one of them.          *)
(***************************************************************************)

(* Before the counts nothing is counted.                                   *)
Early == pc \in {"users", "registrations", "sign_ins", "counts"}
NothingEarly == Early => members = {} /\ listed = {} /\ registered = {}

(* What the reads made so far say of a user.                               *)
SameIn(list, u) == u \in DOMAIN list /\ list[u] = directory[u]
ReportedIn(rows, u) == u \in DOMAIN rows /\ rows[u] = directory[u].mfa

Shown(u) ==
  /\ ReportedIn(report, u)
  /\ pc # "users" /\ "users" \notin unread => SameIn(users, u)
  /\ pc \notin {"users", "registrations"} /\ "registrations" \notin unread =>
       ReportedIn(registrations, u)
  /\ pc \notin {"users", "registrations", "sign_ins"} /\ "sign_ins" \notin unread =>
       SameIn(signInUsers, u)

(* The body of SteadyUsersCount, for one user.                             *)
IsMember(u) == directory[u].enabled = "true" /\ directory[u].type = "Member"
CountedRight(u) ==
  /\ "users" \notin unread => (u \in members <=> IsMember(u))
  /\ unread \cap {"users", "registrations"} = {} =>
       /\ u \in listed <=> IsMember(u)
       /\ u \in registered <=> IsMember(u) /\ directory[u].mfa
  /\ "sign_ins" \notin unread =>
       (u \in total <=> directory[u].enabled = "true")

UsersInv ==
  /\ pc \in {"users", "registrations", "sign_ins", "counts", "guests", "done"}
  /\ NothingEarly
  /\ SharesStayWithinTheirList
  /\ UnregisteredWereListedSo
  /\ \A u \in DOMAIN directory \cap steady : Shown(u)
  /\ pc \in {"guests", "done"} =>
       \A u \in DOMAIN directory \cap steady : CountedRight(u)

(* The registrations Graph reports are those of the users it holds.        *)
LEMMA RegisteredIs ==
  ASSUME NEW d
  PROVE  /\ DOMAIN Registered(d) = DOMAIN d
         /\ \A u \in DOMAIN d : Registered(d)[u] = d[u].mfa
BY DEF Registered

-----------------------------------------------------------------------------
(* A change of the tenant touches no list and no count, and no user who is *)
(* steady after it.                                                        *)
LeavesSteadyUsers ==
  /\ UNCHANGED <<pc, listVars, countVars>>
  /\ \A u \in DOMAIN directory' \cap steady' :
       /\ u \in DOMAIN directory \cap steady
       /\ directory'[u] = directory[u]
       /\ ReportedIn(report, u) => ReportedIn(report, u)'

LEMMA ChangesLeaveSteady ==
  ASSUME NEW v, NEW facts, NEW s, Change(v, Put(v, facts), s)
  PROVE  LeavesSteadyUsers
<1>1. /\ UNCHANGED <<pc, listVars, countVars>> /\ report' = report
      /\ directory' = Put(v, facts) /\ steady' = steady \ {v}
  BY DEF Change
<1>2. ASSUME NEW u \in DOMAIN directory' \cap steady'
      PROVE  u \in DOMAIN directory \cap steady /\ directory'[u] = directory[u]
  BY <1>1 DEF Put
<1>3. QED  BY <1>1, <1>2 DEF LeavesSteadyUsers, ReportedIn

LEMMA DeletionLeavesSteady ==
  ASSUME NEW v, Delete(v)
  PROVE  LeavesSteadyUsers
<1>1. /\ UNCHANGED <<pc, listVars, countVars>> /\ report' = report
      /\ directory' = Without(directory, v) /\ steady' = steady \ {v}
  BY DEF Delete, Change
<1>2. ASSUME NEW u \in DOMAIN directory' \cap steady'
      PROVE  u \in DOMAIN directory \cap steady /\ directory'[u] = directory[u]
  BY <1>1 DEF Without
<1>3. QED  BY <1>1, <1>2 DEF LeavesSteadyUsers, ReportedIn

LEMMA TenantLeavesSteady ==
  ASSUME Tenant
  PROVE  LeavesSteadyUsers
<1>1. CASE \E u \in UserIDs : Create(u) \/ Enable(u) \/ Register(u) \/ UserSignsIn(u)
  BY <1>1, ChangesLeaveSteady DEF Create, Enable, Register, UserSignsIn
<1>2. CASE \E u \in UserIDs : Delete(u)
  BY <1>2, DeletionLeavesSteady
<1>3. CASE RefreshReport
  BY <1>3, RegisteredIs DEF RefreshReport, LeavesSteadyUsers, ReportedIn
<1>4. CASE Tick
  BY <1>4 DEF Tick, LeavesSteadyUsers, ReportedIn
<1>5. QED  BY <1>1, <1>2, <1>3, <1>4 DEF Tenant

LEMMA TenantKeepsInv ==
  ASSUME UsersInv, Tenant
  PROVE  UsersInv'
<1>1. LeavesSteadyUsers
  BY TenantLeavesSteady
<1>2. /\ pc' = pc /\ users' = users /\ registrations' = registrations
      /\ signInUsers' = signInUsers /\ unread' = unread
      /\ members' = members /\ listed' = listed /\ registered' = registered
      /\ total' = total /\ inactive' = inactive
  BY <1>1 DEF LeavesSteadyUsers, listVars, countVars
<1>3. /\ pc' \in {"users", "registrations", "sign_ins", "counts", "guests", "done"}
      /\ NothingEarly' /\ SharesStayWithinTheirList' /\ UnregisteredWereListedSo'
  BY <1>2 DEF UsersInv, NothingEarly, Early, SharesStayWithinTheirList,
              UnregisteredWereListedSo, EnabledMember, enabledAccount
<1>4. ASSUME NEW u \in DOMAIN directory' \cap steady'
      PROVE  Shown(u)' /\ (pc \in {"guests", "done"} => CountedRight(u)')
  <2>1. u \in DOMAIN directory \cap steady /\ directory'[u] = directory[u]
    BY <1>1, <1>4 DEF LeavesSteadyUsers
  <2>2. Shown(u) /\ (pc \in {"guests", "done"} => CountedRight(u))
    BY <2>1 DEF UsersInv
  <2>3. ReportedIn(report, u)'
    BY <1>1, <1>4, <2>2 DEF LeavesSteadyUsers, Shown
  <2>4. QED  BY <1>2, <2>1, <2>2, <2>3
             DEF Shown, ReportedIn, SameIn, CountedRight, IsMember
<1>5. QED  BY <1>2, <1>3, <1>4 DEF UsersInv

-----------------------------------------------------------------------------
LEMMA ReadsKeepInv ==
  ASSUME UsersInv, ReadUsers \/ ReadRegistrations \/ ReadSignInActivity
  PROVE  UsersInv'
<1>1. /\ UNCHANGED <<directory, report, steady>> /\ UNCHANGED countVars
      /\ pc \in {"users", "registrations", "sign_ins"}
      /\ pc' \in {"registrations", "sign_ins", "counts"}
  BY DEF ReadUsers, ReadRegistrations, ReadSignInActivity, tenantVars
<1>2. members = {} /\ listed = {} /\ registered = {}
  BY <1>1 DEF UsersInv, NothingEarly, Early
<1>3. NothingEarly' /\ SharesStayWithinTheirList' /\ UnregisteredWereListedSo'
  BY <1>1, <1>2 DEF UsersInv, NothingEarly, SharesStayWithinTheirList,
                    UnregisteredWereListedSo, countVars
<1>4. ASSUME NEW u \in DOMAIN directory' \cap steady'
      PROVE  Shown(u)'
  <2>1. Shown(u)
    BY <1>1, <1>4 DEF UsersInv
  <2>2. CASE ReadUsers
    BY <1>1, <1>4, <2>1, <2>2 DEF ReadUsers, Shown, ReportedIn, SameIn
  <2>3. CASE ReadRegistrations
    BY <1>1, <2>1, <2>3 DEF ReadRegistrations, Shown, ReportedIn, SameIn
  <2>4. CASE ReadSignInActivity
    BY <1>1, <1>4, <2>1, <2>4 DEF ReadSignInActivity, Shown, ReportedIn, SameIn
  <2>5. QED  BY <2>2, <2>3, <2>4
<1>5. QED  BY <1>1, <1>3, <1>4 DEF UsersInv

LEMMA CountKeepsInv ==
  ASSUME UsersInv, CountUsers
  PROVE  UsersInv'
<1>1. /\ pc = "counts" /\ pc' = "guests" /\ Early
      /\ UNCHANGED <<directory, report, steady, users, registrations, signInUsers, unread>>
      /\ members' = EnabledMemberIDs
      /\ total' = {u \in DOMAIN signInUsers : enabledAccount(signInUsers[u])}
      /\ inactive' = countInactive(total')
  BY DEF CountUsers, tenantVars, listVars, includedUsers, Early
<1>2. listed = {} /\ registered = {}
  BY <1>1 DEF UsersInv, NothingEarly
<1>3. CASE unread \cap {"users", "registrations"} = {}
  <2>1. /\ listed' = EnabledMemberIDs \cap DOMAIN registrations
        /\ registered' = {u \in listed' : registrations[u]}
    BY <1>3 DEF CountUsers, listedMembers
  <2>2. NothingEarly' /\ SharesStayWithinTheirList' /\ UnregisteredWereListedSo'
    BY <1>1, <2>1 DEF NothingEarly, Early, SharesStayWithinTheirList, countInactive,
                      UnregisteredWereListedSo, EnabledMemberIDs, EnabledMember,
                      enabledAccount
  <2>3. ASSUME NEW u \in DOMAIN directory' \cap steady'
        PROVE  Shown(u)' /\ CountedRight(u)'
    <3>1. Shown(u)
      BY <1>1, <2>3 DEF UsersInv
    <3>2. SameIn(users, u) /\ ReportedIn(registrations, u)
      BY <1>1, <1>3, <3>1 DEF Shown
    <3>3. "sign_ins" \notin unread => SameIn(signInUsers, u)
      BY <1>1, <3>1 DEF Shown
    <3>4. Shown(u)'
      BY <1>1, <3>1 DEF Shown, SameIn, ReportedIn
    <3>5. /\ u \in members' <=> IsMember(u)
          /\ u \in listed' <=> IsMember(u)
          /\ u \in registered' <=> IsMember(u) /\ directory[u].mfa
      BY <1>1, <2>1, <3>2 DEF SameIn, ReportedIn, EnabledMemberIDs, EnabledMember,
                              enabledAccount, IsMember
    <3>6. "sign_ins" \notin unread => (u \in total' <=> directory[u].enabled = "true")
      BY <1>1, <3>3 DEF SameIn, enabledAccount
    <3>7. QED  BY <1>1, <3>4, <3>5, <3>6 DEF CountedRight, IsMember
  <2>4. QED  BY <1>1, <2>2, <2>3 DEF UsersInv
<1>4. CASE unread \cap {"users", "registrations"} # {}
  <2>1. listed' = {} /\ registered' = {}
    BY <1>2, <1>4 DEF CountUsers
  <2>2. NothingEarly' /\ SharesStayWithinTheirList' /\ UnregisteredWereListedSo'
    BY <1>1, <2>1 DEF NothingEarly, Early, SharesStayWithinTheirList, countInactive,
                      UnregisteredWereListedSo
  <2>3. ASSUME NEW u \in DOMAIN directory' \cap steady'
        PROVE  Shown(u)' /\ CountedRight(u)'
    <3>1. Shown(u)
      BY <1>1, <2>3 DEF UsersInv
    <3>2. Shown(u)'
      BY <1>1, <3>1 DEF Shown, SameIn, ReportedIn
    <3>3. "users" \notin unread => (u \in members' <=> IsMember(u))
      BY <1>1, <3>1 DEF Shown, SameIn, EnabledMemberIDs, EnabledMember,
                        enabledAccount, IsMember
    <3>4. "sign_ins" \notin unread => (u \in total' <=> directory[u].enabled = "true")
      BY <1>1, <3>1 DEF Shown, SameIn, enabledAccount
    <3>5. QED  BY <1>1, <1>4, <3>2, <3>3, <3>4 DEF CountedRight, IsMember
  <2>4. QED  BY <1>1, <2>2, <2>3 DEF UsersInv
<1>5. QED  BY <1>3, <1>4

LEMMA CountGuestsKeepsInv ==
  ASSUME UsersInv, CountGuests \/ UNCHANGED usersVars
  PROVE  UsersInv'
<1>1. /\ UNCHANGED <<directory, report, steady, users, registrations, signInUsers, unread>>
      /\ UNCHANGED <<members, listed, registered, total, inactive>>
      /\ pc' = pc \/ (pc = "guests" /\ pc' = "done")
  BY DEF CountGuests, usersVars, tenantVars, listVars, countVars
<1>2. NothingEarly' /\ SharesStayWithinTheirList' /\ UnregisteredWereListedSo'
  BY <1>1 DEF UsersInv, NothingEarly, Early, SharesStayWithinTheirList,
              UnregisteredWereListedSo, EnabledMember, enabledAccount
<1>3. ASSUME NEW u \in DOMAIN directory' \cap steady'
      PROVE  Shown(u)' /\ (pc' \in {"guests", "done"} => CountedRight(u)')
  <2>1. Shown(u) /\ (pc \in {"guests", "done"} => CountedRight(u))
    BY <1>1, <1>3 DEF UsersInv
  <2>2. QED  BY <1>1, <2>1 DEF Shown, SameIn, ReportedIn, CountedRight, IsMember
<1>4. QED  BY <1>1, <1>2, <1>3 DEF UsersInv

LEMMA InitUsersInv == UsersInit => UsersInv
<1> SUFFICES ASSUME UsersInit
             PROVE  UsersInv
  OBVIOUS
<1>1. NothingEarly /\ SharesStayWithinTheirList /\ UnregisteredWereListedSo
  BY DEF UsersInit, NothingEarly, SharesStayWithinTheirList, UnregisteredWereListedSo
<1>2. ASSUME NEW u \in DOMAIN directory \cap steady
      PROVE  Shown(u)
  BY RegisteredIs DEF UsersInit, Shown, ReportedIn
<1>3. QED  BY <1>1, <1>2 DEF UsersInit, UsersInv

LEMMA NextUsersInv == UsersInv /\ [UsersNext]_usersVars => UsersInv'
BY TenantKeepsInv, ReadsKeepInv, CountKeepsInv, CountGuestsKeepsInv
   DEF UsersNext, Collector

-----------------------------------------------------------------------------
(* Every user who did not change during the run is counted for what the    *)
(* user is, whatever happened to the others, for every tenant, any number  *)
(* of changes and any read that failed.                                    *)
THEOREM SteadyUsersAreCounted == UsersSpec => []SteadyUsersCount
<1>1. UsersInv => SteadyUsersCount
  BY DEF UsersInv, SteadyUsersCount, CountedRight, IsMember
<1>2. QED  BY <1>1, InitUsersInv, NextUsersInv, PTL DEF UsersSpec

(* Nobody is counted as unregistered whom the report did not list so.      *)
THEOREM UnregisteredAreListed == UsersSpec => []UnregisteredWereListedSo
<1>1. UsersInv => UnregisteredWereListedSo
  BY DEF UsersInv
<1>2. QED  BY <1>1, InitUsersInv, NextUsersInv, PTL DEF UsersSpec

(* No share is over another list than it is of, however the tenant changed *)
(* between the reads.                                                      *)
THEOREM SharesAreOfTheirList == UsersSpec => []SharesStayWithinTheirList
<1>1. UsersInv => SharesStayWithinTheirList
  BY DEF UsersInv
<1>2. QED  BY <1>1, InitUsersInv, NextUsersInv, PTL DEF UsersSpec

-----------------------------------------------------------------------------
(***************************************************************************)
(* Who is counted inactive, for every window, length of the run and course *)
(* of the tenant.  A user's last sign-in is the latest of them, and the    *)
(* list that was read holds it as of the day it was read; what a user does *)
(* later is no earlier than that day.                                      *)
(***************************************************************************)

(* Facts that show the latest of a user's sign-ins.                        *)
ShowsLatest(facts, days) ==
  /\ facts.last # Never => facts.last \in days
  /\ \A d \in days : facts.last # Never /\ d <= facts.last

DirectoryIsUpToDate ==
  /\ today \in 0 .. MaxDay
  /\ \A u \in DOMAIN directory : directory[u] \in UserFacts
  /\ DOMAIN directory \subseteq DOMAIN signIns
  /\ \A u \in DOMAIN signIns : \A d \in signIns[u] : d \in Nat /\ d <= today
  /\ \A u \in DOMAIN directory : ShowsLatest(directory[u], signIns[u])

(* Facts as they were on the day the sign-in times were read.              *)
ShowsLatestThen(facts, days) ==
  /\ facts.last # Never => facts.last \in days /\ facts.last <= readAt
  /\ \A d \in days : d < readAt => facts.last # Never /\ d <= facts.last

ActivityRead == pc \in {"counts", "guests", "done"} /\ "sign_ins" \notin unread
ListIsOfItsDay ==
  ActivityRead =>
    /\ readAt \in Nat /\ readAt <= today
    /\ DOMAIN signInUsers \subseteq DOMAIN signIns
    /\ \A u \in DOMAIN signInUsers : ShowsLatestThen(signInUsers[u], signIns[u])

(* A user counted inactive on a day.                                       *)
InactiveOn(u, asOf) ==
  /\ u \in DOMAIN signInUsers /\ enabledAccount(signInUsers[u])
  /\ ~signedInSince(signInUsers[u].last, asOf - InactiveDays)

CountsAreOfTheirDay ==
  /\ ActivityRead /\ pc \in {"guests", "done"} =>
       /\ countedAt \in Nat /\ readAt <= countedAt /\ countedAt <= today
       /\ \A u \in total : u \in DOMAIN signInUsers /\ enabledAccount(signInUsers[u])
       /\ \A u : u \in inactive <=> InactiveOn(u, countedAt)
  /\ ActivityRead /\ pc = "done" =>
       /\ guestsAt \in Nat /\ readAt <= guestsAt
       /\ \A u : u \in inactiveGuests <=>
                   InactiveOn(u, guestsAt) /\ signInUsers[u].type = "Guest"

ActivityInv == DirectoryIsUpToDate /\ ListIsOfItsDay /\ CountsAreOfTheirDay

(* A user's sign-ins are only added to, and only on the day it is.         *)
SignInsGrow ==
  \A v \in DOMAIN signIns :
    /\ v \in DOMAIN signIns'
    /\ signIns[v] \subseteq signIns'[v]
    /\ \A d \in signIns'[v] : d \in signIns[v] \/ d = today

(* A change of one user that puts in facts which show the latest sign-in.  *)
LEMMA PutKeeps ==
  ASSUME DirectoryIsUpToDate, NEW u, NEW facts \in UserFacts, NEW s,
         Change(u, Put(u, facts), s),
         DOMAIN s = DOMAIN signIns \cup {u},
         \A v \in DOMAIN signIns : v # u => s[v] = signIns[v],
         u \in DOMAIN signIns => signIns[u] \subseteq s[u],
         \A d \in s[u] : d = today \/ (u \in DOMAIN signIns /\ d \in signIns[u]),
         ShowsLatest(facts, s[u])
  PROVE  DirectoryIsUpToDate' /\ SignInsGrow
<1>1. /\ directory' = Put(u, facts) /\ signIns' = s /\ today' = today
  BY DEF Change
<1>2. /\ DOMAIN directory' = DOMAIN directory \cup {u}
      /\ directory'[u] = facts
      /\ \A v \in DOMAIN directory : v # u => directory'[v] = directory[v]
  BY <1>1 DEF Put
<1>3. /\ today' \in 0 .. MaxDay /\ DOMAIN directory' \subseteq DOMAIN signIns'
      /\ \A v \in DOMAIN directory' : directory'[v] \in UserFacts
  BY <1>1, <1>2, Zenon DEF DirectoryIsUpToDate
<1>4. today \in Nat /\ today <= today
  BY UsersBoundsAssumption DEF DirectoryIsUpToDate
<1>5. \A v \in DOMAIN signIns' : \A d \in signIns'[v] : d \in Nat /\ d <= today'
  BY <1>1, <1>4, Zenon DEF DirectoryIsUpToDate
<1>6. \A v \in DOMAIN directory' : ShowsLatest(directory'[v], signIns'[v])
  BY <1>1, <1>2, Zenon DEF DirectoryIsUpToDate
<1>7. SignInsGrow
  BY <1>1, Zenon DEF SignInsGrow
<1> QED
  BY <1>3, <1>5, <1>6, <1>7, Zenon DEF DirectoryIsUpToDate, ShowsLatest

(* Every change of the tenant keeps the directory up to date.              *)
LEMMA TenantIsUpToDate ==
  ASSUME DirectoryIsUpToDate, Tenant
  PROVE  DirectoryIsUpToDate' /\ SignInsGrow
<1>1. ASSUME NEW u \in UserIDs, Create(u)
      PROVE  DirectoryIsUpToDate' /\ SignInsGrow
  <2> DEFINE s == Days(u, {})
  <2>1. u \notin DOMAIN signIns
    BY <1>1 DEF Create
  <2>2. PICK type \in {"Member", "Guest"} :
          Change(u, Put(u, [enabled |-> "true", type |-> type, mfa |-> FALSE,
                            last |-> Never]), Days(u, {}))
    BY <1>1 DEF Create
  <2> DEFINE facts == [enabled |-> "true", type |-> type, mfa |-> FALSE, last |-> Never]
  <2>3. facts \in UserFacts
    BY UsersBoundsAssumption DEF UserFacts, Never
  <2>4. /\ DOMAIN s = DOMAIN signIns \cup {u} /\ s[u] = {}
        /\ \A v \in DOMAIN signIns : v # u => s[v] = signIns[v]
    BY DEF Days
  <2>5. ShowsLatest(facts, s[u])
    BY <2>4 DEF ShowsLatest
  <2> QED
    BY <2>1, <2>2, <2>3, <2>4, <2>5, PutKeeps
<1>2. ASSUME NEW u \in UserIDs, Enable(u) \/ Register(u)
      PROVE  DirectoryIsUpToDate' /\ SignInsGrow
  <2>1. \/ \E e \in {"true", "false"} :
             Change(u, Put(u, [directory[u] EXCEPT !.enabled = e]), signIns)
        \/ Change(u, Put(u, [directory[u] EXCEPT !.mfa = TRUE]), signIns)
    BY <1>2 DEF Enable, Register
  <2>2. u \in DOMAIN directory /\ u \in DOMAIN signIns
    BY <1>2 DEF Enable, Register, DirectoryIsUpToDate
  <2>3. ASSUME NEW facts \in UserFacts, facts.last = directory[u].last,
               Change(u, Put(u, facts), signIns)
        PROVE  DirectoryIsUpToDate' /\ SignInsGrow
    <3>1. ShowsLatest(facts, signIns[u])
      BY <2>2, <2>3 DEF DirectoryIsUpToDate, ShowsLatest
    <3>2. DOMAIN signIns = DOMAIN signIns \cup {u}
      BY <2>2
    <3> QED
      BY <2>2, <2>3, <3>1, <3>2, PutKeeps
  <2>4. directory[u] \in UserFacts
    BY <2>2 DEF DirectoryIsUpToDate
  <2>5. ASSUME NEW e \in {"true", "false"}
        PROVE  /\ [directory[u] EXCEPT !.enabled = e] \in UserFacts
               /\ [directory[u] EXCEPT !.enabled = e].last = directory[u].last
    BY <2>4 DEF UserFacts
  <2>6. /\ [directory[u] EXCEPT !.mfa = TRUE] \in UserFacts
        /\ [directory[u] EXCEPT !.mfa = TRUE].last = directory[u].last
    BY <2>4 DEF UserFacts
  <2> QED
    BY <2>1, <2>3, <2>5, <2>6
<1>3. ASSUME NEW u \in UserIDs, UserSignsIn(u)
      PROVE  DirectoryIsUpToDate' /\ SignInsGrow
  <2> DEFINE facts == [directory[u] EXCEPT !.last = today]
             s == Days(u, signIns[u] \cup {today})
  <2>1. /\ Change(u, Put(u, facts), s)
        /\ u \in DOMAIN directory /\ u \in DOMAIN signIns
    BY <1>3 DEF UserSignsIn, DirectoryIsUpToDate
  <2>2. facts \in UserFacts /\ facts.last = today
    BY <2>1, UsersBoundsAssumption DEF UserFacts, Never, DirectoryIsUpToDate
  <2>3. /\ DOMAIN s = DOMAIN signIns \cup {u} /\ s[u] = signIns[u] \cup {today}
        /\ \A v \in DOMAIN signIns : v # u => s[v] = signIns[v]
    BY DEF Days
  <2>4. today # Never /\ \A d \in s[u] : d <= today
    BY <2>1, <2>3 DEF DirectoryIsUpToDate, Never
  <2>5. ShowsLatest(facts, s[u])
    BY <2>2, <2>3, <2>4 DEF ShowsLatest
  <2>6. \A d \in s[u] : d = today \/ (u \in DOMAIN signIns /\ d \in signIns[u])
    BY <2>1, <2>3
  <2> QED
    BY <2>1, <2>2, <2>3, <2>5, <2>6, PutKeeps
<1>4. ASSUME NEW u \in UserIDs, Delete(u)
      PROVE  DirectoryIsUpToDate' /\ SignInsGrow
  <2>1. /\ directory' = Without(directory, u) /\ signIns' = signIns /\ today' = today
    BY <1>4 DEF Delete, Change
  <2>2. /\ DOMAIN directory' \subseteq DOMAIN directory
        /\ \A v \in DOMAIN directory' : directory'[v] = directory[v]
    BY <2>1 DEF Without
  <2> QED
    BY <2>1, <2>2 DEF DirectoryIsUpToDate, SignInsGrow, ShowsLatest
<1>5. ASSUME RefreshReport \/ Tick
      PROVE  DirectoryIsUpToDate' /\ SignInsGrow
  <2>1. /\ directory' = directory /\ signIns' = signIns
        /\ today' \in 0 .. MaxDay /\ today' >= today
    BY <1>5, UsersBoundsAssumption DEF RefreshReport, Tick, DirectoryIsUpToDate
  <2> QED
    BY <2>1, UsersBoundsAssumption DEF DirectoryIsUpToDate, SignInsGrow, ShowsLatest
<1> QED
  BY <1>1, <1>2, <1>3, <1>4, <1>5 DEF Tenant

(* What is done to the tenant takes nothing from the list that was read,   *)
(* nor from the counts.                                                    *)
LEMMA TenantKeepsActivity ==
  ASSUME ActivityInv, Tenant
  PROVE  ActivityInv'
<1>1. DirectoryIsUpToDate' /\ SignInsGrow
  BY TenantIsUpToDate DEF ActivityInv
<1>2. UNCHANGED <<pc, listVars, countVars>>
  BY TenantLeavesSteady DEF LeavesSteadyUsers
<1>3. /\ pc' = pc /\ unread' = unread /\ readAt' = readAt /\ signInUsers' = signInUsers
      /\ countedAt' = countedAt /\ guestsAt' = guestsAt
      /\ total' = total /\ inactive' = inactive /\ inactiveGuests' = inactiveGuests
  BY <1>2 DEF listVars, countVars
<1>4. today \in Nat /\ today' \in Nat /\ today <= today'
  <2>1. today \in 0 .. MaxDay /\ today' \in 0 .. MaxDay
    BY <1>1 DEF ActivityInv, DirectoryIsUpToDate
  <2>2. today' = today \/ today' = today + 1
    BY DEF Tenant, Create, Delete, Enable, Register, UserSignsIn, Change, RefreshReport, Tick
  <2> QED
    BY <2>1, <2>2, UsersBoundsAssumption
<1>5. ListIsOfItsDay'
  <2> SUFFICES ASSUME ActivityRead
               PROVE  /\ readAt \in Nat /\ readAt <= today'
                      /\ \A u \in DOMAIN signInUsers :
                           u \in DOMAIN signIns' /\ ShowsLatestThen(signInUsers[u], signIns'[u])
    BY <1>3 DEF ListIsOfItsDay, ActivityRead, ShowsLatestThen
  <2>1. readAt \in Nat /\ readAt <= today
    BY DEF ActivityInv, ListIsOfItsDay
  <2>2. ASSUME NEW u \in DOMAIN signInUsers
        PROVE  u \in DOMAIN signIns' /\ ShowsLatestThen(signInUsers[u], signIns'[u])
    <3>1. u \in DOMAIN signIns /\ ShowsLatestThen(signInUsers[u], signIns[u])
      BY <2>2 DEF ActivityInv, ListIsOfItsDay
    <3>2. /\ u \in DOMAIN signIns' /\ signIns[u] \subseteq signIns'[u]
          /\ \A d \in signIns'[u] : d \in signIns[u] \/ d = today
      BY <1>1, <3>1 DEF SignInsGrow
    <3>3. ~(today < readAt)
      BY <1>4, <2>1
    <3> QED
      BY <3>1, <3>2, <3>3 DEF ShowsLatestThen
  <2> QED
    BY <1>4, <2>1, <2>2
<1>6. CountsAreOfTheirDay'
  <2>1. /\ ActivityRead' = ActivityRead
        /\ \A u, asOf : InactiveOn(u, asOf)' = InactiveOn(u, asOf)
    BY <1>3 DEF ActivityRead, InactiveOn
  <2> QED
    BY <1>3, <1>4, <2>1 DEF ActivityInv, CountsAreOfTheirDay
<1> QED
  BY <1>1, <1>5, <1>6 DEF ActivityInv

LEMMA CollectorKeepsDirectory ==
  ASSUME DirectoryIsUpToDate, UNCHANGED tenantVars
  PROVE  DirectoryIsUpToDate'
BY DEF DirectoryIsUpToDate, ShowsLatest, tenantVars

LEMMA ReadsKeepActivity ==
  ASSUME ActivityInv, ReadUsers \/ ReadRegistrations \/ ReadSignInActivity
  PROVE  ActivityInv'
<1>1. /\ UNCHANGED tenantVars
      /\ pc' \notin {"guests", "done"}
  BY DEF ReadUsers, ReadRegistrations, ReadSignInActivity
<1>2. DirectoryIsUpToDate'
  BY <1>1, CollectorKeepsDirectory DEF ActivityInv
<1>3. CountsAreOfTheirDay'
  BY <1>1 DEF CountsAreOfTheirDay
<1>4. ListIsOfItsDay'
  <2>1. CASE pc' # "counts"
    BY <1>1, <2>1 DEF ListIsOfItsDay, ActivityRead
  <2>2. CASE pc' = "counts" /\ "sign_ins" \notin unread'
    <3>1. signInUsers' = directory /\ readAt' = today /\ signIns' = signIns /\ today' = today
      BY <2>2 DEF ReadUsers, ReadRegistrations, ReadSignInActivity, tenantVars
    <3>2. today \in Nat /\ DOMAIN directory \subseteq DOMAIN signIns
      BY UsersBoundsAssumption DEF ActivityInv, DirectoryIsUpToDate
    <3>3. ASSUME NEW u \in DOMAIN directory
          PROVE  ShowsLatestThen(directory[u], signIns[u])'
      <4>1. /\ ShowsLatest(directory[u], signIns[u])
            /\ \A d \in signIns[u] : d \in Nat /\ d <= today
        BY <3>2, <3>3 DEF ActivityInv, DirectoryIsUpToDate
      <4>2. directory'[u] = directory[u] /\ signIns'[u] = signIns[u]
        BY <1>1 DEF tenantVars
      <4> QED
        BY <3>1, <4>1, <4>2 DEF ShowsLatest, ShowsLatestThen
    <3>4. directory' = directory
      BY <1>1 DEF tenantVars
    <3> QED
      BY <3>1, <3>2, <3>3, <3>4 DEF ListIsOfItsDay
  <2>3. CASE "sign_ins" \in unread'
    BY <2>3 DEF ListIsOfItsDay, ActivityRead
  <2> QED
    BY <2>1, <2>2, <2>3
<1> QED
  BY <1>2, <1>3, <1>4 DEF ActivityInv

LEMMA CountsKeepActivity ==
  ASSUME ActivityInv, CountUsers \/ CountGuests
  PROVE  ActivityInv'
<1>1. /\ UNCHANGED tenantVars /\ UNCHANGED listVars
      /\ pc' = IF pc = "counts" THEN "guests" ELSE "done"
      /\ pc \in {"counts", "guests"}
  BY DEF CountUsers, CountGuests
<1>2. /\ today' = today /\ signIns' = signIns /\ signInUsers' = signInUsers
      /\ unread' = unread /\ readAt' = readAt /\ ActivityRead' = ActivityRead
      /\ \A u, asOf : InactiveOn(u, asOf)' = InactiveOn(u, asOf)
  BY <1>1 DEF tenantVars, listVars, ActivityRead, InactiveOn
<1>3. DirectoryIsUpToDate'
  BY <1>1, CollectorKeepsDirectory DEF ActivityInv
<1>4. ListIsOfItsDay'
  BY <1>2 DEF ActivityInv, ListIsOfItsDay, ShowsLatestThen
<1>5. ASSUME ActivityRead
      PROVE  today \in Nat /\ readAt \in Nat /\ readAt <= today
  BY <1>5, UsersBoundsAssumption DEF ActivityInv, DirectoryIsUpToDate, ListIsOfItsDay
<1>6. CASE CountUsers
  <2>1. /\ countedAt' = today
        /\ total' = {u \in DOMAIN signInUsers : enabledAccount(signInUsers[u])}
        /\ inactive' = {u \in DOMAIN signInUsers : InactiveOn(u, today)}
    BY <1>6 DEF CountUsers, includedUsers, countInactive, inactiveCutoff, InactiveOn
  <2>2. \A u : u \in inactive' <=> InactiveOn(u, today)
    BY <2>1 DEF InactiveOn
  <2>3. pc' = "guests"
    BY <1>6 DEF CountUsers
  <2>4. CountsAreOfTheirDay'
    BY <1>2, <1>5, <2>1, <2>2, <2>3 DEF CountsAreOfTheirDay
  <2> QED
    BY <1>3, <1>4, <2>4 DEF ActivityInv
<1>7. CASE CountGuests
  <2>1. /\ guestsAt' = today /\ pc = "guests"
        /\ inactiveGuests' = {u \in DOMAIN signInUsers :
              InactiveOn(u, today) /\ signInUsers[u].type = "Guest"}
        /\ countedAt' = countedAt /\ total' = total /\ inactive' = inactive
    BY <1>7 DEF CountGuests, countInactive, inactiveCutoff, InactiveOn
  <2>2. \A u : u \in inactiveGuests' <=> InactiveOn(u, today) /\ signInUsers[u].type = "Guest"
    BY <2>1 DEF InactiveOn
  <2>3. CountsAreOfTheirDay'
    BY <1>2, <1>5, <2>1, <2>2 DEF ActivityInv, CountsAreOfTheirDay
  <2> QED
    BY <1>3, <1>4, <2>3 DEF ActivityInv
<1> QED
  BY <1>6, <1>7

LEMMA InitActivityInv == UsersInit => ActivityInv
<1> SUFFICES ASSUME UsersInit PROVE ActivityInv
  OBVIOUS
<1>1. /\ today = 0 /\ pc = "users" /\ directory \in Directories
      /\ signIns = [u \in DOMAIN directory |-> {directory[u].last} \ {Never}]
  BY DEF UsersInit
<1>2. \A u \in DOMAIN directory : directory[u] \in UserFacts /\ directory[u].last \in {Never, 0}
  BY <1>1, DirectoriesAssumption DEF Lists
<1>3. DirectoryIsUpToDate
  BY <1>1, <1>2, UsersBoundsAssumption DEF DirectoryIsUpToDate, ShowsLatest, Never
<1> QED
  BY <1>1, <1>3 DEF ActivityInv, ListIsOfItsDay, CountsAreOfTheirDay, ActivityRead

LEMMA NextActivityInv == ActivityInv /\ [UsersNext]_usersVars => ActivityInv'
<1>1. ASSUME ActivityInv, UNCHANGED usersVars PROVE ActivityInv'
  <2>1. /\ pc' = pc /\ unread' = unread /\ readAt' = readAt /\ signInUsers' = signInUsers
        /\ countedAt' = countedAt /\ guestsAt' = guestsAt /\ today' = today
        /\ total' = total /\ inactive' = inactive /\ inactiveGuests' = inactiveGuests
        /\ UNCHANGED tenantVars /\ signIns' = signIns
    BY <1>1 DEF usersVars, listVars, countVars, tenantVars
  <2>2. /\ ActivityRead' = ActivityRead
        /\ \A u, asOf : InactiveOn(u, asOf)' = InactiveOn(u, asOf)
    BY <2>1 DEF ActivityRead, InactiveOn
  <2>3. DirectoryIsUpToDate'
    BY <1>1, <2>1, CollectorKeepsDirectory DEF ActivityInv
  <2> QED
    BY <1>1, <2>1, <2>2, <2>3
       DEF ActivityInv, ListIsOfItsDay, CountsAreOfTheirDay, ShowsLatestThen
<1> QED
  BY <1>1, TenantKeepsActivity, ReadsKeepActivity, CountsKeepActivity DEF UsersNext, Collector

(* An enabled user who is counted inactive did not sign in from the first  *)
(* day of the window to the day before the list was read, and one who is   *)
(* not did sign in on a day of the window, also for the guests, who are    *)
(* counted by another reading of the clock (countInactive, signedInSince). *)
THEOREM InactiveReallyAre == UsersSpec => []InactiveDidNotSignIn
<1>1. ActivityInv => InactiveDidNotSignIn
  <2> SUFFICES ASSUME ActivityInv, pc = "done", "sign_ins" \notin unread, NEW u \in total,
                      NEW asOf \in Nat, readAt <= asOf
               PROVE  /\ InactiveOn(u, asOf) => ~SignedIn(u, asOf - InactiveDays, readAt - 1)
                      /\ ~InactiveOn(u, asOf) => SignedIn(u, asOf - InactiveDays, asOf)
    BY DEF InactiveDidNotSignIn, ActivityInv, CountsAreOfTheirDay, ActivityRead
  <2>1. /\ readAt \in Nat
        /\ u \in DOMAIN signInUsers /\ enabledAccount(signInUsers[u])
        /\ u \in DOMAIN signIns /\ ShowsLatestThen(signInUsers[u], signIns[u])
        /\ \A d \in signIns[u] : d \in Nat
    BY DEF ActivityInv, ListIsOfItsDay, CountsAreOfTheirDay, ActivityRead, DirectoryIsUpToDate
  <2> DEFINE last == signInUsers[u].last
             from == asOf - InactiveDays
  <2>2. InactiveOn(u, asOf) <=> ~(last # Never /\ last >= from)
    BY <2>1 DEF InactiveOn, signedInSince
  <2>3. /\ last # Never => last \in signIns[u] /\ last <= readAt
        /\ \A d \in signIns[u] : d < readAt => last # Never /\ d <= last
    BY <2>1 DEF ShowsLatestThen
  <2>4. ASSUME InactiveOn(u, asOf) PROVE ~SignedIn(u, from, readAt - 1)
    <3> SUFFICES ASSUME NEW d \in signIns[u], from <= d, d <= readAt - 1 PROVE FALSE
      BY DEF SignedIn
    <3>1. d \in Nat /\ last # Never /\ d <= last /\ last \in Nat
      BY <2>1, <2>3
    <3> QED
      BY <2>2, <2>4, <3>1, UsersBoundsAssumption
  <2>5. ASSUME ~InactiveOn(u, asOf) PROVE SignedIn(u, from, asOf)
    <3>1. last \in signIns[u] /\ last \in Nat /\ from <= last /\ last <= readAt
      BY <2>1, <2>2, <2>3, <2>5, UsersBoundsAssumption
    <3>2. last <= asOf
      BY <2>1, <3>1
    <3> QED
      BY <3>1, <3>2 DEF SignedIn
  <2> QED
    BY <2>4, <2>5
<1> QED
  BY <1>1, InitActivityInv, NextActivityInv, PTL DEF UsersSpec

-----------------------------------------------------------------------------
(***************************************************************************)
(* What the credential counts of a run say of the runs after it, for every *)
(* catalogue, window and course of the tenant.  The invariant that carries *)
(* the proof is that an artifact was weighed on its own day (WeighedRight) *)
(* from lists that hold what the tenant had all along (ListsHoldSteady).   *)
(***************************************************************************)

WeighedRight(r) ==
  /\ r.expired = {c \in r.read : expired(c, r.at)}
  /\ r.active = {c \in r.read : ~expired(c, r.at)}
  /\ r.expiring = {c \in r.active : expiring(c, r.at)}
  /\ r.over = {c \in r.active : over365d(c)}
  /\ r.steady \subseteq r.read /\ r.read \subseteq r.met

ListsHoldSteady ==
  /\ appsStep \in {"applications", "count"} =>
       /\ {c \in unchanged : c.owner = "servicePrincipal"} \subseteq servicePrincipals
       /\ servicePrincipals \subseteq met /\ tenant \subseteq met
  /\ appsStep = "count" =>
       /\ {c \in unchanged : c.owner = "application"} \subseteq applications
       /\ applications \subseteq met

CredentialsInv ==
  /\ CredentialsTypeOK
  /\ ListsHoldSteady
  /\ \A r \in reports : WeighedRight(r)

(* The dates of a credential of the catalogue are days or missing.         *)
LEMMA DatesOfCatalog ==
  ASSUME NEW c \in Catalog
  PROVE  /\ endOf(c) = NoDate \/ endOf(c) \in Int
         /\ startOf(c) = NoDate \/ startOf(c) \in Int
         /\ c.owner \in Owners
  BY CatalogAssumption, DatesAssumption DEF endOf, startOf, parseGraphTime

LEMMA Starts == CredentialsInit => CredentialsInv
  BY CredentialsBoundsAssumption DEF CredentialsInit, CredentialsInv, CredentialsTypeOK, ListsHoldSteady

LEMMA TypeStep ==
  ASSUME CredentialsTypeOK, [CredentialsNext]_credentialsVars
  PROVE  CredentialsTypeOK'
<1> USE CredentialsTypeOK, CredentialsBoundsAssumption DEF CredentialsTypeOK, appTenantVars, appRunVars
<1>1. CASE UNCHANGED credentialsVars
  BY <1>1 DEF credentialsVars
<1>2. ASSUME NEW c \in Catalog, Issue(c) PROVE CredentialsTypeOK'
  BY <1>2 DEF Issue
<1>3. ASSUME NEW c \in Catalog, Withdraw(c) PROVE CredentialsTypeOK'
  BY <1>3 DEF Withdraw
<1>4. CASE NextDay
  BY <1>4 DEF NextDay
<1>5. CASE ReadServicePrincipals
  BY <1>5 DEF ReadServicePrincipals, ownedBy
<1>6. CASE FailServicePrincipals
  BY <1>6 DEF FailServicePrincipals, NextRun
<1>7. CASE ReadApplications
  BY <1>7 DEF ReadApplications, ownedBy
<1>8. CASE FailApplications
  BY <1>8 DEF FailApplications, NextRun
<1>9. CASE populateCredentialMetrics
  BY <1>9 DEF populateCredentialMetrics, NextRun, Weighed, credentialWindows
<1> QED
  BY <1>1, <1>2, <1>3, <1>4, <1>5, <1>6, <1>7, <1>8, <1>9 DEF CredentialsNext

LEMMA ListsStep ==
  ASSUME CredentialsTypeOK, ListsHoldSteady, [CredentialsNext]_credentialsVars
  PROVE  ListsHoldSteady'
<1> USE CredentialsTypeOK, ListsHoldSteady
    DEF CredentialsTypeOK, ListsHoldSteady, appTenantVars, appRunVars
<1>1. CASE UNCHANGED credentialsVars
  BY <1>1 DEF credentialsVars
<1>2. ASSUME NEW c \in Catalog, Issue(c) PROVE ListsHoldSteady'
  BY <1>2 DEF Issue
<1>3. ASSUME NEW c \in Catalog, Withdraw(c) PROVE ListsHoldSteady'
  BY <1>3 DEF Withdraw
<1>4. CASE NextDay
  BY <1>4 DEF NextDay
<1>5. CASE ReadServicePrincipals
  BY <1>5 DEF ReadServicePrincipals, ownedBy
<1>6. CASE FailServicePrincipals
  BY <1>6 DEF FailServicePrincipals, NextRun
<1>7. CASE ReadApplications
  BY <1>7 DEF ReadApplications, ownedBy
<1>8. CASE FailApplications
  BY <1>8 DEF FailApplications, NextRun
<1>9. CASE populateCredentialMetrics
  BY <1>9 DEF populateCredentialMetrics, NextRun
<1> QED
  BY <1>1, <1>2, <1>3, <1>4, <1>5, <1>6, <1>7, <1>8, <1>9 DEF CredentialsNext

(* The one action that writes an artifact weighs it right; what is written *)
(* is never changed.                                                       *)
LEMMA ReportsStep ==
  ASSUME CredentialsInv, [CredentialsNext]_credentialsVars
  PROVE  \A r \in reports' : WeighedRight(r)
<1>1. CASE populateCredentialMetrics
  <2> DEFINE windows == credentialWindows(applications, servicePrincipals)
             new == Weighed(windows, day)
  <2>1. reports' = reports \cup {new}
    BY <1>1 DEF populateCredentialMetrics
  <2>2. unchanged \subseteq windows
    <3> SUFFICES ASSUME NEW c \in unchanged PROVE c \in windows
      OBVIOUS
    <3>1. c \in Catalog
      BY DEF CredentialsInv, CredentialsTypeOK
    <3>2. c.owner \in {"servicePrincipal", "application"}
      BY <3>1, DatesOfCatalog DEF Owners
    <3> QED
      BY <1>1, <3>2 DEF populateCredentialMetrics, CredentialsInv, ListsHoldSteady, credentialWindows
  <2>3. windows \subseteq met
    BY <1>1 DEF populateCredentialMetrics, CredentialsInv, ListsHoldSteady, credentialWindows
  <2>4. WeighedRight(new)
    BY <2>2, <2>3 DEF Weighed, WeighedRight
  <2> QED
    BY <2>1, <2>4 DEF CredentialsInv
<1>2. CASE ~populateCredentialMetrics
  <2>1. reports' = reports
    BY <1>2 DEF CredentialsNext, credentialsVars, appRunVars, Issue, Withdraw, NextDay, ReadServicePrincipals,
                FailServicePrincipals, ReadApplications, FailApplications
  <2> QED
    BY <2>1 DEF CredentialsInv
<1> QED
  BY <1>1, <1>2

LEMMA NextCredentialsInv == CredentialsInv /\ [CredentialsNext]_credentialsVars => CredentialsInv'
  BY TypeStep, ListsStep, ReportsStep DEF CredentialsInv

LEMMA AlwaysCredentialsInv == CredentialsSpec => []CredentialsInv
  BY Starts, NextCredentialsInv, PTL DEF CredentialsSpec

-----------------------------------------------------------------------------
(* Every state of the runs and the tenant is well-formed.                  *)
THEOREM CredentialsTyped == CredentialsSpec => []CredentialsTypeOK
<1>1. CredentialsInv => CredentialsTypeOK
  BY DEF CredentialsInv
<1> QED
  BY <1>1, AlwaysCredentialsInv, PTL

(* No credential the tenant had throughout a run escapes the counts, and   *)
(* none is in them twice, whatever was issued and withdrawn meanwhile      *)
(* (entra_apps.go, credentialWindows).                                     *)
THEOREM AllAreWeighed == CredentialsSpec => []EveryCredentialIsWeighed
<1>1. CredentialsInv => EveryCredentialIsWeighed
  <2> SUFFICES ASSUME CredentialsInv, NEW r \in reports
               PROVE  /\ r.steady \subseteq r.expired \cup r.active
                      /\ r.expired \cap r.active = {}
                      /\ r.expired \cup r.active \subseteq r.met
    BY DEF EveryCredentialIsWeighed
  <2>1. WeighedRight(r)
    BY DEF CredentialsInv
  <2> QED
    BY <2>1 DEF WeighedRight
<1> QED
  BY <1>1, AlwaysCredentialsInv, PTL

(* An expiry is announced by every run within the window before it, and    *)
(* what one run counts as expired or long-lived the next ones do too       *)
(* (entra_apps.go, populateCredentialMetrics).                             *)
THEOREM ExpiriesAreForeseen == CredentialsSpec => []ExpiryIsForeseen
<1>1. CredentialsInv => ExpiryIsForeseen
  <2> SUFFICES ASSUME CredentialsInv, NEW r1 \in reports, NEW r2 \in reports, r1.at <= r2.at,
                      NEW c \in r1.read \cap r2.read
               PROVE  /\ r2.at <= r1.at + ExpiryWindow /\ c \in r2.expired =>
                           c \in r1.expired \cup r1.expiring
                      /\ c \in r1.expired => c \in r2.expired
                      /\ c \in r1.over => c \in r2.over \cup r2.expired
                      /\ r2.at >= r1.at + ExpiryWindow /\ c \in r1.expiring => c \in r2.expired
    BY DEF ExpiryIsForeseen
  <2>1. r1.at \in Int /\ r2.at \in Int /\ c \in Catalog
    BY DEF CredentialsInv, CredentialsTypeOK
  <2>2. endOf(c) = NoDate \/ endOf(c) \in Int
    BY <2>1, DatesOfCatalog
  <2>3. WeighedRight(r1) /\ WeighedRight(r2)
    BY DEF CredentialsInv
  <2> QED
    BY <2>1, <2>2, <2>3, CredentialsBoundsAssumption DEF WeighedRight, expired, expiring
<1> QED
  BY <1>1, AlwaysCredentialsInv, PTL

-----------------------------------------------------------------------------
(***************************************************************************)
(* What the privileged access block says holds for every tenant, every     *)
(* order of its role assignments and every membership of its groups.       *)
(***************************************************************************)

Direct(roles) ==
  {u \in RoleUsers :
     ~holderFacts[u].disabled /\ \E a \in Seen : a.role \in roles /\ a.principal = u}
ToGroup(roles) == \E a \in Seen : a.role \in roles /\ a.principal \in RoleGroups

(* What the loop has found is what the assignments seen so far say.        *)
Loop ==
  /\ assigned \in Seq(Assignments)
  /\ privileged = Direct(PrivilegedRoles)
  /\ superAdmins = Direct({"global_admin"})
  /\ groupHeld \in BOOLEAN /\ groupHeldGlobalAdmin \in BOOLEAN
  /\ groupHeld <=> ToGroup(PrivilegedRoles)
  /\ groupHeldGlobalAdmin <=> ToGroup({"global_admin"})

MemberOutcome(f) ==
  settled(firstMissing(missing(readOf[f], failedReads), membersUnread), MemberValue(f))
AdminOutcome(f) ==
  settled(firstMissing(missing(readOf[f], failedReads), globalAdminsUnread), AdminValue(f))

(* How the values over holders were settled from what the loop has found.  *)
Outcome ==
  /\ step \in {"assignments", "schedules", "done"}
  /\ pa = [f \in Fields |-> pa[f]]
  /\ step = "assignments" => pa = [f \in Fields |-> Pending] /\ failedReads = {}
  /\ step # "assignments" =>
       \/ /\ step = "done" /\ "lists" \in failedReads
          /\ pa = [f \in Fields |-> HolderLeftOut("read_failed")]
       \/ /\ "lists" \notin failedReads
          /\ \A f \in MemberFields : pa[f] = MemberOutcome(f)
          /\ \A f \in AdminFields : pa[f] = AdminOutcome(f)

PrivilegedInv == Loop /\ Outcome

LEMMA SeenNext ==
  ASSUME assigned \in Seq(Assignments), NEW a \in Assignments,
         assigned' = Append(assigned, a)
  PROVE  /\ assigned' \in Seq(Assignments)
         /\ Seen' = Seen \cup {a}
<1>1. Len(assigned') = Len(assigned) + 1 /\ assigned' \in Seq(Assignments)
  OBVIOUS
<1>2. \A i \in 1 .. Len(assigned) : assigned'[i] = assigned[i]
  OBVIOUS
<1>3. assigned'[Len(assigned) + 1] = a
  OBVIOUS
<1>4. 1 .. Len(assigned) + 1 = (1 .. Len(assigned)) \cup {Len(assigned) + 1}
  OBVIOUS
<1> QED BY <1>1, <1>2, <1>3, <1>4 DEF Seen

(* One more assignment and the holders it makes.                           *)
LEMMA DirectNext ==
  ASSUME assigned \in Seq(Assignments), NEW a \in Assignments,
         assigned' = Append(assigned, a), UNCHANGED holderFacts, NEW roles
  PROVE  /\ Direct(roles)' = Direct(roles) \cup
              {u \in RoleUsers : ~holderFacts[u].disabled /\ a.role \in roles /\ a.principal = u}
         /\ ToGroup(roles)' <=> ToGroup(roles) \/ (a.role \in roles /\ a.principal \in RoleGroups)
<1>1. Seen' = Seen \cup {a}
  BY SeenNext
<1> QED BY <1>1 DEF Direct, ToGroup

LEMMA InitPrivilegedInv == PrivilegedInit => PrivilegedInv
<1> SUFFICES ASSUME PrivilegedInit PROVE PrivilegedInv
  OBVIOUS
<1>1. Seen = {}
  BY DEF PrivilegedInit, Seen
<1>2. Loop
  <2>1. assigned \in Seq(Assignments)
    BY DEF PrivilegedInit
  <2>2. Direct(PrivilegedRoles) = {} /\ Direct({"global_admin"}) = {}
    BY <1>1 DEF Direct
  <2>3. ~ToGroup(PrivilegedRoles) /\ ~ToGroup({"global_admin"})
    BY <1>1 DEF ToGroup
  <2> QED BY <2>1, <2>2, <2>3 DEF PrivilegedInit, Loop
<1>3. Outcome
  BY DEF PrivilegedInit, Outcome
<1> QED BY <1>2, <1>3 DEF PrivilegedInv

LEMMA AssignmentKeepsLoop == Loop /\ Assignment => Loop'
<1> SUFFICES ASSUME Loop, Assignment PROVE Loop'
  OBVIOUS
<1>1. PICK a \in Assignments :
        /\ assigned' = Append(assigned, a)
        /\ IF a.role = "unprivileged" \/ a.principal \in Others
           THEN UNCHANGED <<standing, privileged, superAdmins, groupHeld,
                            groupHeldGlobalAdmin>>
           ELSE AssignUser(a) \/ AssignGroup(a)
  BY DEF Assignment
<1>2. assigned' \in Seq(Assignments) /\ UNCHANGED holderFacts
  BY <1>1, SeenNext DEF Loop, Assignment
<1>3. /\ Direct(PrivilegedRoles)' = Direct(PrivilegedRoles) \cup
           {u \in RoleUsers : ~holderFacts[u].disabled /\ a.role \in PrivilegedRoles /\ a.principal = u}
      /\ ToGroup(PrivilegedRoles)' <=>
           ToGroup(PrivilegedRoles) \/ (a.role \in PrivilegedRoles /\ a.principal \in RoleGroups)
  BY <1>1, <1>2, DirectNext DEF Loop, PrivilegedRoles, Roles
<1>4. /\ Direct({"global_admin"})' = Direct({"global_admin"}) \cup
           {u \in RoleUsers : ~holderFacts[u].disabled /\ a.role \in {"global_admin"} /\ a.principal = u}
      /\ ToGroup({"global_admin"})' <=>
           ToGroup({"global_admin"}) \/ (a.role \in {"global_admin"} /\ a.principal \in RoleGroups)
  BY <1>1, <1>2, DirectNext DEF Loop
<1>5. a.role \in Roles /\ a.principal \in Principals
  BY DEF Assignments
<1>6. CASE a.role = "unprivileged" \/ a.principal \in Others
  BY <1>1, <1>2, <1>3, <1>4, <1>6, PrincipalsAssumption DEF Loop, PrivilegedRoles
<1>7. CASE ~(a.role = "unprivileged" \/ a.principal \in Others) /\ AssignUser(a)
  BY <1>1, <1>2, <1>3, <1>4, <1>5, <1>7, PrincipalsAssumption
  DEF Loop, PrivilegedRoles, AssignUser
<1>8. CASE ~(a.role = "unprivileged" \/ a.principal \in Others) /\ AssignGroup(a)
  BY <1>1, <1>2, <1>3, <1>4, <1>5, <1>8, PrincipalsAssumption
  DEF Loop, PrivilegedRoles, AssignGroup
<1> QED BY <1>1, <1>6, <1>7, <1>8

LEMMA SameLoop ==
  ASSUME Loop, UNCHANGED <<holderFacts, assigned, privileged, superAdmins, groupHeld,
                           groupHeldGlobalAdmin>>
  PROVE  Loop'
BY DEF Loop, Direct, ToGroup, Seen

(* Values over the same holders, from the same failed reads, are the same. *)
LEMMA SameOutcome ==
  ASSUME UNCHANGED <<holderFacts, privileged, superAdmins, groupHeld, groupHeldGlobalAdmin>>
  PROVE  /\ \A f : MemberValue(f)' = MemberValue(f) /\ AdminValue(f)' = AdminValue(f)
         /\ membersUnread' = membersUnread /\ globalAdminsUnread' = globalAdminsUnread
BY DEF MemberValue, AdminValue, membersUnread, globalAdminsUnread, mfaRegistered,
       phishingResistant, privilegedGuests, inactiveHolders, globalAdminsMFARegistered

LEMMA FieldsApart ==
  /\ MemberFields \cap AdminFields = {}
  /\ PIMFields \cap (MemberFields \cup AdminFields) = {}
  /\ \A f \in MemberFields \cup AdminFields :
       readOf[f] \in {"lists", "registrations", "sign_in_activity"}
BY DEF MemberFields, AdminFields, PIMFields, readOf

LEMMA ValuesKeepOutcome == Outcome /\ Values => Outcome'
<1> SUFFICES ASSUME Outcome, Values PROVE Outcome'
  OBVIOUS
<1>1. /\ \A f : MemberValue(f)' = MemberValue(f) /\ AdminValue(f)' = AdminValue(f)
      /\ membersUnread' = membersUnread /\ globalAdminsUnread' = globalAdminsUnread
  BY SameOutcome DEF Values
<1>2. "lists" \notin failedReads'
  BY DEF Values
<1>3. pa' = [f \in Fields |-> pa'[f]]
  BY DEF Values
<1>4. \A f \in MemberFields : pa'[f] = MemberOutcome(f)'
  BY <1>1 DEF Values, Fields, MemberOutcome
<1>5. \A f \in AdminFields : pa'[f] = AdminOutcome(f)'
  BY <1>1, FieldsApart DEF Values, Fields, AdminOutcome
<1> QED BY <1>2, <1>3, <1>4, <1>5 DEF Outcome, Values

LEMMA SchedulesKeepOutcome == Outcome /\ Schedules => Outcome'
<1> SUFFICES ASSUME Outcome, Schedules PROVE Outcome'
  OBVIOUS
<1>1. /\ \A f : MemberValue(f)' = MemberValue(f) /\ AdminValue(f)' = AdminValue(f)
      /\ membersUnread' = membersUnread /\ globalAdminsUnread' = globalAdminsUnread
  BY SameOutcome DEF Schedules
<1>2. PICK eligible :
        \/ pa' = [f \in Fields |-> IF f \in PIMFields THEN HolderLeftOut("read_failed") ELSE pa[f]]
        \/ pa' = [pa EXCEPT !["pim_eligible_pct"] = PercentInt(eligible, eligible + standing),
                            !["standing_assignment_count"] = Written(standing)]
  BY DEF Schedules
<1>3. /\ pa' = [f \in Fields |-> pa'[f]]
      /\ \A f \in MemberFields \cup AdminFields : pa'[f] = pa[f]
  BY <1>2, FieldsApart DEF Outcome, Fields, PIMFields
<1>4. /\ \A r \in {"lists", "registrations", "sign_in_activity"} :
           r \in failedReads' <=> r \in failedReads
      /\ step' = "done" /\ step = "schedules"
  BY DEF Schedules
<1>6. CASE /\ "lists" \notin failedReads
           /\ \A f \in MemberFields : pa[f] = MemberOutcome(f)
           /\ \A f \in AdminFields : pa[f] = AdminOutcome(f)
  <2>1. \A f \in MemberFields \cup AdminFields :
          missing(readOf[f], failedReads') = missing(readOf[f], failedReads)
    BY <1>4, FieldsApart DEF missing
  <2>2. \A f \in MemberFields : MemberOutcome(f)' = MemberOutcome(f)
    BY <1>1, <2>1 DEF MemberOutcome
  <2>3. \A f \in AdminFields : AdminOutcome(f)' = AdminOutcome(f)
    BY <1>1, <2>1 DEF AdminOutcome
  <2> QED BY <1>3, <1>4, <1>6, <2>2, <2>3 DEF Outcome
<1> QED BY <1>4, <1>6 DEF Outcome

LEMMA NextKeepsPrivilegedInv == PrivilegedInv /\ [PrivilegedNext]_privilegedVars => PrivilegedInv'
<1> SUFFICES ASSUME PrivilegedInv, [PrivilegedNext]_privilegedVars PROVE PrivilegedInv'
  OBVIOUS
<1>1. CASE ListsFailed
  <2>1. Loop'
    BY <1>1, SameLoop DEF PrivilegedInv, ListsFailed
  <2>2. Outcome'
    BY <1>1 DEF Outcome, ListsFailed
  <2> QED BY <2>1, <2>2 DEF PrivilegedInv
<1>2. CASE Assignment
  <2>1. Loop'
    BY <1>2, AssignmentKeepsLoop DEF PrivilegedInv
  <2>2. Outcome'
    BY <1>2 DEF PrivilegedInv, Outcome, Assignment
  <2> QED BY <2>1, <2>2 DEF PrivilegedInv
<1>3. CASE Values
  <2>1. Loop'
    BY <1>3, SameLoop DEF PrivilegedInv, Values
  <2> QED BY <1>3, <2>1, ValuesKeepOutcome DEF PrivilegedInv
<1>4. CASE Schedules
  <2>1. Loop'
    BY <1>4, SameLoop DEF PrivilegedInv, Schedules
  <2> QED BY <1>4, <2>1, SchedulesKeepOutcome DEF PrivilegedInv
<1>5. CASE UNCHANGED privilegedVars
  <2>1. Loop'
    BY <1>5, SameLoop DEF PrivilegedInv, privilegedVars
  <2>2. /\ \A f : MemberValue(f)' = MemberValue(f) /\ AdminValue(f)' = AdminValue(f)
        /\ membersUnread' = membersUnread /\ globalAdminsUnread' = globalAdminsUnread
    BY <1>5, SameOutcome DEF privilegedVars
  <2>3. Outcome'
    BY <1>5, <2>2 DEF PrivilegedInv, Outcome, MemberOutcome, AdminOutcome, privilegedVars
  <2> QED BY <2>1, <2>3 DEF PrivilegedInv
<1> QED BY <1>1, <1>2, <1>3, <1>4, <1>5 DEF PrivilegedNext

LEMMA AlwaysPrivilegedInv == PrivilegedSpec => []PrivilegedInv
BY InitPrivilegedInv, NextKeepsPrivilegedInv, PTL DEF PrivilegedSpec
-----------------------------------------------------------------------------
LEMMA KnownHolders == PrivilegedInv => HoldersAreKnown
<1> SUFFICES ASSUME PrivilegedInv, NEW group \in Memberships
             PROVE  /\ privileged \subseteq Holders(PrivilegedRoles, group)
                    /\ ~groupHeld => privileged = Holders(PrivilegedRoles, group)
                    /\ superAdmins \subseteq Holders({"global_admin"}, group)
                    /\ ~groupHeldGlobalAdmin =>
                         superAdmins = Holders({"global_admin"}, group)
  BY DEF HoldersAreKnown
<1>1. ASSUME NEW roles
      PROVE  /\ Direct(roles) \subseteq Holders(roles, group)
             /\ ~ToGroup(roles) => Direct(roles) = Holders(roles, group)
  BY DEF Direct, ToGroup, Holders
<1> QED BY <1>1 DEF PrivilegedInv, Loop

(* The holders of a privileged role, and of the Global Administrator role, *)
(* are known while no group holds it, for every tenant and membership.     *)
THEOREM HoldersKnown == PrivilegedSpec => []HoldersAreKnown
BY AlwaysPrivilegedInv, KnownHolders, PTL

LEMMA MemberValueIsTrue ==
  ASSUME NEW f \in MemberFields, NEW admins
  PROVE  MemberValue(f) = TrueValue(f, privileged, admins)
<1>1. /\ f # "super_admin_count" /\ f # "globalAdminsMFA"
      /\ \/ f = "privileged_users_count" \/ f = "privileged_guest_count"
         \/ f = "privileged_mfa_coverage_pct" \/ f = "privileged_phishing_resistant_pct"
         \/ f = "inactive_privileged_users_count"
  BY DEF MemberFields
<1>2. privileged = {} => Cardinality(privileged) = 0
  BY FS_EmptySet
<1>3. \A n : PercentInt(n, 0) = NoneThere
  BY DEF PercentInt
<1>4. \A part : PercentInt(Cardinality(part), Cardinality(privileged)) = Share(part, privileged)
  BY <1>2, <1>3 DEF Share
<1>5. CASE f = "privileged_users_count" \/ f = "privileged_guest_count"
  BY <1>5 DEF MemberValue, TrueValue, privilegedGuests
<1>6. CASE f = "privileged_mfa_coverage_pct"
  BY <1>4, <1>6 DEF MemberValue, TrueValue, mfaRegistered
<1>7. CASE f = "privileged_phishing_resistant_pct"
  BY <1>4, <1>7 DEF MemberValue, TrueValue, phishingResistant
<1>8. CASE f = "inactive_privileged_users_count"
  BY <1>8 DEF MemberValue, TrueValue, inactiveHolders
<1> QED BY <1>1, <1>5, <1>6, <1>7, <1>8

LEMMA AdminValueIsTrue ==
  ASSUME NEW f \in AdminFields, NEW us
  PROVE  AdminValue(f) = TrueValue(f, us, superAdmins)
<1>1. CASE f = "super_admin_count"
  BY <1>1 DEF AdminValue, TrueValue
<1>2. CASE f = "globalAdminsMFA"
  <2>1. (mfaRegistered(superAdmins) = superAdmins)
          <=> (\A u \in superAdmins : holderFacts[u].listed /\ holderFacts[u].mfa)
    BY DEF mfaRegistered
  <2> QED BY <1>2, <2>1 DEF AdminValue, TrueValue, globalAdminsMFARegistered
<1> QED BY <1>1, <1>2 DEF AdminFields

LEMMA LeftOutOrThere ==
  /\ \A f : HolderLeftOut("read_failed").state = "read_failed" /\ HolderLeftOut("members").state = "members"
  /\ Pending.state = "pending"
  /\ \A f : MemberValue(f).state \in {"written", "null"}
  /\ \A f : AdminValue(f).state \in {"written", "null"}
<1>1. \A n, m : PercentInt(n, m).state \in {"written", "null"}
  BY DEF PercentInt, Written, NoneThere
<1>2. \A x : Written(x).state = "written" /\ NoneThere.state = "null"
  BY DEF Written, NoneThere
<1> QED BY <1>1, <1>2 DEF MemberValue, AdminValue, globalAdminsMFARegistered, HolderLeftOut, Pending

LEMMA TrueValues == PrivilegedInv => ValuesHoldForEveryMembership
<1> SUFFICES ASSUME PrivilegedInv, NEW f \in MemberFields \cup AdminFields,
                    pa[f].state \in {"written", "null"}, NEW group \in Memberships
             PROVE  pa[f] = TrueValue(f, Holders(PrivilegedRoles, group),
                                      Holders({"global_admin"}, group))
  BY DEF ValuesHoldForEveryMembership
<1>1. f \in Fields
  BY DEF Fields
<1>2. /\ \A g \in MemberFields : pa[g] = MemberOutcome(g)
      /\ \A g \in AdminFields : pa[g] = AdminOutcome(g)
  BY <1>1, LeftOutOrThere DEF PrivilegedInv, Outcome
<1>3. HoldersAreKnown
  BY KnownHolders
<1>4. CASE f \in MemberFields
  <2>1. missing(readOf[f], failedReads) = "" /\ membersUnread = ""
    BY <1>2, <1>4, LeftOutOrThere
    DEF MemberOutcome, settled, firstMissing, missing, membersUnread
  <2>2. ~groupHeld /\ pa[f] = MemberValue(f)
    BY <1>2, <1>4, <2>1 DEF MemberOutcome, settled, firstMissing, membersUnread
  <2> QED BY <1>3, <1>4, <2>2, MemberValueIsTrue DEF HoldersAreKnown
<1>5. CASE f \in AdminFields
  <2>1. missing(readOf[f], failedReads) = "" /\ globalAdminsUnread = ""
    BY <1>2, <1>5, LeftOutOrThere
    DEF AdminOutcome, settled, firstMissing, missing, globalAdminsUnread, membersUnread
  <2>2. groupHeldGlobalAdmin => groupHeld
    BY DEF PrivilegedInv, Loop, ToGroup, PrivilegedRoles, Roles
  <2>3. ~groupHeldGlobalAdmin /\ pa[f] = AdminValue(f)
    BY <1>2, <1>5, <2>1, <2>2
    DEF AdminOutcome, settled, firstMissing, globalAdminsUnread, membersUnread
  <2> QED BY <1>3, <1>5, <2>3, AdminValueIsTrue DEF HoldersAreKnown
<1> QED BY <1>4, <1>5

(* Every value written over the holders of a role is the true one,         *)
(* whoever the members of the groups are.                                  *)
THEOREM ValuesAreTrue == PrivilegedSpec => []ValuesHoldForEveryMembership
BY AlwaysPrivilegedInv, TrueValues, PTL

LEMMA NamedCause == PrivilegedInv => LeftOutForItsCause
<1> SUFFICES ASSUME PrivilegedInv, pa # [f \in Fields |-> Pending],
                    NEW f \in MemberFields \cup AdminFields
             PROVE  LET roles == IF f \in AdminFields THEN {"global_admin"} ELSE PrivilegedRoles
                    IN  /\ pa[f].state = "read_failed" <=>
                             "lists" \in failedReads \/ readOf[f] \in failedReads
                        /\ pa[f].state = "members" <=>
                             /\ pa[f].state # "read_failed"
                             /\ \E a \in Seen : a.role \in roles /\ a.principal \in RoleGroups
  BY DEF LeftOutForItsCause
<1>1. f \in Fields /\ step # "assignments"
  BY DEF Fields, PrivilegedInv, Outcome
<1>2. groupHeldGlobalAdmin => groupHeld
  BY DEF PrivilegedInv, Loop, ToGroup, PrivilegedRoles, Roles
<1>3. CASE "lists" \in failedReads /\ pa = [g \in Fields |-> HolderLeftOut("read_failed")]
  BY <1>1, <1>3, LeftOutOrThere
<1>4. CASE /\ "lists" \notin failedReads
           /\ \A g \in MemberFields : pa[g] = MemberOutcome(g)
           /\ \A g \in AdminFields : pa[g] = AdminOutcome(g)
  <2>1. CASE f \in MemberFields
    <3>1. f \notin AdminFields /\ pa[f] = MemberOutcome(f)
      BY <1>4, <2>1, FieldsApart
    <3>2. groupHeld <=> \E a \in Seen : a.role \in PrivilegedRoles /\ a.principal \in RoleGroups
      BY DEF PrivilegedInv, Loop, ToGroup
    <3>3. /\ pa[f].state = "read_failed" <=> readOf[f] \in failedReads
          /\ pa[f].state = "members" <=> pa[f].state # "read_failed" /\ groupHeld
      BY <3>1, LeftOutOrThere
      DEF MemberOutcome, settled, firstMissing, missing, membersUnread
    <3> QED BY <1>4, <3>1, <3>2, <3>3
  <2>2. CASE f \in AdminFields
    <3>1. pa[f] = AdminOutcome(f)
      BY <1>4, <2>2
    <3>2. groupHeldGlobalAdmin
            <=> \E a \in Seen : a.role \in {"global_admin"} /\ a.principal \in RoleGroups
      BY DEF PrivilegedInv, Loop, ToGroup
    <3>3. /\ pa[f].state = "read_failed" <=> readOf[f] \in failedReads
          /\ pa[f].state = "members" <=> pa[f].state # "read_failed" /\ groupHeldGlobalAdmin
      BY <1>2, <3>1, LeftOutOrThere
      DEF AdminOutcome, settled, firstMissing, missing, globalAdminsUnread, membersUnread
    <3> QED BY <1>4, <2>2, <3>2, <3>3
  <2> QED BY <2>1, <2>2
<1> QED BY <1>1, <1>3, <1>4 DEF PrivilegedInv, Outcome

(* A value is left out for the read or the members it names, whatever      *)
(* order the assignments came in.                                          *)
THEOREM CausesAreTheirOwn == PrivilegedSpec => []LeftOutForItsCause
BY AlwaysPrivilegedInv, NamedCause, PTL
-----------------------------------------------------------------------------
(* What each assignment adds to the standing ones, and what is done with   *)
(* their number.                                                           *)
Counted ==
  /\ assigned \in Seq(Assignments)
  /\ standing = Cardinality(ToUsers)
  /\ standing \in 0 .. Len(assigned)
  /\ "schedules" \in failedReads => step = "done"
  /\ "lists" \in failedReads => step = "done"
  /\ step = "done" =>
       IF failedReads \cap {"lists", "schedules"} # {}
       THEN \A f \in PIMFields : pa[f].state = "read_failed"
       ELSE /\ pa["standing_assignment_count"] = Written(standing)
            /\ \E eligible \in 0 .. MaxSchedules :
                 pa["pim_eligible_pct"] = PercentInt(eligible, eligible + standing)

LEMMA ToUsersFinite ==
  ASSUME assigned \in Seq(Assignments)
  PROVE  IsFiniteSet(ToUsers)
<1>1. IsFiniteSet(1 .. Len(assigned))
  BY FS_Interval
<1> QED BY <1>1, FS_Subset DEF ToUsers

LEMMA OneMore ==
  ASSUME assigned \in Seq(Assignments), NEW a \in Assignments,
         assigned' = Append(assigned, a)
  PROVE  /\ Len(assigned') = Len(assigned) + 1
         /\ Cardinality(ToUsers') =
              IF a.role \in PrivilegedRoles /\ a.principal \in RoleUsers
              THEN Cardinality(ToUsers) + 1 ELSE Cardinality(ToUsers)
<1>1. Len(assigned') = Len(assigned) + 1 /\ Len(assigned) \in Nat
  OBVIOUS
<1>2. \A i \in 1 .. Len(assigned) : assigned'[i] = assigned[i]
  OBVIOUS
<1>3. assigned'[Len(assigned) + 1] = a
  OBVIOUS
<1>4. 1 .. Len(assigned') = (1 .. Len(assigned)) \cup {Len(assigned) + 1}
  BY <1>1
<1>5. Len(assigned) + 1 \notin ToUsers
  BY <1>1 DEF ToUsers
<1>6. CASE a.role \in PrivilegedRoles /\ a.principal \in RoleUsers
  <2>1. ToUsers' = ToUsers \cup {Len(assigned) + 1}
    BY <1>2, <1>3, <1>4, <1>6 DEF ToUsers
  <2>2. Cardinality(ToUsers \cup {Len(assigned) + 1}) = Cardinality(ToUsers) + 1
    BY <1>5, ToUsersFinite, FS_AddElement
  <2> QED BY <1>1, <1>6, <2>1, <2>2
<1>7. CASE ~(a.role \in PrivilegedRoles /\ a.principal \in RoleUsers)
  <2>1. ToUsers' = ToUsers
    BY <1>2, <1>3, <1>4, <1>7 DEF ToUsers
  <2> QED BY <1>1, <1>7, <2>1
<1> QED BY <1>6, <1>7

LEMMA InitCounted == PrivilegedInit => Counted
<1> SUFFICES ASSUME PrivilegedInit PROVE Counted
  OBVIOUS
<1>1. ToUsers = {}
  BY DEF PrivilegedInit, ToUsers
<1>2. standing = 0 /\ Cardinality(ToUsers) = 0 /\ Len(assigned) = 0
  BY <1>1, FS_EmptySet DEF PrivilegedInit
<1> QED BY <1>2 DEF PrivilegedInit, Counted

LEMMA NextKeepsCounted == PrivilegedInv /\ Counted /\ [PrivilegedNext]_privilegedVars => Counted'
<1> SUFFICES ASSUME PrivilegedInv, Counted, [PrivilegedNext]_privilegedVars PROVE Counted'
  OBVIOUS
<1>1. CASE ListsFailed
  <2>1. ToUsers' = ToUsers
    BY <1>1 DEF ListsFailed, ToUsers
  <2>2. \A f \in PIMFields : pa'[f].state = "read_failed"
    BY <1>1, LeftOutOrThere DEF ListsFailed, Fields
  <2> QED BY <1>1, <2>1, <2>2 DEF Counted, ListsFailed
<1>2. CASE Assignment
  <2>1. PICK a \in Assignments :
          /\ assigned' = Append(assigned, a)
          /\ IF a.role = "unprivileged" \/ a.principal \in Others
             THEN UNCHANGED <<standing, privileged, superAdmins, groupHeld,
                              groupHeldGlobalAdmin>>
             ELSE AssignUser(a) \/ AssignGroup(a)
    BY <1>2 DEF Assignment
  <2>2. a.role \in Roles /\ a.principal \in Principals
    BY DEF Assignments
  <2>3. /\ Len(assigned') = Len(assigned) + 1
        /\ Cardinality(ToUsers') =
             IF a.role \in PrivilegedRoles /\ a.principal \in RoleUsers
             THEN Cardinality(ToUsers) + 1 ELSE Cardinality(ToUsers)
    BY <2>1, OneMore DEF Counted
  <2>4. standing' = IF a.role \in PrivilegedRoles /\ a.principal \in RoleUsers
                    THEN standing + 1 ELSE standing
    BY <2>1, <2>2, PrincipalsAssumption DEF PrivilegedRoles, Principals, AssignUser, AssignGroup
  <2>5. standing' = Cardinality(ToUsers') /\ standing' \in 0 .. Len(assigned')
    BY <2>3, <2>4 DEF Counted
  <2>6. assigned' \in Seq(Assignments) /\ UNCHANGED <<step, failedReads>> /\ step # "done"
    BY <1>2, <2>1 DEF Counted, Assignment
  <2> QED BY <2>5, <2>6 DEF Counted
<1>3. CASE Values
  <2>1. ToUsers' = ToUsers
    BY <1>3 DEF Values, ToUsers
  <2> QED BY <1>3, <2>1 DEF Counted, Values
<1>4. CASE Schedules
  <2>1. ToUsers' = ToUsers /\ UNCHANGED <<standing, assigned>> /\ step' = "done"
    BY <1>4 DEF Schedules, ToUsers
  <2>2. "lists" \notin failedReads /\ "schedules" \notin failedReads
    BY <1>4 DEF Schedules, Counted
  <2>3. CASE /\ failedReads' = failedReads \cup {"schedules"}
             /\ pa' = [f \in Fields |->
                         IF f \in PIMFields THEN HolderLeftOut("read_failed") ELSE pa[f]]
    <3>1. \A f \in PIMFields : pa'[f].state = "read_failed"
      BY <2>3, LeftOutOrThere DEF Fields
    <3> QED BY <2>1, <2>3, <3>1 DEF Counted
  <2>4. CASE /\ failedReads' = failedReads
             /\ \E eligible \in 0 .. MaxSchedules :
                  pa' = [pa EXCEPT
                    !["pim_eligible_pct"] = PercentInt(eligible, eligible + standing),
                    !["standing_assignment_count"] = Written(standing)]
    <3>1. PICK eligible \in 0 .. MaxSchedules :
            pa' = [pa EXCEPT
                    !["pim_eligible_pct"] = PercentInt(eligible, eligible + standing),
                    !["standing_assignment_count"] = Written(standing)]
      BY <2>4
    <3>2. DOMAIN pa = Fields /\ "pim_eligible_pct" \in Fields
          /\ "standing_assignment_count" \in Fields
      BY DEF PrivilegedInv, Outcome, Fields, PIMFields
    <3>3. /\ pa'["standing_assignment_count"] = Written(standing)
          /\ pa'["pim_eligible_pct"] = PercentInt(eligible, eligible + standing)
      BY <3>1, <3>2
    <3> QED BY <2>1, <2>2, <2>4, <3>3 DEF Counted
  <2> QED BY <1>4, <2>3, <2>4 DEF Schedules
<1>5. CASE UNCHANGED privilegedVars
  <2>1. ToUsers' = ToUsers
    BY <1>5 DEF privilegedVars, ToUsers
  <2> QED BY <1>5, <2>1 DEF Counted, privilegedVars
<1> QED BY <1>1, <1>2, <1>3, <1>4, <1>5 DEF PrivilegedNext

(* The standing assignments are counted one by one, disabled users' too.   *)
THEOREM StandingIsCounted == PrivilegedSpec => []StandingCountsAssignments
<1>1. Counted => StandingCountsAssignments
  BY DEF Counted, StandingCountsAssignments
<1> QED BY <1>1, AlwaysPrivilegedInv, InitCounted, NextKeepsCounted, PTL DEF PrivilegedSpec

-----------------------------------------------------------------------------
(***************************************************************************)
(* The sign-ins of a window.  Each number kept while they are folded is    *)
(* what it is of the sign-ins folded so far.                               *)
(***************************************************************************)

(* The images of a finite set are at most as many as its members, and just *)
(* as many when no two members have the same image.                        *)
LEMMA ImagesCounted ==
  ASSUME NEW S, IsFiniteSet(S), NEW f, DOMAIN f = S, f = [x \in S |-> f[x]]
  PROVE  /\ IsFiniteSet({f[x] : x \in S})
         /\ Cardinality({f[x] : x \in S}) <= Cardinality(S)
         /\ (\A x, y \in S : f[x] = f[y] => x = y) =>
              Cardinality({f[x] : x \in S}) = Cardinality(S)
<1>. DEFINE T == {f[x] : x \in S}
<1>1. f \in Surjection(S, T)
  BY DEF Surjection
<1>2. (\A x, y \in S : f[x] = f[y] => x = y) => f \in Injection(S, T)
  BY DEF Injection, IsInjective
<1>. QED
  BY <1>1, <1>2, FS_Surjection

LEMMA MembersOfList ==
  ASSUME NEW T, NEW list \in Seq(T)
  PROVE  /\ DOMAIN list = 1 .. Len(list) /\ Len(list) \in Nat
         /\ \A j \in DOMAIN list : list[j] \in T
OBVIOUS

(* What a sign-in is.                                                      *)
LEMMA SignInFacts ==
  ASSUME NEW s \in SignIns
  PROVE  /\ s.code \in Int /\ s.code \in Codes \cup {0}
         /\ riskySignIn(s) <=> {s.aggregated, s.during} \cap {"low", "medium", "high"} # {}
         /\ riskHidden(s) <=> "hidden" \in {s.aggregated, s.during}
         /\ DOMAIN s.policies = 1 .. Len(s.policies) /\ Len(s.policies) \in Nat
         /\ \A j \in DOMAIN s.policies : s.policies[j].result \in Results
<1>1. IsSignIn(s)
  BY SignInsAssumption
<1>2. s.code \in Int
  <2>1. s.code \in Codes \cup {0}
    BY <1>1 DEF IsSignIn
  <2>2. \A c \in Codes \cup {0} : c \in Int
    BY CodesAssumption
  <2>. QED
    BY <2>1, <2>2, Zenon
<1>3. riskySignIn(s) <=> {s.aggregated, s.during} \cap {"low", "medium", "high"} # {}
  BY <1>1 DEF IsSignIn, riskySignIn, riskyLevel, RiskLevels
<1>4. riskHidden(s) <=> "hidden" \in {s.aggregated, s.during}
  BY DEF riskHidden
<1>5. s.policies \in Seq([policy : STRING, result : Results])
  BY <1>1 DEF IsSignIn
<1>6. /\ DOMAIN s.policies = 1 .. Len(s.policies) /\ Len(s.policies) \in Nat
      /\ \A j \in DOMAIN s.policies : s.policies[j] \in [policy : STRING, result : Results]
  BY <1>5, MembersOfList
<1>7. \A j \in DOMAIN s.policies : s.policies[j].result \in Results
  BY <1>6
<1>. QED
  BY <1>1, <1>2, <1>3, <1>4, <1>6, <1>7 DEF IsSignIn

LEMMA WindowIs ==
  ASSUME seen \in Seq(SignIns)
  PROVE  /\ InWindow \in SUBSET Nat /\ IsFiniteSet(InWindow)
         /\ \A i \in InWindow : seen[i] \in SignIns
<1>1. Len(seen) \in Nat
  OBVIOUS
<1>2. IsFiniteSet(1 .. Len(seen))
  BY <1>1, FS_Interval
<1>. QED
  BY <1>2 DEF InWindow

(* A fold adds one sign-in at the end of the window.                       *)
Folds(s) ==
  /\ InWindow' = InWindow \cup {Len(seen) + 1} /\ Len(seen) + 1 \notin InWindow
  /\ seen'[Len(seen) + 1] = s /\ \A i \in InWindow : seen'[i] = seen[i]

LEMMA WindowGrows ==
  ASSUME seen \in Seq(SignIns), NEW s \in SignIns, seen' = Append(seen, s)
  PROVE  seen' \in Seq(SignIns) /\ Folds(s)
<1>1. /\ Len(seen) \in Nat /\ seen' \in Seq(SignIns) /\ Len(seen') = Len(seen) + 1
      /\ seen'[Len(seen) + 1] = s /\ \A i \in 1 .. Len(seen) : seen'[i] = seen[i]
  OBVIOUS
<1>. QED
  BY <1>1 DEF Folds, InWindow

(* The sign-ins of a kind are one more just if the new one is of the kind. *)
LEMMA OneMoreSignIn ==
  ASSUME seen \in Seq(SignIns), NEW s, Folds(s), NEW S \in SUBSET InWindow, NEW T,
         NEW p \in BOOLEAN, T = IF p THEN S \cup {Len(seen) + 1} ELSE S
  PROVE  /\ Cardinality(T) = Cardinality(S) + (IF p THEN 1 ELSE 0)
         /\ Cardinality(S) \in Nat
<1>1. IsFiniteSet(S) /\ Len(seen) + 1 \notin S
  BY WindowIs, FS_Subset DEF Folds
<1>2. Cardinality(S) \in Nat
  BY <1>1, FS_CardinalityType
<1>3. Cardinality(S \cup {Len(seen) + 1}) = Cardinality(S) + 1
  BY <1>1, FS_AddElement
<1>. QED
  BY <1>2, <1>3

-----------------------------------------------------------------------------
(* The risky sign-ins.                                                     *)
RiskySeen == {i \in InWindow : riskySignIn(seen[i])}
RiskInv ==
  /\ counts["risky_sign_ins_count"] = Cardinality(RiskySeen)
  /\ unrated <=> \E i \in InWindow : ~riskySignIn(seen[i]) /\ riskHidden(seen[i])

LEMMA CountsFold ==
  ASSUME FoldSignIn
  PROVE  \E s \in SignIns :
           /\ seen' = Append(seen, s)
           /\ \A c \in Counts : counts'[c] = counts[c] + added(s, c)
           /\ policyIDs' = policyIDs \cup
                ({s.policies[i].policy : i \in 1 .. Len(s.policies)} \ {NoID})
           /\ failureCodes' =
                [c \in DOMAIN failureCodes \cup failureCode(s) |->
                   (IF c \in DOMAIN failureCodes THEN failureCodes[c] ELSE 0)
                   + (IF c = s.code THEN 1 ELSE 0)]
           /\ unrated' <=> unrated \/ (~riskySignIn(s) /\ riskHidden(s))
           /\ policiesOmitted' <=> policiesOmitted \/ noPolicies(s)
<1>1. PICK s \in SignIns :
        /\ seen' = Append(seen, s)
        /\ counts' = [c \in Counts |-> counts[c] + added(s, c)]
        /\ policyIDs' = policyIDs \cup
             ({s.policies[i].policy : i \in 1 .. Len(s.policies)} \ {NoID})
        /\ failureCodes' =
             [c \in DOMAIN failureCodes \cup failureCode(s) |->
                (IF c \in DOMAIN failureCodes THEN failureCodes[c] ELSE 0)
                + (IF c = s.code THEN 1 ELSE 0)]
        /\ unrated' = (unrated \/ (~riskySignIn(s) /\ riskHidden(s)))
        /\ policiesOmitted' = (policiesOmitted \/ noPolicies(s))
  BY DEF FoldSignIn
<1>2. \A c \in Counts : counts'[c] = counts[c] + added(s, c)
  BY <1>1
<1>. QED
  BY <1>1, <1>2, Zenon

LEMMA RiskFolds ==
  ASSUME seen \in Seq(SignIns), RiskInv, NEW s \in SignIns, Folds(s),
         \A c \in Counts : counts'[c] = counts[c] + added(s, c),
         unrated' <=> unrated \/ (~riskySignIn(s) /\ riskHidden(s))
  PROVE  RiskInv'
<1>1. RiskySeen \in SUBSET InWindow
  BY DEF RiskySeen
<1>2. RiskySeen' = IF riskySignIn(s) THEN RiskySeen \cup {Len(seen) + 1} ELSE RiskySeen
  BY Zenon DEF RiskySeen, Folds
<1>3. Cardinality(RiskySeen') = Cardinality(RiskySeen) + (IF riskySignIn(s) THEN 1 ELSE 0)
  <2>1. riskySignIn(s) \in BOOLEAN
    BY DEF riskySignIn
  <2>. QED
    BY <1>1, <1>2, <2>1, OneMoreSignIn
<1>4. "risky_sign_ins_count" \in Counts /\ "risky_sign_ins_count" \notin PolicyCounts
  BY DEF Counts, PolicyCounts
<1>5. added(s, "risky_sign_ins_count") = IF riskySignIn(s) THEN 1 ELSE 0
  BY <1>4 DEF added
<1>6. counts'["risky_sign_ins_count"] = Cardinality(RiskySeen')
  BY <1>3, <1>4, <1>5 DEF RiskInv
<1>7. unrated' <=> \E i \in InWindow' : ~riskySignIn(seen'[i]) /\ riskHidden(seen'[i])
  BY Zenon DEF RiskInv, Folds
<1>. QED
  BY <1>6, <1>7 DEF RiskInv

(* A risk that is hidden makes the count uncertain unless the sign-in is   *)
(* risky anyhow.                                                           *)
LEMMA HiddenRisk ==
  ASSUME seen \in Seq(SignIns), RiskInv
  PROVE  /\ Cardinality(RiskySeen) \in Nat
         /\ ~unrated => \A rated \in SUBSET Hidden : RiskyIf(rated) = Cardinality(RiskySeen)
         /\ unrated => \E rated \in SUBSET Hidden : RiskyIf(rated) # RiskyIf({})
<1>. DEFINE If(rated) ==
       {i \in InWindow : Levels(i) \cap {"low", "medium", "high"} # {} \/ i \in rated}
<1>1. \A i \in InWindow :
        /\ riskySignIn(seen[i]) <=> Levels(i) \cap {"low", "medium", "high"} # {}
        /\ riskHidden(seen[i]) <=> i \in Hidden
  BY WindowIs, SignInFacts DEF Levels, Hidden
<1>2. If({}) = RiskySeen
  BY <1>1 DEF RiskySeen
<1>3. RiskySeen \in SUBSET InWindow /\ IsFiniteSet(RiskySeen)
  BY WindowIs, FS_Subset DEF RiskySeen
<1>4. Cardinality(RiskySeen) \in Nat
  BY <1>3, FS_CardinalityType
<1>5. ASSUME ~unrated, NEW rated \in SUBSET Hidden PROVE If(rated) = RiskySeen
  <2>1. \A i \in rated : i \in InWindow /\ i \in Hidden
    BY DEF Hidden
  <2>2. \A i \in rated : i \in RiskySeen
    BY <1>1, <1>5, <2>1 DEF RiskInv, RiskySeen
  <2>. QED
    BY <1>1, <2>2 DEF RiskySeen
<1>6. ASSUME unrated PROVE \E rated \in SUBSET Hidden : RiskyIf(rated) # RiskyIf({})
  <2>1. PICK i \in InWindow : ~riskySignIn(seen[i]) /\ riskHidden(seen[i])
    BY <1>6 DEF RiskInv
  <2>2. i \notin RiskySeen /\ {i} \in SUBSET Hidden
    BY <1>1, <2>1 DEF RiskySeen
  <2>3. If({i}) = RiskySeen \cup {i}
    BY <1>1 DEF RiskySeen
  <2>4. Cardinality(RiskySeen \cup {i}) = Cardinality(RiskySeen) + 1
    BY <1>3, <2>2, FS_AddElement
  <2>5. RiskyIf({i}) # RiskyIf({})
    <3>1. RiskyIf({i}) = Cardinality(If({i})) /\ RiskyIf({}) = Cardinality(If({}))
      BY DEF RiskyIf
    <3>2. RiskyIf({}) = Cardinality(RiskySeen)
      BY <1>2, <3>1, Zenon
    <3>3. RiskyIf({i}) = Cardinality(RiskySeen) + 1
      BY <2>3, <2>4, <3>1, Zenon
    <3>. QED
      BY <1>4, <3>2, <3>3
  <2>. QED
    BY <2>2, <2>5
<1>7. ASSUME ~unrated, NEW rated \in SUBSET Hidden
      PROVE  RiskyIf(rated) = Cardinality(RiskySeen)
  BY <1>5, <1>7 DEF RiskyIf
<1>. QED
  BY <1>4, <1>6, <1>7
-----------------------------------------------------------------------------
(* The evaluations of policies.                                            *)
ResultsOf(c) == {r \in Results : c \in {"applied_policy_evaluations_count", resultCount(r)}}
PolicyOf(e) == seen[e[1]].policies[e[2]].policy

PoliciesInv ==
  /\ policiesOmitted <=> \E i \in InWindow : seen[i].omitted
  /\ \A c \in PolicyCounts : counts[c] = Cardinality(Evaluated(ResultsOf(c)))
  /\ IsFiniteSet(Evaluations)
  /\ policyIDs \subseteq {PolicyOf(e) : e \in Evaluations}

LEMMA PairIs == \A i, j : <<i, j>>[1] = i /\ <<i, j>>[2] = j
OBVIOUS

LEMMA SamePair == \A i, j, k, l : <<i, j>> = <<k, l>> => i = k /\ j = l
OBVIOUS

(* What one more sign-in has had evaluated.                                *)
Latest(s) == {<<Len(seen) + 1, j>> : j \in DOMAIN s.policies}
LatestOf(s, c) ==
  {<<Len(seen) + 1, j>> : j \in {k \in DOMAIN s.policies : s.policies[k].result \in ResultsOf(c)}}

LEMMA EvaluationsGrow ==
  ASSUME seen \in Seq(SignIns), NEW s \in SignIns, Folds(s), NEW n, n = Len(seen) + 1
  PROVE  /\ Evaluations' = Evaluations \cup Latest(s)
         /\ \A e \in Evaluations : PolicyOf(e)' = PolicyOf(e) /\ e[1] \in InWindow
         /\ \A j \in DOMAIN s.policies : PolicyOf(<<n, j>>)' = s.policies[j].policy
         /\ \A c : /\ Evaluated(ResultsOf(c))' = Evaluated(ResultsOf(c)) \cup LatestOf(s, c)
                   /\ Evaluated(ResultsOf(c)) \cap LatestOf(s, c) = {}
<1>. DEFINE Of(i) == {<<i, j>> : j \in DOMAIN seen[i].policies}
<1>1. Evaluations = UNION {Of(i) : i \in InWindow}
  BY DEF Evaluations
<1>2. Evaluations' = UNION {Of(i)' : i \in InWindow'}
  BY DEF Evaluations
<1>3. /\ InWindow' = InWindow \cup {n} /\ n \notin InWindow /\ seen'[n] = s
      /\ \A i \in InWindow : seen'[i] = seen[i]
  BY Zenon DEF Folds
<1>4. Evaluations' = Evaluations \cup Latest(s)
  <2>1. Of(n)' = Latest(s)
    BY <1>3, Zenon DEF Latest
  <2>2. \A i \in InWindow : Of(i)' = Of(i)
    BY <1>3, Zenon
  <2>. HIDE DEF Of
  <2>3. ASSUME NEW e PROVE e \in Evaluations' <=> e \in Evaluations \cup Latest(s)
    <3>1. e \in Evaluations' <=> \E i \in InWindow' : e \in Of(i)'
      BY <1>2, Zenon
    <3>2. e \in Evaluations <=> \E i \in InWindow : e \in Of(i)
      BY <1>1, Zenon
    <3>. QED
      BY <1>3, <2>1, <2>2, <3>1, <3>2, Zenon
  <2>. QED
    BY <2>3, Zenon
<1>5. ASSUME NEW e \in Evaluations
      PROVE  e[1] \in InWindow /\ seen'[e[1]] = seen[e[1]]
  <2>1. PICK i \in InWindow : e \in Of(i)
    BY <1>1
  <2>2. PICK j \in DOMAIN seen[i].policies : e = <<i, j>>
    BY <2>1
  <2>. QED
    BY <1>3, <2>2, PairIs
<1>6. \A j : <<n, j>>[1] = n /\ <<n, j>>[2] = j /\ seen'[n] = s
  BY <1>3, PairIs
<1>. HIDE DEF Of
<1>7. \A e \in Evaluations : PolicyOf(e)' = PolicyOf(e)
  BY <1>5 DEF PolicyOf
<1>8. ASSUME NEW j \in DOMAIN s.policies PROVE PolicyOf(<<n, j>>)' = s.policies[j].policy
  <2>1. PolicyOf(<<n, j>>)' = seen'[<<n, j>>[1]].policies[<<n, j>>[2]].policy
    BY DEF PolicyOf
  <2>. QED
    BY <1>6, <2>1, Zenon
<1>9. ASSUME NEW c
      PROVE  /\ Evaluated(ResultsOf(c))' = Evaluated(ResultsOf(c)) \cup LatestOf(s, c)
             /\ Evaluated(ResultsOf(c)) \cap LatestOf(s, c) = {}
  <2>. DEFINE R == ResultsOf(c)
              In(e) == seen[e[1]].policies[e[2]].result \in R
  <2>1. \A e \in Evaluations : In(e)' <=> In(e)
    BY <1>5
  <2>2. Evaluated(R) = {e \in Evaluations : In(e)}
    BY DEF Evaluated
  <2>3. Evaluated(R)' = {e \in Evaluations' : In(e)'}
    BY DEF Evaluated
  <2>4. ASSUME NEW e PROVE e \in LatestOf(s, c) <=> e \in Latest(s) /\ In(e)'
    <3>1. ASSUME NEW j \in DOMAIN s.policies, e = <<n, j>>
          PROVE  In(e)' <=> s.policies[j].result \in R
      BY <1>6, <3>1, Zenon
    <3>2. e \in Latest(s) <=> \E j \in DOMAIN s.policies : e = <<n, j>>
      BY Zenon DEF Latest
    <3>3. e \in LatestOf(s, c) <=>
            \E j \in DOMAIN s.policies : s.policies[j].result \in R /\ e = <<n, j>>
      BY Zenon DEF LatestOf
    <3>. HIDE DEF In, R
    <3>. QED
      BY <3>1, <3>2, <3>3
  <2>5. \A e \in LatestOf(s, c) : e[1] = n
    BY <1>6, Zenon DEF LatestOf
  <2>6. \A e \in LatestOf(s, c) : e \notin Evaluations
    BY <1>3, <1>5, <2>5
  <2>. HIDE DEF In
  <2>7. Evaluated(R)' = Evaluated(R) \cup LatestOf(s, c)
    BY <1>4, <2>1, <2>2, <2>3, <2>4
  <2>. QED
    BY <2>2, <2>6, <2>7
<1>. QED
  BY <1>4, <1>5, <1>7, <1>8, <1>9

(* As many are new as the sign-in adds to the count.                       *)
LEMMA LatestCounted ==
  ASSUME seen \in Seq(SignIns), NEW s \in SignIns
  PROVE  /\ IsFiniteSet(Latest(s))
         /\ \A c \in PolicyCounts :
              IsFiniteSet(LatestOf(s, c)) /\ Cardinality(LatestOf(s, c)) = added(s, c)
<1>. DEFINE n == Len(seen) + 1
            K(c) == {k \in DOMAIN s.policies : s.policies[k].result \in ResultsOf(c)}
<1>1. ASSUME NEW S \in SUBSET DOMAIN s.policies
      PROVE  /\ IsFiniteSet({<<n, j>> : j \in S})
             /\ Cardinality({<<n, j>> : j \in S}) = Cardinality(S)
  <2>. DEFINE f == [j \in S |-> <<n, j>>]
  <2>1. IsFiniteSet(1 .. Len(s.policies))
    <3>1. Len(s.policies) \in Int
      BY SignInFacts
    <3>2. 1 \in Int
      OBVIOUS
    <3>. QED
      BY <3>1, <3>2, FS_Interval, Zenon
  <2>2. IsFiniteSet(S)
    BY <2>1, SignInFacts, FS_Subset
  <2>3. DOMAIN f = S /\ f = [j \in S |-> f[j]]
    OBVIOUS
  <2>4. \A x, y \in S : f[x] = f[y] => x = y
    BY SamePair
  <2>5. {f[j] : j \in S} = {<<n, j>> : j \in S}
    OBVIOUS
  <2>. HIDE DEF f
  <2>. QED
    BY <2>2, <2>3, <2>4, <2>5, ImagesCounted
<1>2. IsFiniteSet(Latest(s))
  BY <1>1, Zenon DEF Latest
<1>3. ASSUME NEW c \in PolicyCounts
      PROVE  IsFiniteSet(LatestOf(s, c)) /\ Cardinality(LatestOf(s, c)) = added(s, c)
  <2>1. K(c) \in SUBSET DOMAIN s.policies
    OBVIOUS
  <2>2. LatestOf(s, c) = {<<n, j>> : j \in K(c)}
    BY DEF LatestOf
  <2>3. IsFiniteSet(LatestOf(s, c)) /\ Cardinality(LatestOf(s, c)) = Cardinality(K(c))
    BY <1>1, <2>1, <2>2, Zenon
  <2>4. added(s, c) = Cardinality({i \in 1 .. Len(s.policies) :
           c \in {"applied_policy_evaluations_count", resultCount(s.policies[i].result)}})
    BY <1>3, Zenon DEF added, PolicyCounts
  <2>5. K(c) = {i \in 1 .. Len(s.policies) :
           c \in {"applied_policy_evaluations_count", resultCount(s.policies[i].result)}}
    BY SignInFacts, Zenon DEF ResultsOf
  <2>. QED
    BY <2>3, <2>4, <2>5, Zenon
<1>. QED
  BY <1>2, <1>3

LEMMA PoliciesFold ==
  ASSUME seen \in Seq(SignIns), PoliciesInv, NEW s \in SignIns, Folds(s),
         \A c \in Counts : counts'[c] = counts[c] + added(s, c),
         policyIDs' = policyIDs \cup
           ({s.policies[i].policy : i \in 1 .. Len(s.policies)} \ {NoID}),
         policiesOmitted' <=> policiesOmitted \/ noPolicies(s)
  PROVE  PoliciesInv'
<1>0. PICK n : n = Len(seen) + 1
  OBVIOUS
<1>1. policiesOmitted' <=> \E i \in InWindow' : seen'[i].omitted
  BY Zenon DEF PoliciesInv, Folds, noPolicies
<1>2. ASSUME NEW c \in PolicyCounts
      PROVE  counts'[c] = Cardinality(Evaluated(ResultsOf(c))')
  <2>1. c \in Counts
    BY DEF Counts
  <2>2. Evaluated(ResultsOf(c)) \in SUBSET Evaluations
    BY DEF Evaluated
  <2>3. IsFiniteSet(Evaluated(ResultsOf(c)))
    BY <2>2, FS_Subset DEF PoliciesInv
  <2>4. /\ IsFiniteSet(LatestOf(s, c)) /\ Cardinality(LatestOf(s, c)) = added(s, c)
    BY LatestCounted
  <2>5. /\ Evaluated(ResultsOf(c))' = Evaluated(ResultsOf(c)) \cup LatestOf(s, c)
        /\ Evaluated(ResultsOf(c)) \cap LatestOf(s, c) = {}
    BY <1>0, EvaluationsGrow
  <2>6. Cardinality(Evaluated(ResultsOf(c)) \cup LatestOf(s, c)) =
          Cardinality(Evaluated(ResultsOf(c))) + Cardinality(LatestOf(s, c)) - Cardinality({})
    BY <2>3, <2>4, <2>5, FS_Union
  <2>7. Cardinality(Evaluated(ResultsOf(c))) \in Nat /\ Cardinality(LatestOf(s, c)) \in Nat
    BY <2>3, <2>4, FS_CardinalityType
  <2>8. counts'[c] = Cardinality(Evaluated(ResultsOf(c))) + Cardinality(LatestOf(s, c))
    BY <2>1, <2>4, Zenon DEF PoliciesInv
  <2>. QED
    BY <2>5, <2>6, <2>7, <2>8, FS_EmptySet
<1>3. IsFiniteSet(Evaluations')
  <2>1. IsFiniteSet(Evaluations) /\ IsFiniteSet(Latest(s))
    BY LatestCounted DEF PoliciesInv
  <2>2. Evaluations' = Evaluations \cup Latest(s)
    BY <1>0, EvaluationsGrow
  <2>. QED
    BY <2>1, <2>2, FS_Union
<1>4. ASSUME NEW p \in policyIDs' PROVE \E e \in Evaluations' : p = PolicyOf(e)'
  <2>1. Evaluations' = Evaluations \cup Latest(s)
    BY <1>0, EvaluationsGrow
  <2>2. CASE p \in policyIDs
    <3>1. PICK e \in Evaluations : p = PolicyOf(e)
      BY <2>2 DEF PoliciesInv
    <3>2. PolicyOf(e)' = PolicyOf(e)
      BY <1>0, EvaluationsGrow
    <3>. QED
      BY <2>1, <3>1, <3>2
  <2>3. CASE p \notin policyIDs
    <3>1. PICK i \in 1 .. Len(s.policies) : p = s.policies[i].policy
      BY <2>3
    <3>2. i \in DOMAIN s.policies
      BY SignInFacts
    <3>3. PolicyOf(<<n, i>>)' = s.policies[i].policy
      BY <1>0, <3>2, EvaluationsGrow
    <3>4. <<n, i>> \in Latest(s)
      BY <1>0, <3>2 DEF Latest
    <3>. QED
      BY <2>1, <3>1, <3>3, <3>4
  <2>. QED
    BY <2>2, <2>3
<1>5. policyIDs' \subseteq {PolicyOf(e)' : e \in Evaluations'}
  BY <1>4, Zenon
<1>. QED
  BY <1>1, <1>2, <1>3, <1>5, Zenon DEF PoliciesInv
(* The results that go to each count.                                      *)
LEMMA EvaluatedAre ==
  ASSUME seen \in Seq(SignIns)
  PROVE  /\ Evaluated(ResultsOf("applied_policy_evaluations_count")) = Evaluations
         /\ Evaluated(ResultsOf("applied_policy_success_count")) = Evaluated({"success"})
         /\ Evaluated(ResultsOf("applied_policy_failure_count")) = Evaluated({"failure"})
         /\ Evaluated(ResultsOf("applied_policy_not_applied_count")) =
              Evaluated({"notApplied", "notEnabled"})
         /\ Evaluated(ResultsOf("applied_policy_report_only_fail_count")) =
              Evaluated({"reportOnlyFailure"})
<1>1. /\ ResultsOf("applied_policy_evaluations_count") = Results
      /\ ResultsOf("applied_policy_success_count") = {"success"}
      /\ ResultsOf("applied_policy_failure_count") = {"failure"}
      /\ ResultsOf("applied_policy_not_applied_count") = {"notApplied", "notEnabled"}
      /\ ResultsOf("applied_policy_report_only_fail_count") = {"reportOnlyFailure"}
  BY DEF ResultsOf, Results, resultCount
<1>2. ASSUME NEW e \in Evaluations
      PROVE  seen[e[1]].policies[e[2]].result \in Results
  <2>1. PICK i \in InWindow : e \in {<<i, j>> : j \in DOMAIN seen[i].policies}
    BY DEF Evaluations
  <2>2. PICK j \in DOMAIN seen[i].policies : e = <<i, j>>
    BY <2>1
  <2>3. seen[i].policies[j].result \in Results
    BY WindowIs, SignInFacts
  <2>4. e[1] = i /\ e[2] = j
    BY <2>2, PairIs
  <2>. QED
    BY <2>3, <2>4
<1>3. Evaluated(Results) = Evaluations
  BY <1>2 DEF Evaluated
<1>. QED
  BY <1>1, <1>3, Zenon

(* There are no more policies than evaluations of them.                    *)
LEMMA PoliciesBounded ==
  ASSUME PoliciesInv
  PROVE  Cardinality(policyIDs) <= Cardinality(Evaluations)
<1>. DEFINE f == [e \in Evaluations |-> PolicyOf(e)]
<1>1. IsFiniteSet(Evaluations) /\ policyIDs \subseteq {f[e] : e \in Evaluations}
  BY Zenon DEF PoliciesInv
<1>2. DOMAIN f = Evaluations /\ f = [e \in Evaluations |-> f[e]]
  OBVIOUS
<1>. HIDE DEF f
<1>3. /\ IsFiniteSet({f[e] : e \in Evaluations})
      /\ Cardinality({f[e] : e \in Evaluations}) <= Cardinality(Evaluations)
  BY <1>1, <1>2, ImagesCounted
<1>4. Cardinality(policyIDs) <= Cardinality({f[e] : e \in Evaluations})
  BY <1>1, <1>3, FS_Subset
<1>5. /\ Cardinality(policyIDs) \in Nat /\ Cardinality(Evaluations) \in Nat
      /\ Cardinality({f[e] : e \in Evaluations}) \in Nat
  BY <1>1, <1>3, FS_Subset, FS_CardinalityType
<1>. QED
  BY <1>3, <1>4, <1>5

-----------------------------------------------------------------------------
(* The failure codes.                                                      *)
CodesInv ==
  /\ DOMAIN failureCodes = MetCodes
  /\ \A c \in MetCodes : failureCodes[c] = Times(c)

LEMMA CodesAre ==
  ASSUME seen \in Seq(SignIns)
  PROVE  /\ MetCodes \in SUBSET Int /\ IsFiniteSet(MetCodes)
         /\ \A c : Times(c) \in Nat /\ (c \notin MetCodes \cup {0} => Times(c) = 0)
<1>1. \A i \in InWindow : seen[i].code \in Codes \cup {0}
  BY WindowIs, SignInFacts, Zenon
<1>2. MetCodes \in SUBSET Codes
  BY <1>1 DEF MetCodes
<1>3. ASSUME NEW c PROVE Times(c) \in Nat /\ (c \notin MetCodes \cup {0} => Times(c) = 0)
  <2>. DEFINE S == {i \in InWindow : seen[i].code = c}
  <2>1. S \in SUBSET InWindow
    OBVIOUS
  <2>2. IsFiniteSet(S)
    BY <2>1, WindowIs, FS_Subset
  <2>3. Cardinality(S) \in Nat
    BY <2>2, FS_CardinalityType
  <2>4. c \notin MetCodes \cup {0} => S = {}
    BY DEF MetCodes
  <2>. QED
    BY <2>3, <2>4, FS_EmptySet, Zenon DEF Times
<1>4. MetCodes \in SUBSET Int /\ IsFiniteSet(MetCodes)
  BY <1>2, CodesAssumption, FS_Subset
<1>. QED
  BY <1>3, <1>4

LEMMA CodesFold ==
  ASSUME seen \in Seq(SignIns), CodesInv, NEW s \in SignIns, Folds(s),
         failureCodes' =
           [c \in DOMAIN failureCodes \cup failureCode(s) |->
              (IF c \in DOMAIN failureCodes THEN failureCodes[c] ELSE 0)
              + (IF c = s.code THEN 1 ELSE 0)]
  PROVE  CodesInv'
<1>1. MetCodes' = MetCodes \cup ({s.code} \ {0})
  BY Zenon DEF MetCodes, Folds
<1>2. DOMAIN failureCodes' = MetCodes \cup ({s.code} \ {0})
  BY Zenon DEF CodesInv, failureCode
<1>3. ASSUME NEW c PROVE Times(c)' = Times(c) + (IF c = s.code THEN 1 ELSE 0)
  <2>. DEFINE S == {i \in InWindow : seen[i].code = c}
  <2>1. S \in SUBSET InWindow
    OBVIOUS
  <2>2. S' = IF c = s.code THEN S \cup {Len(seen) + 1} ELSE S
    BY Zenon DEF Folds
  <2>3. (c = s.code) \in BOOLEAN
    OBVIOUS
  <2>. HIDE DEF S
  <2>4. Cardinality(S') = Cardinality(S) + (IF c = s.code THEN 1 ELSE 0)
    BY <2>1, <2>2, <2>3, OneMoreSignIn
  <2>. QED
    BY <2>4, Zenon DEF Times, S
<1>4. ASSUME NEW c \in MetCodes' PROVE failureCodes'[c] = Times(c)'
  <2>1. c \in DOMAIN failureCodes \cup failureCode(s)
    BY <1>1 DEF CodesInv, failureCode
  <2>2. failureCodes'[c] = (IF c \in DOMAIN failureCodes THEN failureCodes[c] ELSE 0)
                           + (IF c = s.code THEN 1 ELSE 0)
    BY <2>1
  <2>3. (IF c \in DOMAIN failureCodes THEN failureCodes[c] ELSE 0) = Times(c)
    <3>1. c # 0
      BY <1>1 DEF MetCodes
    <3>. QED
      BY <3>1, CodesAre DEF CodesInv
  <2>. QED
    BY <1>3, <2>2, <2>3, Zenon
<1>. QED
  BY <1>1, <1>2, <1>4 DEF CodesInv

LEMMA LengthIs ==
  ASSUME NEW n \in Nat, NEW f, f = [i \in 1 .. n |-> f[i]]
  PROVE  Len(f) = n
OBVIOUS

LEMMA FunctionIsList ==
  ASSUME NEW n \in Nat, NEW T, NEW q \in [1 .. n -> T]
  PROVE  q \in Seq(T) /\ Len(q) = n /\ DOMAIN q = 1 .. n
OBVIOUS

LEMMA FirstPlaces ==
  ASSUME NEW k \in Nat, NEW q, \A i, j \in 1 .. k : q[i] = q[j] => i = j
  PROVE  Cardinality({q[j] : j \in 1 .. k}) = k
<1>. DEFINE f == [j \in 1 .. k |-> q[j]]
            T == {q[j] : j \in 1 .. k}
<1>1. f \in Bijection(1 .. k, T)
  BY DEF Bijection, Injection, Surjection, IsInjective
<1>2. ExistsBijection(1 .. k, T)
  BY <1>1 DEF ExistsBijection
<1>3. IsFiniteSet(1 .. k) /\ Cardinality(1 .. k) = k
  BY FS_Interval
<1>. HIDE DEF f
<1>4. Cardinality(T) = Cardinality(1 .. k)
  BY <1>2, <1>3, FS_Bijection
<1>. QED
  BY <1>3, <1>4

(* Where a code is in any sorted list of the codes.                        *)
LEMMA PlaceInList ==
  ASSUME seen \in Seq(SignIns), CodesInv, NEW N \in Nat, N = Cardinality(MetCodes),
         NEW q \in [1 .. N -> MetCodes],
         \A i, j \in 1 .. N : i < j => q[i] # q[j] /\ ~before(q[j], q[i])
  PROVE  \A c \in MetCodes : Place(c) \in 1 .. N /\ q[Place(c)] = c
<1>1. \A i, j \in 1 .. N : q[i] = q[j] => i = j
  <2>. SUFFICES ASSUME NEW i \in 1 .. N, NEW j \in 1 .. N, q[i] = q[j], i # j PROVE FALSE
    OBVIOUS
  <2>1. i < j \/ j < i
    OBVIOUS
  <2>. QED
    BY <2>1
<1>2. q \in Surjection(1 .. N, MetCodes)
  <2>1. q \in Injection(1 .. N, MetCodes)
    BY <1>1 DEF Injection, IsInjective
  <2>2. Cardinality(1 .. N) = N
    BY FS_Interval
  <2>. QED
    BY <2>1, <2>2, CodesAre, FS_Injection
<1>3. ASSUME NEW c \in MetCodes PROVE Place(c) \in 1 .. N /\ q[Place(c)] = c
  <2>1. PICK k \in 1 .. N : q[k] = c
    BY <1>2 DEF Surjection
  <2>2. \A a, b \in MetCodes :
          before(a, b) <=> Times(a) > Times(b) \/ (Times(a) = Times(b) /\ a < b)
    <3>. SUFFICES ASSUME NEW a \in MetCodes, NEW b \in MetCodes
                  PROVE  before(a, b) <=> Times(a) > Times(b) \/ (Times(a) = Times(b) /\ a < b)
      OBVIOUS
    <3>1. failureCodes[a] = Times(a) /\ failureCodes[b] = Times(b)
      BY DEF CodesInv
    <3>. QED
      BY <3>1 DEF before
  <2>3. \A a, b \in MetCodes : a # b => (before(a, b) \/ before(b, a))
    BY <2>2, CodesAre
  <2>4. \A d : d \in Ahead(c) <=> d \in MetCodes /\ before(d, c)
    BY <2>2, Zenon DEF Ahead
  <2>5. \A j \in 1 .. k - 1 : j \in 1 .. N /\ j < k
    OBVIOUS
  <2>6. ASSUME NEW j \in 1 .. k - 1 PROVE q[j] \in Ahead(c)
    <3>1. q[j] # c /\ ~before(c, q[j]) /\ q[j] \in MetCodes
      BY <2>1, <2>5
    <3>. QED
      BY <2>3, <2>4, <3>1
  <2>7. ASSUME NEW d \in Ahead(c) PROVE \E j \in 1 .. k - 1 : d = q[j]
    <3>1. d \in MetCodes /\ before(d, c)
      BY <2>4
    <3>2. PICK j \in 1 .. N : q[j] = d
      BY <1>2, <3>1 DEF Surjection
    <3>3. ~ (before(c, c))
      BY <2>2, CodesAre
    <3>4. j # k /\ ~ (k < j)
      BY <2>1, <3>1, <3>2, <3>3
    <3>5. j \in 1 .. k - 1
      BY <3>4
    <3>. QED
      BY <3>2, <3>5
  <2>8. Ahead(c) = {q[j] : j \in 1 .. k - 1}
    BY <2>6, <2>7
  <2>9. k - 1 \in Nat
    OBVIOUS
  <2>10. \A x, y \in 1 .. k - 1 : q[x] = q[y] => x = y
    BY <1>1, <2>5
  <2>11. Cardinality({q[j] : j \in 1 .. k - 1}) = k - 1
    BY <2>9, <2>10, FirstPlaces
  <2>12. Place(c) = 1 + (k - 1)
    BY <2>8, <2>11 DEF Place
  <2>13. Place(c) = k
    BY <2>12
  <2>. QED
    BY <2>1, <2>13
<1>. QED
  BY <1>3

(* The list that is written begins such a list.                            *)
LEMMA TopIs ==
  ASSUME seen \in Seq(SignIns), CodesInv, NEW codes \in topFailureCodes
  PROVE  /\ codes \in Seq(MetCodes) /\ Len(codes) = Shorter(TopLimit, Cardinality(MetCodes))
         /\ \A c \in MetCodes : Place(c) <= TopLimit =>
              Place(c) \in DOMAIN codes /\ codes[Place(c)] = c
<1>. DEFINE N == Cardinality(MetCodes)
<1>1. N \in Nat
  BY CodesAre, FS_CardinalityType
<1>2. PICK q \in [1 .. N -> MetCodes] :
        /\ \A i, j \in DOMAIN q : i < j => q[i] # q[j] /\ ~before(q[j], q[i])
        /\ codes = SubSeq(q, 1, Shorter(Len(q), TopLimit))
  BY Zenon DEF topFailureCodes, CodesInv
<1>. HIDE DEF N
<1>3. q \in Seq(MetCodes) /\ Len(q) = N /\ DOMAIN q = 1 .. N
  BY <1>1, FunctionIsList
<1>4. Shorter(N, TopLimit) = Shorter(TopLimit, N) /\ Shorter(N, TopLimit) \in 0 .. N
      /\ \A k \in 1 .. N : k <= TopLimit => k \in 1 .. Shorter(N, TopLimit)
  BY <1>1, ActivityBoundsAssumption DEF Shorter
<1>5. /\ codes \in Seq(MetCodes) /\ Len(codes) = Shorter(N, TopLimit)
      /\ \A k \in 1 .. Shorter(N, TopLimit) : k \in DOMAIN codes /\ codes[k] = q[k]
  BY <1>2, <1>3, <1>4
<1>6. \A c \in MetCodes : Place(c) \in 1 .. N /\ q[Place(c)] = c
  <2>1. \A i, j \in 1 .. N : i < j => q[i] # q[j] /\ ~before(q[j], q[i])
    BY <1>2, <1>3
  <2>2. N = Cardinality(MetCodes)
    BY DEF N
  <2>. QED
    BY <1>1, <2>1, <2>2, PlaceInList
<1>. QED
  BY <1>4, <1>5, <1>6 DEF N
-----------------------------------------------------------------------------
(* The block.                                                              *)
SignInsInv ==
  /\ seen \in Seq(SignIns) /\ RiskInv /\ PoliciesInv /\ CodesInv
  /\ WrittenCountsAreCertain /\ TopCodesAreDetermined

LEMMA InitSignInsInv == ActivityInit => SignInsInv
<1>. SUFFICES ASSUME ActivityInit PROVE SignInsInv
  OBVIOUS
<1>1. seen \in Seq(SignIns) /\ InWindow = {}
  BY DEF ActivityInit, InWindow
<1>2. RiskInv
  <2>1. RiskySeen = {}
    BY <1>1 DEF RiskySeen
  <2>2. "risky_sign_ins_count" \in Counts
    BY DEF Counts
  <2>3. counts["risky_sign_ins_count"] = 0 /\ ~unrated
    BY <2>2 DEF ActivityInit
  <2>. QED
    BY <1>1, <2>1, <2>3, FS_EmptySet DEF RiskInv
<1>3. PoliciesInv
  <2>1. Evaluations = {}
    BY <1>1 DEF Evaluations
  <2>2. \A c : Evaluated(ResultsOf(c)) = {}
    BY <2>1 DEF Evaluated
  <2>3. ~policiesOmitted /\ policyIDs = {}
    BY DEF ActivityInit
  <2>4. \A c \in PolicyCounts : counts[c] = 0
    BY DEF ActivityInit, Counts
  <2>. QED
    BY <1>1, <2>1, <2>2, <2>3, <2>4, FS_EmptySet DEF PoliciesInv
<1>4. CodesInv
  <2>1. MetCodes = {}
    BY <1>1 DEF MetCodes
  <2>. QED
    BY <2>1 DEF ActivityInit, CodesInv
<1>5. WrittenCountsAreCertain /\ TopCodesAreDetermined
  BY DEF ActivityInit, WrittenCountsAreCertain, TopCodesAreDetermined
<1>. QED
  BY <1>1, <1>2, <1>3, <1>4, <1>5 DEF SignInsInv

LEMMA FoldKeepsInv ==
  ASSUME SignInsInv, FoldSignIn
  PROVE  SignInsInv'
<1>1. PICK s \in SignIns :
        /\ seen' = Append(seen, s)
        /\ \A c \in Counts : counts'[c] = counts[c] + added(s, c)
        /\ policyIDs' = policyIDs \cup
             ({s.policies[i].policy : i \in 1 .. Len(s.policies)} \ {NoID})
        /\ failureCodes' =
             [c \in DOMAIN failureCodes \cup failureCode(s) |->
                (IF c \in DOMAIN failureCodes THEN failureCodes[c] ELSE 0)
                + (IF c = s.code THEN 1 ELSE 0)]
        /\ unrated' <=> unrated \/ (~riskySignIn(s) /\ riskHidden(s))
        /\ policiesOmitted' <=> policiesOmitted \/ noPolicies(s)
  BY CountsFold
<1>2. /\ seen \in Seq(SignIns) /\ RiskInv /\ PoliciesInv /\ CodesInv
  BY DEF SignInsInv
<1>3. seen' \in Seq(SignIns) /\ Folds(s)
  BY <1>1, <1>2, WindowGrows
<1>4. RiskInv'
  BY <1>1, <1>2, <1>3, RiskFolds
<1>5. PoliciesInv'
  BY <1>1, <1>2, <1>3, PoliciesFold
<1>6. CodesInv'
  BY <1>1, <1>2, <1>3, CodesFold
<1>7. WrittenCountsAreCertain' /\ TopCodesAreDetermined'
  BY DEF FoldSignIn, WrittenCountsAreCertain, TopCodesAreDetermined
<1>. QED
  BY <1>3, <1>4, <1>5, <1>6, <1>7 DEF SignInsInv

(* What does not depend on the block.                                      *)
FoldInv == seen \in Seq(SignIns) /\ RiskInv /\ PoliciesInv /\ CodesInv

LEMMA FoldInvKept ==
  ASSUME FoldInv, UNCHANGED <<seen, counts, policyIDs, failureCodes, unrated, policiesOmitted>>
  PROVE  FoldInv'
<1>1. InWindow' = InWindow
  BY DEF InWindow
<1>2. RiskInv'
  BY <1>1 DEF FoldInv, RiskInv, RiskySeen
<1>3. Evaluations' = Evaluations /\ \A R : Evaluated(R)' = Evaluated(R)
  BY <1>1 DEF Evaluations, Evaluated
<1>4. \A e : PolicyOf(e)' = PolicyOf(e)
  BY DEF PolicyOf
<1>5. PoliciesInv'
  BY <1>1, <1>3, <1>4 DEF FoldInv, PoliciesInv
<1>6. CodesInv'
  BY <1>1 DEF FoldInv, CodesInv, MetCodes, Times
<1>. QED
  BY <1>2, <1>5, <1>6 DEF FoldInv

LEMMA SameWindow ==
  ASSUME seen' = seen
  PROVE  /\ InWindow' = InWindow /\ Hidden' = Hidden /\ \A R : RiskyIf(R)' = RiskyIf(R)
         /\ Evaluations' = Evaluations /\ \A R : Evaluated(R)' = Evaluated(R)
         /\ MetCodes' = MetCodes /\ \A c : Times(c)' = Times(c) /\ Place(c)' = Place(c)
BY DEF InWindow, Hidden, RiskyIf, Levels, Evaluations, Evaluated, MetCodes, Times, Place, Ahead

LEMMA SameCertainty ==
  ASSUME seen' = seen
  PROVE  /\ \A n : RiskIsCertain(n)' <=> RiskIsCertain(n)
         /\ \A of, n : PoliciesAreCertain(of, n)' <=> PoliciesAreCertain(of, n)
<1>1. /\ InWindow' = InWindow /\ Hidden' = Hidden /\ \A R : RiskyIf(R)' = RiskyIf(R)
      /\ Evaluations' = Evaluations /\ \A R : Evaluated(R)' = Evaluated(R)
  BY SameWindow
<1>2. \A n : RiskIsCertain(n)' <=> RiskIsCertain(n)
  BY <1>1, Zenon DEF RiskIsCertain
<1>3. \A of, n : PoliciesAreCertain(of, n)' <=> PoliciesAreCertain(of, n)
  BY <1>1, Zenon DEF PoliciesAreCertain
<1>. QED
  BY <1>2, <1>3

LEMMA SummaryIsCertain ==
  ASSUME FoldInv, summarizeSignIns
  PROVE  WrittenCountsAreCertain' /\ TopCodesAreDetermined'
<1>1. PICK codes \in topFailureCodes :
        block' =
         [state |-> "written",
          counts |-> [c \in Counts |->
            IF \/ c = "risky_sign_ins_count" /\ unrated
               \/ c \in PolicyCounts /\ policiesOmitted
            THEN Unknown ELSE counts[c]],
          users |-> Cardinality(userIDs), apps |-> Cardinality(appIDs),
          policies |-> IF policiesOmitted THEN Unknown ELSE Cardinality(policyIDs),
          top |-> [i \in DOMAIN codes |-> [code |-> codes[i], count |-> failureCodes[codes[i]]]]]
  BY DEF summarizeSignIns
<1>2. /\ block'.policies = IF policiesOmitted THEN Unknown ELSE Cardinality(policyIDs)
      /\ block'.counts = [c \in Counts |->
            IF \/ c = "risky_sign_ins_count" /\ unrated
               \/ c \in PolicyCounts /\ policiesOmitted
            THEN Unknown ELSE counts[c]]
      /\ block'.top = [i \in DOMAIN codes |-> [code |-> codes[i], count |-> failureCodes[codes[i]]]]
  BY <1>1
<1>3. seen' = seen
  BY DEF summarizeSignIns
<1>4. /\ InWindow' = InWindow /\ Hidden' = Hidden /\ \A R : RiskyIf(R)' = RiskyIf(R)
      /\ Evaluations' = Evaluations /\ \A R : Evaluated(R)' = Evaluated(R)
      /\ MetCodes' = MetCodes /\ \A c : Times(c)' = Times(c) /\ Place(c)' = Place(c)
  BY <1>3, SameWindow
<1>5. block'.counts["risky_sign_ins_count"] = IF unrated THEN Unknown ELSE Cardinality(RiskySeen)
  <2>1. "risky_sign_ins_count" \in Counts /\ "risky_sign_ins_count" \notin PolicyCounts
    BY DEF Counts, PolicyCounts
  <2>2. counts["risky_sign_ins_count"] = Cardinality(RiskySeen)
    BY DEF FoldInv, RiskInv
  <2>. QED
    BY <1>2, <2>1, <2>2
<1>6. ASSUME NEW c \in PolicyCounts
      PROVE  block'.counts[c] = IF policiesOmitted THEN Unknown
                                ELSE Cardinality(Evaluated(ResultsOf(c)))
  <2>1. c \in Counts /\ c # "risky_sign_ins_count"
    BY DEF Counts, PolicyCounts
  <2>2. counts[c] = Cardinality(Evaluated(ResultsOf(c)))
    BY DEF FoldInv, PoliciesInv
  <2>. QED
    BY <1>2, <2>1, <2>2
<1>7. /\ Evaluated(ResultsOf("applied_policy_evaluations_count")) = Evaluations
      /\ Evaluated(ResultsOf("applied_policy_success_count")) = Evaluated({"success"})
      /\ Evaluated(ResultsOf("applied_policy_failure_count")) = Evaluated({"failure"})
      /\ Evaluated(ResultsOf("applied_policy_not_applied_count")) =
           Evaluated({"notApplied", "notEnabled"})
      /\ Evaluated(ResultsOf("applied_policy_report_only_fail_count")) =
           Evaluated({"reportOnlyFailure"})
  BY EvaluatedAre DEF FoldInv
<1>8. RiskIsCertain(block'.counts["risky_sign_ins_count"])
  <2>1. /\ Cardinality(RiskySeen) \in Nat
        /\ ~unrated => \A rated \in SUBSET Hidden : RiskyIf(rated) = Cardinality(RiskySeen)
        /\ unrated => \E rated \in SUBSET Hidden : RiskyIf(rated) # RiskyIf({})
    BY HiddenRisk DEF FoldInv
  <2>2. Cardinality(RiskySeen) # Unknown
    BY <2>1 DEF Unknown
  <2>3. CASE unrated
    BY <1>5, <2>1, <2>3, Zenon DEF RiskIsCertain
  <2>4. CASE ~unrated
    BY <1>5, <2>1, <2>2, <2>4, Zenon DEF RiskIsCertain
  <2>. QED
    BY <2>3, <2>4
<1>9. policiesOmitted <=> \E i \in InWindow : seen[i].omitted
  BY DEF FoldInv, PoliciesInv
<1>10. Cardinality(policyIDs) <= Cardinality(Evaluations)
  BY PoliciesBounded DEF FoldInv
<1>11. PoliciesAreCertain(block'.counts, block'.policies)
  <2>1. CASE policiesOmitted
    BY <1>2, <1>6, <1>9, <2>1, Zenon DEF PoliciesAreCertain
  <2>2. CASE ~policiesOmitted
    <3>1. {"applied_policy_evaluations_count", "applied_policy_success_count",
           "applied_policy_failure_count", "applied_policy_not_applied_count",
           "applied_policy_report_only_fail_count"} \subseteq PolicyCounts
      BY DEF PolicyCounts
    <3>2. block'.policies = Cardinality(policyIDs)
      BY <1>2, <2>2, Zenon
    <3>3. \A c \in PolicyCounts : block'.counts[c] = Cardinality(Evaluated(ResultsOf(c)))
      BY <1>6, <2>2, Zenon
    <3>4. /\ block'.counts["applied_policy_evaluations_count"] = Cardinality(Evaluations)
          /\ block'.counts["applied_policy_success_count"] = Cardinality(Evaluated({"success"}))
          /\ block'.counts["applied_policy_failure_count"] = Cardinality(Evaluated({"failure"}))
          /\ block'.counts["applied_policy_not_applied_count"] =
               Cardinality(Evaluated({"notApplied", "notEnabled"}))
          /\ block'.counts["applied_policy_report_only_fail_count"] =
               Cardinality(Evaluated({"reportOnlyFailure"}))
      BY <1>7, <3>1, <3>3, Zenon
    <3>5. block'.policies <= block'.counts["applied_policy_evaluations_count"]
      BY <1>10, <3>2, <3>4, Zenon
    <3>. QED
      BY <1>9, <2>2, <3>4, <3>5, Zenon DEF PoliciesAreCertain
  <2>. QED
    BY <2>1, <2>2, Zenon
<1>12. WrittenCountsAreCertain'
  BY <1>3, <1>4, <1>8, <1>11, SameCertainty, Zenon DEF WrittenCountsAreCertain
<1>13. codes \in Seq(MetCodes) /\ Len(codes) = Shorter(TopLimit, Cardinality(MetCodes))
       /\ \A c \in MetCodes : Place(c) <= TopLimit =>
            Place(c) \in DOMAIN codes /\ codes[Place(c)] = c
  BY TopIs DEF FoldInv
<1>14. Len(block'.top) = Len(codes)
  <2>1. codes = [i \in DOMAIN codes |-> codes[i]] /\ DOMAIN codes = 1 .. Len(codes) /\ Len(codes) \in Nat
    BY <1>13
  <2>2. block'.top = [i \in 1 .. Len(codes) |-> block'.top[i]]
    BY <1>2, <2>1
  <2>. QED
    BY <2>1, <2>2, LengthIs
<1>15. ASSUME NEW c \in MetCodes, Place(c) <= TopLimit
       PROVE  block'.top[Place(c)] = [code |-> c, count |-> Times(c)]
  <2>1. Place(c) \in DOMAIN codes /\ codes[Place(c)] = c
    BY <1>13, <1>15
  <2>2. block'.top[Place(c)] = [code |-> codes[Place(c)], count |-> failureCodes[codes[Place(c)]]]
    BY <1>2, <2>1, Zenon
  <2>3. failureCodes[c] = Times(c)
    BY DEF FoldInv, CodesInv
  <2>. QED
    BY <2>1, <2>2, <2>3, Zenon
<1>16. TopCodesAreDetermined'
  BY <1>4, <1>13, <1>14, <1>15, Zenon DEF TopCodesAreDetermined
<1>. QED
  BY <1>12, <1>16

LEMMA NextSignInsInv == SignInsInv /\ [ActivityNext]_activityVars => SignInsInv'
<1>1. ASSUME SignInsInv, summarizeSignIns PROVE SignInsInv'
  <2>1. FoldInv /\ FoldInv'
    BY <1>1, FoldInvKept DEF SignInsInv, FoldInv, summarizeSignIns
  <2>2. WrittenCountsAreCertain' /\ TopCodesAreDetermined'
    BY <1>1, <2>1, SummaryIsCertain
  <2>. QED
    BY <2>1, <2>2 DEF SignInsInv, FoldInv
<1>2. ASSUME SignInsInv, UNCHANGED activityVars PROVE SignInsInv'
  <2>1. UNCHANGED <<seen, counts, policyIDs, failureCodes, unrated, policiesOmitted, block>>
    BY <1>2 DEF activityVars
  <2>2. FoldInv /\ FoldInv'
    BY <1>2, <2>1, FoldInvKept DEF SignInsInv, FoldInv
  <2>3. seen' = seen /\ block' = block /\ WrittenCountsAreCertain /\ TopCodesAreDetermined
    BY <1>2, <2>1 DEF SignInsInv
  <2>4. WrittenCountsAreCertain'
    BY <2>3, SameCertainty, Zenon DEF WrittenCountsAreCertain
  <2>5. TopCodesAreDetermined'
    BY <2>3, SameWindow, Zenon DEF TopCodesAreDetermined
  <2>. QED
    BY <2>2, <2>4, <2>5 DEF SignInsInv, FoldInv
<1>. QED
  BY <1>1, <1>2, FoldKeepsInv DEF ActivityNext

(* A count of the sign-ins is written just when it is certain, whatever    *)
(* the hidden risk levels stand for, and those of the applied policies are *)
(* over every policy of every sign-in or are left out together, for every  *)
(* window of sign-ins (summarizeSignIns).                                  *)
THEOREM CountsAreCertain == ActivitySpec => []WrittenCountsAreCertain
<1>1. SignInsInv => WrittenCountsAreCertain
  BY DEF SignInsInv
<1>. QED
  BY <1>1, InitSignInsInv, NextSignInsInv, PTL DEF ActivitySpec

(* The listed failure codes are the most frequent ones in an order that    *)
(* does not depend on the map's, for every window and number of codes      *)
(* (topFailureCodes).                                                      *)
THEOREM TopCodesAreTheTop == ActivitySpec => []TopCodesAreDetermined
<1>1. SignInsInv => TopCodesAreDetermined
  BY DEF SignInsInv
<1>. QED
  BY <1>1, InitSignInsInv, NextSignInsInv, PTL DEF ActivitySpec

-----------------------------------------------------------------------------
(***************************************************************************)
(* The groups open to the world.                                           *)
(***************************************************************************)

(* A set of natural numbers has a least one.                               *)
LEMMA LeastOfNumbers ==
  ASSUME NEW S \in SUBSET Nat, S # {}
  PROVE  \E m \in S : \A n \in S : m <= n
<1>. DEFINE Less == {p \in Nat \X Nat : p[1] < p[2]}
<1>1. IsWellFoundedOn(OpToRel(<, Nat), Nat)
  BY NatLessThanWellFounded
<1>2. OpToRel(<, Nat) = Less
  BY DEF OpToRel
<1>3. ASSUME NEW m \in Nat, NEW n \in Nat, m < n PROVE <<m, n>> \in Less
  <2>1. <<m, n>> \in Nat \X Nat /\ <<m, n>>[1] < <<m, n>>[2]
    BY <1>3
  <2>. QED
    BY <2>1, Zenon
<1>. HIDE DEF Less
<1>4. PICK m \in S : \A n \in S : ~ (<<n, m>> \in Less)
  BY <1>1, <1>2, WFMin
<1>5. ASSUME NEW n \in S PROVE m <= n
  <2>1. m \in Nat /\ n \in Nat
    OBVIOUS
  <2>2. ~ (n < m)
    BY <1>3, <1>4, <2>1
  <2>. QED
    BY <2>1, <2>2
<1>. QED
  BY <1>5

(* A rule that allows and matches the packets of some stranger is what the *)
(* collector looks for.                                                    *)
LEMMA OpeningRules ==
  ASSUME NEW rule \in Rule, NEW port \in Int
  PROVE  opensToWorld(rule, port) <=>
           rule.access = "Allow" /\ \E s \in Strangers : Matches(rule, s, port)
<1>1. securityRuleSourceIsWorld(rule) <=>
        \E s \in Strangers : \E p \in rule.sources : Covers(p, s)
  BY DEF securityRuleSourceIsWorld, Strangers, Covers
<1>2. securityRuleProtocolIncludesTCP(rule.protocol) <=> rule.protocol # "udp"
  BY DEF Rule, Protocols, securityRuleProtocolIncludesTCP
<1>3. securityRulePortsInclude(rule.ports, port) <=>
        \E r \in rule.ports : port \in r.from .. r.to
  <2>1. ASSUME NEW r \in PortRange PROVE r.from \in Int /\ r.to \in Int
    <3>1. r.from \in Ports /\ r.to \in Ports
      BY DEF PortRange
    <3>2. \A n \in Ports : n \in Int
      BY DEF Ports
    <3>. QED
      BY <3>1, <3>2, Zenon
  <2>2. rule.ports \in SUBSET PortRange
    BY DEF Rule
  <2>. QED
    BY <2>1, <2>2 DEF securityRulePortsInclude
<1>. QED
  BY <1>1, <1>2, <1>3 DEF opensToWorld, Matches

(* Without its denying rules a group lets in whom any allowing one lets    *)
(* in, and its denying rules let in nobody else.                           *)
LEMMA OpenGroups ==
  ASSUME NEW nsg \in Seq(Rule), NEW port \in Int
  PROVE  /\ (nsgOpenToWorld(nsg, port) = 1) <=> MightLetIn(nsg, port)
         /\ (nsgOpenToWorld(nsg, port) = 0) <=> ~MightLetIn(nsg, port)
         /\ LetsIn(nsg, port) => MightLetIn(nsg, port)
<1>1. \A i \in DOMAIN nsg : nsg[i] \in Rule
  OBVIOUS
<1>2. DOMAIN nsg \in SUBSET Nat
  OBVIOUS
<1>3. ASSUME NEW i \in DOMAIN nsg, NEW s \in Strangers,
             Matches(nsg[i], s, port), nsg[i].access = "Allow"
      PROVE  MightLetIn(nsg, port)
  <2>. DEFINE S == {j \in Allowing(nsg) : Matches(nsg[j], s, port)}
  <2>1. S \in SUBSET Nat /\ S # {}
    BY <1>2, <1>3 DEF Allowing
  <2>2. PICK m \in S : \A n \in S : m <= n
    BY <2>1, LeastOfNumbers
  <2>3. ASSUME NEW j \in Allowing(nsg), j < m PROVE ~Matches(nsg[j], s, port)
    <3>1. j \in Nat /\ m \in Nat
      BY <1>2, <2>1 DEF Allowing
    <3>. QED
      BY <2>2, <2>3, <3>1
  <2>4. m \in Allowing(nsg) /\ Matches(nsg[m], s, port) /\ nsg[m].access = "Allow"
    BY DEF Allowing
  <2>. QED
    BY <2>3, <2>4 DEF MightLetIn, Admits
<1>4. ASSUME MightLetIn(nsg, port)
      PROVE  \E i \in DOMAIN nsg : opensToWorld(nsg[i], port)
  <2>1. PICK s \in Strangers : Admits(nsg, Allowing(nsg), s, port)
    BY <1>4 DEF MightLetIn
  <2>2. PICK i \in Allowing(nsg) : Matches(nsg[i], s, port) /\ nsg[i].access = "Allow"
    BY <2>1 DEF Admits
  <2>. QED
    BY <1>1, <2>2, OpeningRules DEF Allowing
<1>5. ASSUME NEW i \in DOMAIN nsg, opensToWorld(nsg[i], port)
      PROVE  MightLetIn(nsg, port)
  BY <1>1, <1>3, <1>5, OpeningRules
<1>6. LetsIn(nsg, port) => MightLetIn(nsg, port)
  BY <1>3 DEF LetsIn, Admits
<1>. QED
  BY <1>4, <1>5, <1>6 DEF nsgOpenToWorld

ExposureInv ==
  /\ nsgs \in Seq(SecurityGroups)
  /\ sshOpen = Cardinality(MightLet(SSH))
  /\ rdpOpen = Cardinality(MightLet(RDP))

(* One more group is one more open one just if it might let a stranger in. *)
LEMMA OneMoreGroup ==
  ASSUME nsgs \in Seq(SecurityGroups), NEW nsg \in SecurityGroups,
         nsgs' = Append(nsgs, nsg), NEW port \in Int
  PROVE  Cardinality(MightLet(port)') = Cardinality(MightLet(port)) + nsgOpenToWorld(nsg, port)
<1>. DEFINE n == Len(nsgs) + 1
<1>1. /\ nsgs' \in Seq(SecurityGroups) /\ nsgs'[n] = nsg
      /\ DOMAIN nsgs = 1 .. Len(nsgs) /\ DOMAIN nsgs' = DOMAIN nsgs \cup {n}
      /\ n \notin DOMAIN nsgs /\ \A i \in DOMAIN nsgs : nsgs'[i] = nsgs[i]
  OBVIOUS
<1>2. MightLet(port)' = IF MightLetIn(nsg, port) THEN MightLet(port) \cup {n} ELSE MightLet(port)
  BY <1>1, Zenon DEF MightLet
<1>3. MightLet(port) \in SUBSET DOMAIN nsgs
  BY DEF MightLet
<1>4. IsFiniteSet(DOMAIN nsgs)
  BY <1>1, FS_Interval
<1>5. IsFiniteSet(MightLet(port)) /\ n \notin MightLet(port)
  BY <1>1, <1>3, <1>4, FS_Subset
<1>6. nsg \in Seq(Rule)
  BY SecurityGroupsAssumption
<1>7. Cardinality(MightLet(port)) \in Nat
  BY <1>5, FS_CardinalityType
<1>. HIDE DEF n
<1>8. CASE MightLetIn(nsg, port)
  <2>1. nsgOpenToWorld(nsg, port) = 1
    BY <1>6, <1>8, OpenGroups
  <2>2. Cardinality(MightLet(port) \cup {n}) = Cardinality(MightLet(port)) + 1
    BY <1>5, FS_AddElement
  <2>. QED
    BY <1>2, <1>8, <2>1, <2>2
<1>9. CASE ~MightLetIn(nsg, port)
  <2>1. nsgOpenToWorld(nsg, port) = 0
    BY <1>6, <1>9, OpenGroups
  <2>. QED
    BY <1>2, <1>7, <1>9, <2>1
<1>. QED
  BY <1>8, <1>9

LEMMA InitExposureInv == ExposureInit => ExposureInv
<1>. SUFFICES ASSUME ExposureInit PROVE ExposureInv
  OBVIOUS
<1>1. nsgs \in Seq(SecurityGroups) /\ MightLet(SSH) = {} /\ MightLet(RDP) = {}
  BY DEF ExposureInit, MightLet
<1>. QED
  BY <1>1, FS_EmptySet DEF ExposureInit, ExposureInv

LEMMA NextExposureInv == ExposureInv /\ [ExposureNext]_exposureVars => ExposureInv'
<1>1. ASSUME ExposureInv, NEW nsg \in SecurityGroups, collectNetwork(nsg)
      PROVE  ExposureInv'
  <2>1. nsgs \in Seq(SecurityGroups) /\ nsgs' = Append(nsgs, nsg)
    BY <1>1 DEF ExposureInv, collectNetwork
  <2>2. SSH \in Int /\ RDP \in Int
    BY DEF SSH, RDP
  <2>3. /\ Cardinality(MightLet(SSH)') = Cardinality(MightLet(SSH)) + nsgOpenToWorld(nsg, SSH)
        /\ Cardinality(MightLet(RDP)') = Cardinality(MightLet(RDP)) + nsgOpenToWorld(nsg, RDP)
    BY <2>1, <2>2, OneMoreGroup
  <2>4. nsgs' \in Seq(SecurityGroups)
    BY <2>1
  <2>. QED
    BY <1>1, <2>3, <2>4 DEF ExposureInv, collectNetwork
<1>2. ASSUME ExposureInv, UNCHANGED exposureVars PROVE ExposureInv'
  BY <1>2 DEF exposureVars, ExposureInv, MightLet
<1>. QED
  BY <1>1, <1>2 DEF ExposureNext

(* No open group is taken for closed: each group that lets a stranger in   *)
(* on a port is counted, and each counted group would let one in if its    *)
(* denying rules were not there, for every number of groups and rules      *)
(* (azure_network.go, nsgOpenToWorld).                                     *)
THEOREM OpenGroupsAreCounted == ExposureSpec => []StrangersAreCounted
<1>1. ExposureInv => StrangersAreCounted
  <2>. SUFFICES ASSUME ExposureInv, NEW port \in {SSH, RDP}
                PROVE  Cardinality(Let(port)) <= Cardinality(MightLet(port))
    BY DEF ExposureInv, StrangersAreCounted
  <2>1. port \in Int
    BY DEF SSH, RDP
  <2>2. \A i \in DOMAIN nsgs : nsgs[i] \in Seq(Rule)
    BY SecurityGroupsAssumption DEF ExposureInv
  <2>3. Let(port) \subseteq MightLet(port)
    BY <2>1, <2>2, OpenGroups DEF Let, MightLet
  <2>4. IsFiniteSet(DOMAIN nsgs)
    BY FS_Interval DEF ExposureInv
  <2>5. MightLet(port) \in SUBSET DOMAIN nsgs
    BY DEF MightLet
  <2>6. IsFiniteSet(MightLet(port))
    BY <2>4, <2>5, FS_Subset
  <2>. QED
    BY <2>3, <2>6, FS_Subset
<1>. QED
  BY <1>1, InitExposureInv, NextExposureInv, PTL DEF ExposureSpec

-----------------------------------------------------------------------------
(***************************************************************************)
(* The inventory.  A sort leaves the members of a map once each and in     *)
(* order, which says where each of them is, and so what is read first.     *)
(***************************************************************************)

LEMMA MinIs ==
  ASSUME NEW S \in SUBSET Nat, S # {}
  PROVE  Min(S) \in S /\ \A n \in S : Min(S) <= n
<1>1. \E m \in S : \A n \in S : m <= n
  BY LeastOfNumbers
<1>. QED
  BY <1>1 DEF Min

(* A walk of a finite set meets every member once.                         *)
LEMMA WalkIs ==
  ASSUME NEW S, IsFiniteSet(S), NEW walk \in SetToSeqs(S)
  PROVE  /\ Cardinality(S) \in Nat /\ DOMAIN walk = 1 .. Cardinality(S)
         /\ walk \in Seq(S) /\ Len(walk) = Cardinality(S)
         /\ \A i \in DOMAIN walk : walk[i] \in S
         /\ \A i, j \in DOMAIN walk : walk[i] = walk[j] => i = j
         /\ \A x \in S : \E i \in DOMAIN walk : walk[i] = x
<1>. DEFINE N == Cardinality(S)
<1>1. N \in Nat
  BY FS_CardinalityType
<1>2. walk \in [1 .. N -> S] /\ \A i, j \in 1 .. N : i # j => walk[i] # walk[j]
  BY Zenon DEF SetToSeqs
<1>. HIDE DEF N
<1>3. DOMAIN walk = 1 .. N /\ walk \in Seq(S) /\ Len(walk) = N
  BY <1>1, <1>2, FunctionIsList
<1>4. walk \in Injection(1 .. N, S)
  BY <1>2 DEF Injection, IsInjective
<1>5. IsFiniteSet(1 .. N) /\ Cardinality(1 .. N) = N
  BY <1>1, FS_Interval
<1>6. walk \in Surjection(1 .. N, S)
  BY <1>4, <1>5, FS_Injection DEF N
<1>7. \A x \in S : \E i \in 1 .. N : walk[i] = x
  BY <1>6 DEF Surjection
<1>. QED
  BY <1>1, <1>2, <1>3, <1>7 DEF N

-----------------------------------------------------------------------------
(* The environment of a resource.                                          *)
Holding(value) == IF value = Blank THEN {} ELSE {value}

LEMMA EnvironmentIsRead ==
  ASSUME NEW r \in Resources, NEW tags \in SetToSeqs(r.tags), inOrder(tags)
  PROVE  Environment(r) = Holding(normalizedTagValue(tags, environmentTagKeys))
<1>. DEFINE keys == environmentTagKeys
            Rank(t) == CHOOSE k \in DOMAIN keys : keys[k] = t.key
            W == {t \in r.tags : t.value # Blank /\ \E k \in DOMAIN keys : keys[k] = t.key}
            IsFirst(t) == \A u \in W : \/ Rank(t) < Rank(u)
                                       \/ Rank(t) = Rank(u) /\ t.spelling <= u.spelling
            K == {k \in DOMAIN keys : Found(tags, keys[k]) # {}}
            F == Found(tags, keys[Min(K)])
<1>1. Environment(r) = {t.value : t \in {u \in W : IsFirst(u)}}
  BY Zenon DEF Environment
<1>2. normalizedTagValue(tags, keys) = IF K = {} THEN Blank ELSE tags[Min(F)].value
  BY Zenon DEF normalizedTagValue
<1>3. /\ IsFiniteSet(r.tags) /\ \A t \in r.tags : t.spelling \in Nat
      /\ \A t, u \in r.tags : t.spelling = u.spelling => t = u
  BY ResourcesAssumption, Zenon
<1>4. /\ Cardinality(r.tags) \in Nat /\ DOMAIN tags = 1 .. Cardinality(r.tags)
      /\ \A i \in DOMAIN tags : tags[i] \in r.tags
      /\ \A t \in r.tags : \E i \in DOMAIN tags : tags[i] = t
  BY <1>3, WalkIs
<1>5. DOMAIN tags \subseteq Nat
  BY <1>4
<1>6. K \in SUBSET Nat
  BY KeysAssumption
<1>7. ASSUME NEW t \in W
      PROVE  /\ Rank(t) \in DOMAIN keys /\ keys[Rank(t)] = t.key
             /\ \A k \in DOMAIN keys : keys[k] = t.key => k = Rank(t)
  <2>1. \E k \in DOMAIN keys : keys[k] = t.key
    BY <1>7
  <2>2. Rank(t) \in DOMAIN keys /\ keys[Rank(t)] = t.key
    BY <2>1
  <2>. HIDE DEF Rank
  <2>. QED
    BY <2>2, KeysAssumption
<1>. HIDE DEF Rank
<1>8. ASSUME NEW i \in DOMAIN tags, NEW k \in DOMAIN keys
      PROVE  i \in Found(tags, keys[k]) <=> tags[i] \in W /\ Rank(tags[i]) = k
  <2>1. i \in Found(tags, keys[k]) <=> tags[i].key = keys[k] /\ tags[i].value # Blank
    BY DEF Found
  <2>2. tags[i] \in r.tags
    BY <1>4
  <2>. QED
    BY <1>7, <2>1, <2>2
<1>9. CASE K = {}
  <2>1. W = {}
    <3>. SUFFICES ASSUME NEW t \in W PROVE FALSE
      OBVIOUS
    <3>1. PICK i \in DOMAIN tags : tags[i] = t
      BY <1>4
    <3>2. Rank(t) \in DOMAIN keys
      BY <1>7
    <3>3. i \in Found(tags, keys[Rank(t)])
      BY <1>8, <3>1, <3>2
    <3>. QED
      BY <1>9, <3>2, <3>3
  <2>. HIDE DEF W, K
  <2>. QED
    BY <1>1, <1>2, <1>9, <2>1 DEF Holding
<1>10. CASE K # {}
  <2>. DEFINE k == Min(K)
              i == Min(F)
  <2>1. k \in K /\ \A m \in K : k <= m
    BY <1>6, <1>10, MinIs
  <2>2. k \in DOMAIN keys /\ F # {} /\ F \in SUBSET Nat /\ F \subseteq DOMAIN tags
    BY <1>5, <2>1 DEF Found
  <2>. HIDE DEF K
  <2>3. i \in F /\ \A m \in F : i <= m
    BY <2>2, MinIs
  <2>4. i \in DOMAIN tags /\ tags[i] \in W /\ Rank(tags[i]) = k
    BY <1>8, <2>2, <2>3
  <2>5. PICK t \in W : t = tags[i]
    BY <2>4
  <2>6. k \in Nat /\ i \in Nat /\ t \in r.tags /\ t.value # Blank /\ t.spelling \in Nat
    BY <1>3, <1>6, <2>1, <2>2, <2>3, <2>5
  <2>7. ASSUME NEW u \in W
        PROVE  \/ k < Rank(u)
               \/ k = Rank(u) /\ t.spelling < u.spelling
               \/ u = t
    <3>1. PICK j \in DOMAIN tags : tags[j] = u
      BY <1>4
    <3>2. Rank(u) \in DOMAIN keys /\ Rank(u) \in Nat
      BY <1>7, KeysAssumption
    <3>3. j \in Found(tags, keys[Rank(u)])
      BY <1>8, <3>1, <3>2
    <3>4. k <= Rank(u)
      BY <2>1, <3>2, <3>3 DEF K
    <3>5. CASE k = Rank(u)
      <4>1. i <= j /\ j \in Nat
        BY <1>5, <2>3, <3>3, <3>5
      <4>2. i < j => t.spelling < u.spelling
        BY <2>4, <2>5, <3>1 DEF inOrder
      <4>. QED
        BY <2>5, <2>6, <3>1, <3>5, <4>1, <4>2
    <3>. QED
      BY <2>6, <3>2, <3>4, <3>5
  <2>8. Rank(t) = k
    BY <2>4, <2>5
  <2>9. IsFirst(t)
    <3>1. \A u \in W : u.spelling \in Nat
      BY <1>3
    <3>. HIDE DEF W, k, i
    <3>. QED
      BY <2>6, <2>7, <2>8, <3>1
  <2>10. ASSUME NEW u \in W, IsFirst(u) PROVE u = t
    <3>1. \/ Rank(u) < k
          \/ Rank(u) = k /\ u.spelling <= t.spelling
      BY <2>8, <2>10
    <3>2. Rank(u) \in Nat /\ u.spelling \in Nat
      BY <1>3, <1>7, KeysAssumption
    <3>. HIDE DEF k
    <3>. QED
      BY <2>6, <2>7, <3>1, <3>2
  <2>. HIDE DEF IsFirst, W
  <2>11. {u \in W : IsFirst(u)} = {t}
    BY <2>9, <2>10
  <2>12. Environment(r) = {t.value}
    BY <1>1, <2>11
  <2>13. normalizedTagValue(tags, keys) = t.value
    BY <1>2, <1>10, <2>5
  <2>. QED
    BY <2>6, <2>12, <2>13 DEF Holding
<1>. QED
  BY <1>9, <1>10

-----------------------------------------------------------------------------
(* What is counted of the resources.                                       *)
InventoryInv ==
  /\ resources \in Seq(Resources)
  /\ DOMAIN typeCounts = TypesMet
  /\ \A t \in TypesMet : typeCounts[t] = NumberOf(t)
  /\ InventoryIsDetermined

LEMMA ListGrows ==
  ASSUME NEW s \in Seq(Resources), NEW x \in Resources, NEW q, q = Append(s, x)
  PROVE  /\ q \in Seq(Resources) /\ Len(s) \in Nat
         /\ DOMAIN s = 1 .. Len(s) /\ DOMAIN q = DOMAIN s \cup {Len(s) + 1}
         /\ \A i \in DOMAIN s : q[i] = s[i]
         /\ q[Len(s) + 1] = x
OBVIOUS

LEMMA OneMoreCounted ==
  ASSUME NEW n \in Nat, NEW S \in SUBSET (1 .. n), NEW p \in BOOLEAN,
         NEW T, T = IF p THEN S \cup {n + 1} ELSE S
  PROVE  Cardinality(T) = Cardinality(S) + (IF p THEN 1 ELSE 0)
<1>1. IsFiniteSet(1 .. n)
  BY FS_Interval
<1>2. IsFiniteSet(S) /\ n + 1 \notin S
  <2>1. IsFiniteSet(S)
    BY <1>1, FS_Subset
  <2>2. n + 1 \notin 1 .. n
    OBVIOUS
  <2>. QED
    BY <2>1, <2>2
<1>3. Cardinality(S) \in Nat
  BY <1>2, FS_CardinalityType
<1>4. Cardinality(S \cup {n + 1}) = Cardinality(S) + 1
  BY <1>2, FS_AddElement
<1>. QED
  BY <1>3, <1>4

LEMMA TypesAre ==
  ASSUME resources \in Seq(Resources)
  PROVE  /\ TypesMet \in SUBSET Nat /\ IsFiniteSet(TypesMet)
         /\ \A t : NumberOf(t) \in Nat
         /\ \A t : t \notin TypesMet \cup {NoType} => NumberOf(t) = 0
<1>1. DOMAIN resources = 1 .. Len(resources) /\ Len(resources) \in Nat
      /\ \A i \in DOMAIN resources : resources[i] \in Resources
  OBVIOUS
<1>2. IsFiniteSet(DOMAIN resources)
  BY <1>1, FS_Interval
<1>3. \A i \in DOMAIN resources : resources[i].type \in Nat
  BY <1>1, ResourcesAssumption
<1>4. TypesMet \in SUBSET Nat
  BY <1>3 DEF TypesMet
<1>5. IsFiniteSet(TypesMet)
  <2>. DEFINE f == [i \in DOMAIN resources |-> resources[i].type]
              T == {resources[i].type : i \in DOMAIN resources}
  <2>1. f \in Surjection(DOMAIN resources, T)
    BY DEF Surjection
  <2>2. IsFiniteSet(T)
    BY <1>2, <2>1, FS_Surjection
  <2>3. TypesMet \in SUBSET T
    BY DEF TypesMet
  <2>. QED
    BY <2>2, <2>3, FS_Subset
<1>6. ASSUME NEW t
      PROVE  NumberOf(t) \in Nat /\ (t \notin TypesMet \cup {NoType} => NumberOf(t) = 0)
  <2>. DEFINE S == {i \in DOMAIN resources : resources[i].type = t}
  <2>1. IsFiniteSet(S)
    BY <1>2, FS_Subset
  <2>2. t \notin TypesMet \cup {NoType} => S = {}
    BY DEF TypesMet
  <2>. QED
    BY <2>1, <2>2, FS_CardinalityType, FS_EmptySet DEF NumberOf
<1>. QED
  BY <1>4, <1>5, <1>6

LEMMA InventoryInit_Inv ==
  ASSUME InventoryInit
  PROVE  InventoryInv
<1>1. resources = <<>> /\ DOMAIN resources = {} /\ ~written
  BY DEF InventoryInit
<1>2. TypesMet = {} /\ HavingAny = {} /\ \A envs : Having(envs) = {}
  BY <1>1 DEF TypesMet, HavingAny, Having
<1>3. InventoryIsDetermined
  BY <1>1, <1>2, FS_EmptySet DEF InventoryInit, InventoryIsDetermined
<1>. QED
  BY <1>1, <1>2, <1>3 DEF InventoryInit, InventoryInv

LEMMA CountResourceKeeps ==
  ASSUME InventoryInv, NEW r \in Resources, CountResource(r)
  PROVE  InventoryInv'
<1>. DEFINE n == Len(resources)
<1>1. PICK tags \in SetToSeqs(r.tags) :
        /\ inOrder(tags)
        /\ LET value == normalizedTagValue(tags, environmentTagKeys) IN
           /\ environmentTagged' = environmentTagged + (IF value # Blank THEN 1 ELSE 0)
           /\ production' = production + (IF isProduction(value) THEN 1 ELSE 0)
  BY Zenon DEF CountResource
<1>2. PICK value : value = normalizedTagValue(tags, environmentTagKeys)
  OBVIOUS
<1>3. /\ environmentTagged' = environmentTagged + (IF value # Blank THEN 1 ELSE 0)
      /\ production' = production + (IF isProduction(value) THEN 1 ELSE 0)
  BY <1>1, <1>2, Zenon
<1>4. Environment(r) = Holding(value)
  BY <1>1, <1>2, EnvironmentIsRead
<1>5. /\ resources' = Append(resources, r) /\ typeCounts' = counted(r.type)
      /\ ~written' /\ resources \in Seq(Resources)
  BY DEF CountResource, InventoryInv
<1>6. /\ resources' \in Seq(Resources) /\ n \in Nat
      /\ DOMAIN resources = 1 .. n /\ DOMAIN resources' = DOMAIN resources \cup {n + 1}
      /\ \A i \in DOMAIN resources : resources'[i] = resources[i]
      /\ resources'[n + 1] = r
  BY <1>5, ListGrows
<1>. HIDE DEF n
<1>7. Cardinality(HavingAny') = Cardinality(HavingAny) + (IF value # Blank THEN 1 ELSE 0)
  <2>1. HavingAny' = {i \in DOMAIN resources' : Environment(resources'[i]) # {}}
    BY Zenon DEF HavingAny, Environment
  <2>2. HavingAny' = IF Environment(r) # {} THEN HavingAny \cup {n + 1} ELSE HavingAny
    BY <1>6, <2>1 DEF HavingAny
  <2>3. HavingAny \in SUBSET (1 .. n)
    BY <1>6 DEF HavingAny
  <2>4. Environment(r) # {} <=> value # Blank
    BY <1>4 DEF Holding
  <2>5. (value # Blank) \in BOOLEAN
    OBVIOUS
  <2>6. HavingAny' = IF value # Blank THEN HavingAny \cup {n + 1} ELSE HavingAny
    BY <2>2, <2>4
  <2>. QED
    BY <1>6, <2>3, <2>5, <2>6, OneMoreCounted
<1>8. ASSUME NEW E, Blank \notin E
      PROVE  Cardinality(Having(E)') = Cardinality(Having(E)) + (IF value \in E THEN 1 ELSE 0)
  <2>1. Having(E)' = {i \in DOMAIN resources' : Environment(resources'[i]) \cap E # {}}
    BY Zenon DEF Having, Environment
  <2>2. Having(E)' = IF Environment(r) \cap E # {} THEN Having(E) \cup {n + 1} ELSE Having(E)
    BY <1>6, <2>1 DEF Having
  <2>3. Having(E) \in SUBSET (1 .. n)
    BY <1>6 DEF Having
  <2>4. Environment(r) \cap E # {} <=> value \in E
    BY <1>4, <1>8 DEF Holding
  <2>5. (value \in E) \in BOOLEAN
    OBVIOUS
  <2>6. Having(E)' = IF value \in E THEN Having(E) \cup {n + 1} ELSE Having(E)
    BY <2>2, <2>4
  <2>. QED
    BY <1>6, <2>3, <2>5, <2>6, OneMoreCounted
<1>9. InventoryIsDetermined'
  <2>. DEFINE E == {"prod", "production"}
  <2>1. Blank \notin E
    BY DEF Blank
  <2>2. isProduction(value) <=> value \in E
    BY DEF isProduction
  <2>. HIDE DEF E
  <2>3. production' = Cardinality(Having(E)')
    <3>1. production = Cardinality(Having(E))
      BY Zenon DEF InventoryInv, InventoryIsDetermined, E
    <3>2. Cardinality(Having(E)') = Cardinality(Having(E)) + (IF value \in E THEN 1 ELSE 0)
      BY <1>8, <2>1
    <3>. QED
      BY <1>3, <2>2, <3>1, <3>2
  <2>4. environmentTagged' = Cardinality(HavingAny')
    BY <1>3, <1>7 DEF InventoryInv, InventoryIsDetermined
  <2>. QED
    BY <1>5, <2>3, <2>4 DEF InventoryIsDetermined, E
<1>10. ASSUME NEW t PROVE NumberOf(t)' = NumberOf(t) + (IF r.type = t THEN 1 ELSE 0)
  <2>. DEFINE S == {i \in DOMAIN resources : resources[i].type = t}
              T == {i \in DOMAIN resources' : resources'[i].type = t}
  <2>1. T = IF r.type = t THEN S \cup {n + 1} ELSE S
    BY <1>6
  <2>2. S \in SUBSET (1 .. n) /\ (r.type = t) \in BOOLEAN
    BY <1>6
  <2>3. NumberOf(t) = Cardinality(S) /\ NumberOf(t)' = Cardinality(T)
    BY DEF NumberOf
  <2>. HIDE DEF S, T
  <2>4. Cardinality(T) = Cardinality(S) + (IF r.type = t THEN 1 ELSE 0)
    BY <1>6, <2>1, <2>2, OneMoreCounted
  <2>. QED
    BY <2>3, <2>4
<1>11. TypesMet' = TypesMet \cup ({r.type} \ {NoType})
  <2>1. TypesMet' = {resources'[i].type : i \in DOMAIN resources'} \ {NoType}
    BY DEF TypesMet
  <2>. QED
    BY <1>6, <2>1 DEF TypesMet
<1>12. DOMAIN typeCounts = TypesMet /\ \A t \in TypesMet : typeCounts[t] = NumberOf(t)
  BY DEF InventoryInv
<1>13. DOMAIN typeCounts' = TypesMet' /\ \A t \in TypesMet' : typeCounts'[t] = NumberOf(t)'
  <2>1. CASE r.type = NoType
    <3>1. typeCounts' = typeCounts /\ TypesMet' = TypesMet
      BY <1>5, <1>11, <2>1 DEF counted
    <3>2. ASSUME NEW t \in TypesMet PROVE NumberOf(t)' = NumberOf(t)
      <4>1. t # NoType /\ NumberOf(t) \in Nat
        BY <1>5, TypesAre DEF TypesMet
      <4>. QED
        BY <1>10, <2>1, <4>1
    <3>. QED
      BY <1>12, <3>1, <3>2
  <2>2. CASE r.type # NoType
    <3>1. typeCounts' = [t \in DOMAIN typeCounts \cup {r.type} |->
            (IF t \in DOMAIN typeCounts THEN typeCounts[t] ELSE 0)
              + (IF t = r.type THEN 1 ELSE 0)]
      BY <1>5, <2>2 DEF counted
    <3>2. TypesMet' = TypesMet \cup {r.type}
      BY <1>11, <2>2
    <3>3. ASSUME NEW t \in TypesMet' PROVE typeCounts'[t] = NumberOf(t)'
      <4>1. (IF t \in DOMAIN typeCounts THEN typeCounts[t] ELSE 0) = NumberOf(t)
        <5>1. t # NoType
          BY <2>2, <3>2, <3>3 DEF TypesMet
        <5>. QED
          BY <1>5, <1>12, <5>1, TypesAre
      <4>2. typeCounts'[t] = (IF t \in DOMAIN typeCounts THEN typeCounts[t] ELSE 0)
                               + (IF t = r.type THEN 1 ELSE 0)
        BY <1>12, <3>1, <3>2, <3>3
      <4>. QED
        BY <1>10, <4>1, <4>2
    <3>. QED
      BY <1>12, <3>1, <3>2, <3>3
  <2>. QED
    BY <2>1, <2>2
<1>. QED
  BY <1>6, <1>9, <1>13 DEF InventoryInv

(* How many types come before the one at each place of the sorted types.   *)
LEMMA AheadAre ==
  ASSUME InventoryInv, NEW sorted \in SetToSeqs(DOMAIN typeCounts),
         \A i, j \in DOMAIN sorted : i < j => ~precedes(sorted[j], sorted[i]),
         NEW k \in DOMAIN sorted
  PROVE  /\ Len(sorted) = Cardinality(TypesMet) /\ Len(sorted) \in Nat
         /\ DOMAIN sorted = 1 .. Len(sorted)
         /\ typeCounts[sorted[k]] = NumberOf(sorted[k])
         /\ Cardinality(TypesAhead(sorted[k])) = k - 1
<1>. DEFINE c == sorted[k]
<1>1. /\ TypesMet \in SUBSET Nat /\ IsFiniteSet(TypesMet) /\ \A t : NumberOf(t) \in Nat
      /\ DOMAIN typeCounts = TypesMet /\ \A t \in TypesMet : typeCounts[t] = NumberOf(t)
  BY TypesAre DEF InventoryInv
<1>2. /\ Cardinality(TypesMet) \in Nat /\ DOMAIN sorted = 1 .. Cardinality(TypesMet)
      /\ Len(sorted) = Cardinality(TypesMet)
      /\ \A i \in DOMAIN sorted : sorted[i] \in TypesMet
      /\ \A i, j \in DOMAIN sorted : sorted[i] = sorted[j] => i = j
      /\ \A x \in TypesMet : \E i \in DOMAIN sorted : sorted[i] = x
  BY <1>1, WalkIs
<1>3. c \in TypesMet /\ k \in 1 .. Cardinality(TypesMet)
  BY <1>2
<1>4. \A a, b \in TypesMet : precedes(a, b) <=>
        NumberOf(a) > NumberOf(b) \/ (NumberOf(a) = NumberOf(b) /\ a < b)
  BY <1>1 DEF precedes
<1>5. \A a, b \in TypesMet : a # b => precedes(a, b) \/ precedes(b, a)
  BY <1>1, <1>4
<1>6. \A a \in TypesMet : ~precedes(a, a)
  BY <1>1, <1>4
<1>7. \A d : d \in TypesAhead(c) <=> d \in TypesMet /\ precedes(d, c)
  BY <1>3, <1>4, Zenon DEF TypesAhead
<1>. HIDE DEF c
<1>8. \A j \in 1 .. k - 1 : j \in DOMAIN sorted /\ j < k
  BY <1>2, <1>3
<1>9. ASSUME NEW j \in 1 .. k - 1 PROVE sorted[j] \in TypesAhead(c)
  <2>1. sorted[j] # c /\ ~precedes(c, sorted[j]) /\ sorted[j] \in TypesMet
    BY <1>2, <1>8 DEF c
  <2>. QED
    BY <1>3, <1>5, <1>7, <2>1
<1>10. ASSUME NEW d \in TypesAhead(c) PROVE \E j \in 1 .. k - 1 : d = sorted[j]
  <2>1. d \in TypesMet /\ precedes(d, c)
    BY <1>7
  <2>2. PICK j \in DOMAIN sorted : sorted[j] = d
    BY <1>2, <2>1
  <2>3. j # k /\ ~(k < j)
    BY <1>3, <1>6, <2>1, <2>2 DEF c
  <2>4. j \in 1 .. k - 1
    BY <1>2, <1>3, <2>3
  <2>. QED
    BY <2>2, <2>4
<1>11. TypesAhead(c) = {sorted[j] : j \in 1 .. k - 1}
  BY <1>9, <1>10
<1>12. k - 1 \in Nat /\ \A x, y \in 1 .. k - 1 : sorted[x] = sorted[y] => x = y
  BY <1>2, <1>3, <1>8
<1>13. Cardinality({sorted[j] : j \in 1 .. k - 1}) = k - 1
  BY <1>12, FirstPlaces
<1>. QED
  BY <1>1, <1>2, <1>3, <1>11, <1>13 DEF c

LEMMA topResourceTypesKeeps ==
  ASSUME InventoryInv, topResourceTypes
  PROVE  InventoryInv'
<1>1. PICK sorted \in SetToSeqs(DOMAIN typeCounts) :
        /\ \A i, j \in DOMAIN sorted : i < j => ~precedes(sorted[j], sorted[i])
        /\ top' = [i \in 1 .. Min({Len(sorted), Limit}) |->
                    [type |-> sorted[i], count |-> typeCounts[sorted[i]]]]
  BY Zenon DEF topResourceTypes
<1>. DEFINE N == Cardinality(TypesMet)
            m == Min({Limit, N})
<1>2. /\ TypesMet \in SUBSET Nat /\ IsFiniteSet(TypesMet)
      /\ DOMAIN typeCounts = TypesMet
  BY TypesAre DEF InventoryInv
<1>3. N \in Nat /\ Len(sorted) = N /\ DOMAIN sorted = 1 .. N
  BY <1>2, WalkIs
<1>4. Min({Len(sorted), Limit}) = m
  <2>1. {Len(sorted), Limit} = {Limit, N}
    BY <1>3
  <2>. QED
    BY <2>1
<1>5. m \in Nat /\ m <= N
  BY <1>3, InventoryBoundsAssumption, MinIs
<1>. HIDE DEF N, m
<1>6. top' = [i \in 1 .. m |-> [type |-> sorted[i], count |-> typeCounts[sorted[i]]]]
  BY <1>1, <1>4
<1>7. DOMAIN top' = 1 .. m /\ Len(top') = m
  BY <1>5, <1>6, LengthIs
<1>8. ASSUME NEW i \in DOMAIN top'
      PROVE  /\ top'[i].count = NumberOf(top'[i].type)
             /\ Cardinality(TypesAhead(top'[i].type)) = i - 1
  <2>1. i \in DOMAIN sorted
    BY <1>3, <1>5, <1>7
  <2>2. top'[i].type = sorted[i] /\ top'[i].count = typeCounts[sorted[i]]
    BY <1>6, <1>7
  <2>3. /\ typeCounts[sorted[i]] = NumberOf(sorted[i])
        /\ Cardinality(TypesAhead(sorted[i])) = i - 1
    BY <1>1, <2>1, AheadAre
  <2>. QED
    BY <2>2, <2>3
<1>9. /\ UNCHANGED <<resources, environmentTagged, production, typeCounts>>
      /\ TypesMet' = TypesMet /\ HavingAny' = HavingAny
      /\ \A E : Having(E)' = Having(E)
      /\ \A t : NumberOf(t)' = NumberOf(t)
      /\ \A t : TypesAhead(t)' = TypesAhead(t)
  BY DEF topResourceTypes, TypesMet, HavingAny, Having, NumberOf, TypesAhead
<1>10. InventoryIsDetermined'
  <2>1. /\ production' = Cardinality(Having({"prod", "production"})')
        /\ environmentTagged' = Cardinality(HavingAny')
    BY <1>9 DEF InventoryInv, InventoryIsDetermined
  <2>2. Len(top') = Min({Limit, Cardinality(TypesMet')})
    BY <1>7, <1>9 DEF N, m
  <2>. QED
    BY <1>8, <1>9, <2>1, <2>2 DEF InventoryIsDetermined, NumberOf, TypesAhead, TypesMet
<1>. QED
  BY <1>9, <1>10 DEF InventoryInv

(* However the maps of a subscription's resources are walked, the          *)
(* inventory is the same: for every list of resources, whatever their tags *)
(* and types, and every limit (azure_inventory.go, inventoryPosture).      *)
THEOREM InventoryIsTheSame == InventorySpec => []InventoryIsDetermined
<1>1. InventoryInit => InventoryInv
  BY InventoryInit_Inv
<1>2. InventoryInv /\ [InventoryNext]_inventoryVars => InventoryInv'
  <2>. SUFFICES ASSUME InventoryInv, [InventoryNext]_inventoryVars PROVE InventoryInv'
    OBVIOUS
  <2>1. ASSUME NEW r \in Resources, CountResource(r) PROVE InventoryInv'
    BY <2>1, CountResourceKeeps
  <2>2. CASE topResourceTypes
    BY <2>2, topResourceTypesKeeps
  <2>3. CASE UNCHANGED inventoryVars
    <3>1. /\ UNCHANGED <<resources, environmentTagged, production, typeCounts, top, written>>
          /\ TypesMet' = TypesMet /\ HavingAny' = HavingAny
          /\ \A E : Having(E)' = Having(E)
          /\ \A t : NumberOf(t)' = NumberOf(t)
      BY <2>3 DEF inventoryVars, TypesMet, HavingAny, Having, NumberOf
    <3>2. \A i : /\ NumberOf(top[i].type)' = NumberOf(top[i].type)
                 /\ TypesAhead(top[i].type)' = TypesAhead(top[i].type)
      BY <3>1 DEF NumberOf, TypesAhead, TypesMet
    <3>3. InventoryIsDetermined'
      BY <3>1, <3>2 DEF InventoryInv, InventoryIsDetermined
    <3>. QED
      BY <3>1, <3>3 DEF InventoryInv
  <2>. QED
    BY <2>1, <2>2, <2>3 DEF InventoryNext
<1>3. InventoryInv => InventoryIsDetermined
  BY DEF InventoryInv
<1>. QED
  BY <1>1, <1>2, <1>3, PTL DEF InventorySpec
=============================================================================
