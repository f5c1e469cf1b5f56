----------------------------- MODULE CloudProofs -----------------------------
(***************************************************************************)
(* The cloud posture follows the Azure artifact, whatever the              *)
(* subscriptions hold and whichever of their reads fail.                   *)
(***************************************************************************)
EXTENDS CloudPosture, AzureProofs

(* A subscription that could not be read has nothing but the gaps of that. *)
UnreadHere(i) ==
  /\ i < account
  /\ \A f \in Fields : InScope(f) =>
       GapsOf(i, f) # {} /\ \A g \in GapsOf(i, f) : g.why = unreadable[i]

UnreadInv == \A i \in DOMAIN estates : unreadable[i] # NoMiss => UnreadHere(i)

(* The retention of a subscription was read unless a gap says why not.     *)
RetentionInv ==
  \A i \in DOMAIN estates : Due(i, RetentionMin) =>
    (HasValue(i, RetentionRead) <=> GapsOf(i, RetentionMin) = {})

LEMMA RetentionFields ==
  /\ RetentionMin \in Fields /\ RetentionMin[1] = "backup" /\ RetentionMin[1] = Steps[9]
  /\ RetentionRead[1] = "backup" /\ RetentionRead = <<RetentionRead[1], RetentionRead[2]>>
  /\ RetentionMin = <<RetentionMin[1], RetentionMin[2]>>
  /\ InScope(RetentionMin) /\ StepOf("backup") = 9
<1>1. Steps[9] = "backup"
  BY StepNames
<1>2. StepOf("backup") = 9
  BY <1>1, StepsAre
<1>3. RetentionMin \in Fields
  BY FieldsOfBlocks
<1>. QED
  BY <1>1, <1>2, <1>3 DEF RetentionMin, RetentionRead, InScope

(* A step that is not the backup's does not touch the retention.           *)
LEMMA BackupSteps ==
  ASSUME Next, Steps[step] = "backup"
  PROVE  VaultsUnread \/ NoVaults \/ CollectBackup
<1>1. SubscriptionFound => Steps[step] = "subscription"
  BY Zenon DEF SubscriptionFound, At
<1>2. SubscriptionUnreadable => Steps[step] = "subscription"
  BY Zenon DEF SubscriptionUnreadable, At
<1>3. CollectDefender => Steps[step] = "defender"
  BY Zenon DEF CollectDefender, At
<1>4. CollectRBAC => Steps[step] = "rbac"
  BY DEF CollectRBAC, OneList, At
<1>5. CollectPolicy => Steps[step] = "policy"
  BY Zenon DEF CollectPolicy, At
<1>6. CollectStorage => Steps[step] = "storage"
  BY DEF CollectStorage, OneList, At
<1>7. CollectKeyVault => Steps[step] = "keyvault"
  BY DEF CollectKeyVault, OneList, At
<1>8. ServersUnread \/ CollectSQL => Steps[step] = "sql"
  BY Zenon DEF ServersUnread, CollectSQL, At
<1>9. CollectCompute => Steps[step] = "compute"
  BY Zenon DEF CollectCompute, At
<1>10. CollectNetwork => Steps[step] = "network"
  BY Zenon DEF CollectNetwork, At
<1>11. CollectLogging => Steps[step] = "logging"
  BY Zenon DEF CollectLogging, At
<1>12. CollectInventory => Steps[step] = "inventory"
  BY DEF CollectInventory, OneList, At
<1>13. SkipInventory => Steps[step] = "inventory"
  BY Zenon DEF SkipInventory, At
<1>. QED
  BY <1>1, <1>2, <1>3, <1>4, <1>5, <1>6, <1>7, <1>8, <1>9, <1>10, <1>11, <1>12, <1>13
     DEF Next

(* What the backup's outcome says of the retention, and what a step that   *)
(* has this outcome leaves.                                                *)
Told(o) ==
  /\ RetentionRead \in o.fields <=>
       {g \in o.left : g.at \in {pointer(RetentionMin), <<account, "backup", Whole>>}} = {}

LEMMA ToldNow ==
  ASSUME TurnInv, account \in DOMAIN estates, Steps[step] = "backup", NEW failing, NEW o,
         NEW fd, Done(failing, o, fd), \A f \in o.fields : f = <<f[1], f[2]>>, Told(o),
         NEW i, i = account
  PROVE  HasValue(i, RetentionRead)' <=> GapsOf(i, RetentionMin)' = {}
<1>1. written' = written \cup {pointer(f) : f \in o.fields} /\ gaps' = gaps \cup o.left
  BY DEF Done, Settle
<1>2. step \in 1..12 /\ \A m, n \in 1..12 : Steps[m] = Steps[n] => m = n
  BY StepsAre DEF TurnInv, PlaceOk
<1>3. \A at : InTurn(at) => ~(at[1] = account /\ at[2] = "backup")
  BY <1>2 DEF InTurn
<1>4. <<i, "backup", "retentionRead">> \notin written
  <2>1. /\ <<i, "backup", "retentionRead">>[1] = account
        /\ <<i, "backup", "retentionRead">>[2] = "backup"
    OBVIOUS
  <2>. QED
    BY <1>3, <2>1 DEF TurnInv, SettledInTurn
<1>5. \A g \in gaps : ~Covers(g, i, RetentionMin)
  <2>1. ASSUME NEW g \in gaps, Covers(g, i, RetentionMin) PROVE FALSE
    <3>1. g.at[1] = account /\ g.at[2] = "backup"
      BY <2>1, RetentionFields DEF Covers
    <3>. QED
      BY <1>3, <3>1 DEF TurnInv, SettledInTurn
  <2>. QED
    BY <2>1
<1>6. HasValue(i, RetentionRead)' <=> RetentionRead \in o.fields
  <2>1. <<i, "backup", "retentionRead">> \in {pointer(f) : f \in o.fields}
          <=> RetentionRead \in o.fields
    <3>1. ASSUME NEW f \in o.fields, <<i, "backup", "retentionRead">> = pointer(f)
          PROVE  f = RetentionRead
      <4>1. f[1] = "backup" /\ f[2] = "retentionRead"
        BY <3>1 DEF pointer
      <4>. QED
        BY <4>1 DEF RetentionRead
    <3>2. <<i, "backup", "retentionRead">> = pointer(RetentionRead)
      BY DEF pointer, RetentionRead
    <3>. QED
      BY <3>1, <3>2
  <2>2. <<i, RetentionRead[1], RetentionRead[2]>> = <<i, "backup", "retentionRead">>
    BY DEF RetentionRead
  <2>. QED
    BY <1>1, <1>4, <2>1, <2>2 DEF HasValue
<1>7. GapsOf(i, RetentionMin)' =
        {g \in o.left : g.at \in {pointer(RetentionMin), <<account, "backup", Whole>>}}
  <2>1. \A g : Covers(g, i, RetentionMin)
                 <=> g.at \in {pointer(RetentionMin), <<account, "backup", Whole>>}
    BY RetentionFields DEF Covers, pointer
  <2>2. GapsOf(i, RetentionMin)' = {g \in gaps \cup o.left : Covers(g, i, RetentionMin)}
    BY <1>1 DEF GapsOf, Covers
  <2>. QED
    BY <1>5, <2>1, <2>2
<1>. QED
  BY <1>6, <1>7 DEF Told

(* The other backup fields' outcomes say nothing of it.                    *)
Pairs(o) == \A f \in o.fields : f = <<f[1], f[2]>>
Off(o) ==
  /\ Pairs(o) /\ RetentionRead \notin o.fields
  /\ \A g \in o.left : g.at \notin {pointer(RetentionMin), <<account, "backup", Whole>>}

BackupOthers == {VaultPct, ProtectedPct, BackupAge, FailedJobs}

LEMMA OthersAre ==
  \A f \in BackupOthers :
    /\ f = <<f[1], f[2]>> /\ f # RetentionRead
    /\ pointer(f) \notin {pointer(RetentionMin), <<account, "backup", Whole>>}
<1>1. \A f \in BackupOthers :
        f[1] = "backup" /\ f[2] # "retention_days_min" /\ f[2] # Whole
        /\ f[2] # "retentionRead" /\ f = <<f[1], f[2]>>
  BY DEF BackupOthers, VaultPct, ProtectedPct, BackupAge, FailedJobs, Whole
<1>2. \A f \in BackupOthers : pointer(f)[3] = f[2]
  BY DEF pointer
<1>3. /\ pointer(RetentionMin)[3] = "retention_days_min"
      /\ <<account, "backup", Whole>>[3] = Whole /\ RetentionRead[2] = "retentionRead"
  BY DEF pointer, RetentionMin, RetentionRead
<1>. QED
  BY <1>1, <1>2, <1>3

LEMMA OffAre ==
  ASSUME NEW F \in SUBSET BackupOthers
  PROVE  /\ Off(Wrote(F)) /\ \A n, why : Off(Left(partial(n, why, F)))
         /\ \A f \in F : \A ns : Off(Count(f, ns))
<1>1. Off(Wrote(F))
  BY OthersAre DEF Off, Pairs, Wrote, Nothing
<1>2. ASSUME NEW n, NEW why PROVE Off(Left(partial(n, why, F)))
  <2>1. /\ Left(partial(n, why, F)).fields = {}
        /\ Left(partial(n, why, F)).left = partial(n, why, F)
    BY DEF Left, Nothing
  <2>2. \A g \in partial(n, why, F) : \E f \in F : g.at = pointer(f)
    BY DEF partial
  <2>. QED
    BY <2>1, <2>2, OthersAre DEF Off, Pairs
<1>3. ASSUME NEW f \in F, NEW ns PROVE Off(Count(f, ns))
  <2>1. Count(f, ns).fields \in SUBSET {f} /\ Count(f, ns).left = {}
    BY DEF Count, Nothing
  <2>. QED
    BY <2>1, OthersAre DEF Off, Pairs
<1>. QED
  BY <1>1, <1>2, <1>3

LEMMA AndTells ==
  ASSUME NEW a, NEW b, Off(a)
  PROVE  /\ Off(b) => Off(And(a, b))
         /\ Pairs(b) /\ Told(b) => /\ Pairs(And(a, b)) /\ Told(And(a, b))
                                   /\ Pairs(And(b, a)) /\ Told(And(b, a))
<1>1. /\ And(a, b).fields = a.fields \cup b.fields /\ And(a, b).left = a.left \cup b.left
      /\ And(b, a).fields = b.fields \cup a.fields /\ And(b, a).left = b.left \cup a.left
  BY DEF And
<1>. QED
  BY <1>1 DEF Off, Pairs, Told

LEMMA ReadTells ==
  ASSUME NEW ns
  PROVE  /\ Pairs(Wrote({RetentionRead})) /\ Told(Wrote({RetentionRead}))
         /\ Pairs(And(Wrote({RetentionRead}), Count(RetentionMin, ns)))
         /\ Told(And(Wrote({RetentionRead}), Count(RetentionMin, ns)))
<1>1. Wrote({RetentionRead}).fields = {RetentionRead} /\ Wrote({RetentionRead}).left = {}
  BY DEF Wrote, Nothing
<1>2. Count(RetentionMin, ns).fields \in SUBSET {RetentionMin}
      /\ Count(RetentionMin, ns).left = {}
  BY DEF Count, Nothing
<1>3. \A a, b : And(a, b).fields = a.fields \cup b.fields /\ And(a, b).left = a.left \cup b.left
  BY DEF And
<1>4. ASSUME NEW o, RetentionRead \in o.fields, o.fields \in SUBSET {RetentionRead, RetentionMin},
             o.left = {}
      PROVE  Pairs(o) /\ Told(o)
  BY <1>4, RetentionFields DEF Pairs, Told
<1>5. Pairs(Wrote({RetentionRead})) /\ Told(Wrote({RetentionRead}))
  BY <1>1, <1>4
<1>6. ASSUME NEW a, NEW b, a.fields = {RetentionRead}, a.left = {},
             b.fields \in SUBSET {RetentionMin}, b.left = {}
      PROVE  Pairs(And(a, b)) /\ Told(And(a, b))
  <2>1. /\ And(a, b).fields = a.fields \cup b.fields
        /\ And(a, b).left = a.left \cup b.left
    BY <1>3
  <2>. QED
    BY <1>4, <1>6, <2>1
<1>. QED
  BY <1>1, <1>2, <1>5, <1>6

LEMMA LeftTells ==
  ASSUME NEW n, NEW why, why # NoMiss
  PROVE  /\ Pairs(Left(partial(n, why, {RetentionMin}))) /\ Told(Left(partial(n, why, {RetentionMin})))
         /\ Pairs(Left(LeaveOutBlock(why, "backup"))) /\ Told(Left(LeaveOutBlock(why, "backup")))
<1>1. \A gs : Left(gs).fields = {} /\ Left(gs).left = gs
  BY DEF Left, Nothing
<1>2. ASSUME NEW f, NEW m, NEW gs, gs = partial(m, why, {f}),
             pointer(f) \in {pointer(RetentionMin), <<account, "backup", Whole>>}
      PROVE  Pairs(Left(gs)) /\ Told(Left(gs))
  <2>1. gs = {[at |-> pointer(f), why |-> why, unmeasured |-> m]}
    BY <1>2 DEF partial
  <2>2. \E g \in gs : g.at = pointer(f)
    BY <2>1
  <2>. QED
    BY <1>1, <1>2, <2>2 DEF Pairs, Told
<1>3. LeaveOutBlock(why, "backup") = partial(0, why, {<<"backup", Whole>>})
      /\ pointer(<<"backup", Whole>>) = <<account, "backup", Whole>>
  BY DEF LeaveOutBlock, leaveOut, pointer
<1>. QED
  BY <1>2, <1>3

LEMMA BackupTells ==
  ASSUME TurnInv, VaultsUnread \/ NoVaults \/ CollectBackup, NEW i, i = account
  PROVE  HasValue(i, RetentionRead)' <=> GapsOf(i, RetentionMin)' = {}
<1>0. At("backup")
  <2>1. VaultsUnread => At("backup")
    BY Zenon DEF VaultsUnread
  <2>2. NoVaults => At("backup")
    BY Zenon DEF NoVaults
  <2>3. CollectBackup => At("backup")
    BY DEF CollectBackup
  <2>. QED
    BY <2>1, <2>2, <2>3
<1>1. account \in DOMAIN estates /\ Steps[step] = "backup"
  BY <1>0 DEF At
<1>2. \A failing, o, fd : Done(failing, o, fd) /\ Pairs(o) /\ Told(o) =>
        (HasValue(i, RetentionRead)' <=> GapsOf(i, RetentionMin)' = {})
  BY <1>1, ToldNow DEF Pairs
<1>3. \A read : failed(read) # NoMiss
  BY DEF failed, NoMiss
<1>4. CASE VaultsUnread
  <2>1. \E failing, fd, read : Done(failing, Left(LeaveOutBlock(failed(read), "backup")), fd)
    BY <1>4, Zenon DEF VaultsUnread
  <2>. QED
    BY <1>2, <1>3, <2>1, LeftTells
<1>5. CASE NoVaults
  <2>1. PICK failing, fd, o :
          /\ Done(failing, And(Wrote({RetentionRead}), o), fd)
          /\ o = IF backupMiss = NoMiss THEN Count(ProtectedPct, protectedResourcePct({}))
                 ELSE Left(leaveOut(backupMiss, {ProtectedPct}))
    BY <1>5, Zenon DEF NoVaults
  <2>2. Off(o)
    <3>1. {ProtectedPct} \in SUBSET BackupOthers
      BY DEF BackupOthers
    <3>. QED
      BY <2>1, <3>1, OffAre DEF leaveOut
  <2>. QED
    BY <1>2, <2>1, <2>2, AndTells, ReadTells
<1>6. CASE CollectBackup
  <2>1. PICK failing, fd, items, policies, jobs, noItems, noPolicies, noJobs, a, b, c, d :
          /\ a = Wrote({VaultPct}) /\ b = Protected(items, noItems)
          /\ c = Retention(policies, items, noPolicies, noItems) /\ d = Jobs(jobs, noJobs)
          /\ Done(failing, And(And(a, b), And(c, d)), fd)
    BY <1>6 DEF CollectBackup
  <2>2. /\ {VaultPct} \in SUBSET BackupOthers /\ {ProtectedPct} \in SUBSET BackupOthers
        /\ {BackupAge, FailedJobs} \in SUBSET BackupOthers
    BY DEF BackupOthers
  <2>3. \A name, unread, F : \E n, why :
          LeftUnreadVaults(name, unread, F) = Left(partial(n, why, F)) /\ why # NoMiss
    BY <1>3 DEF LeftUnreadVaults, LeftUnread, FirstFailure
  <2>4. Off(a)
    BY <2>1, <2>2, OffAre
  <2>5. Off(b)
    <3>1. \/ \E n, why : b = Left(partial(n, why, {ProtectedPct}))
          \/ \E ns : b = Count(ProtectedPct, ns)
      BY <2>1, <2>3 DEF Protected, leaveOut
    <3>. QED
      BY <2>2, <3>1, OffAre
  <2>6. Off(d)
    <3>1. \/ \E n, why : d = Left(partial(n, why, {BackupAge, FailedJobs}))
          \/ \E ns, ms : d = And(Count(BackupAge, ns), Count(FailedJobs, ms))
      BY <2>1, <2>3 DEF Jobs
    <3>2. \A ns, ms : Off(Count(BackupAge, ns)) /\ Off(Count(FailedJobs, ms))
      BY <2>2, OffAre
    <3>. QED
      BY <2>2, <3>1, <3>2, OffAre, AndTells
  <2>7. Pairs(c) /\ Told(c)
    <3>1. \/ \E n, why : c = Left(partial(n, why, {RetentionMin})) /\ why # NoMiss
          \/ \E ns : c = And(Wrote({RetentionRead}), Count(RetentionMin, ns))
      BY <2>1, <2>3 DEF Retention
    <3>. QED
      BY <3>1, LeftTells, ReadTells
  <2>8. Off(And(a, b)) /\ Pairs(And(c, d)) /\ Told(And(c, d))
    BY <2>4, <2>5, <2>6, <2>7, AndTells
  <2>. QED
    BY <1>2, <2>1, <2>8, AndTells
<1>. QED
  BY <1>4, <1>5, <1>6

-----------------------------------------------------------------------------
LEMMA RetentionStays ==
  ASSUME TurnInv, Next, NEW i, i # account \/ Steps[step] # "backup"
  PROVE  HasValue(i, RetentionRead)' <=> HasValue(i, RetentionRead)
<1>1. ASSUME NEW failing, NEW o, NEW fd, Advance(failing, o, fd), Handles(failing, o, fd)
      PROVE  HasValue(i, RetentionRead)' <=> HasValue(i, RetentionRead)
  <2>1. written' = written \cup {pointer(f) : f \in o.fields}
    BY <1>1 DEF Advance
  <2>2. \A f \in o.fields : f[1] = Steps[step]
    BY <1>1, OutcomeIs
  <2>3. ASSUME NEW f \in o.fields PROVE <<i, RetentionRead[1], RetentionRead[2]>> # pointer(f)
    <3>1. pointer(f)[1] = account /\ pointer(f)[2] = Steps[step]
      BY <2>2 DEF pointer
    <3>2. /\ <<i, RetentionRead[1], RetentionRead[2]>>[1] = i
          /\ <<i, RetentionRead[1], RetentionRead[2]>>[2] = "backup"
      BY RetentionFields
    <3>. QED
      BY <3>1, <3>2
  <2>. QED
    BY <2>1, <2>3 DEF HasValue
<1>2. ASSUME NEW read, NEW why, Abandons(read, why)
      PROVE  HasValue(i, RetentionRead)' <=> HasValue(i, RetentionRead)
  <2>1. written' = written
    BY <1>2, Zenon DEF Abandons
  <2>. QED
    BY <2>1 DEF HasValue
<1>3. ASSUME UNCHANGED azureVars
      PROVE  HasValue(i, RetentionRead)' <=> HasValue(i, RetentionRead)
  BY <1>3 DEF azureVars, HasValue
<1>. QED
  BY <1>1, <1>2, <1>3, StepsOfTheRun

LEMMA NextRetention ==
  ASSUME AzureInv, RetentionInv, Next
  PROVE  RetentionInv'
<1>0. TurnInv /\ RetentionMin \in Fields /\ estates' = estates
      /\ DOMAIN estates = 1..Len(estates) /\ Len(estates) \in Nat
  BY RetentionFields, StepsAdd, HereOk DEF AzureInv, TurnInv
<1>. SUFFICES ASSUME NEW i \in DOMAIN estates, Due(i, RetentionMin)'
     PROVE  HasValue(i, RetentionRead)' <=> GapsOf(i, RetentionMin)' = {}
  BY <1>0 DEF RetentionInv
<1>1. CASE Due(i, RetentionMin) /\ ~(i = account /\ Steps[step] = "backup")
  <2>1. HasValue(i, RetentionRead) <=> GapsOf(i, RetentionMin) = {}
    BY <1>1 DEF RetentionInv
  <2>2. GapsOf(i, RetentionMin)' = GapsOf(i, RetentionMin)
    BY <1>0, <1>1, DueStays
  <2>. QED
    BY <1>0, <1>1, <2>1, <2>2, RetentionStays
<1>2. CASE i = account /\ Steps[step] = "backup"
  BY <1>0, <1>2, BackupSteps, BackupTells
<1>3. CASE ~Due(i, RetentionMin) /\ ~(i = account /\ Steps[step] = "backup")
  <2>1. ~ \E failing, o, fd : Advance(failing, o, fd) /\ Handles(failing, o, fd)
    <3>1. i \in Int
      BY <1>0
    <3>2. RetentionMin \in DueHere => Steps[step] = "backup"
      BY RetentionFields DEF DueHere
    <3>. QED
      BY <1>0, <1>3, <3>1, <3>2, DueNow
  <2>2. ~ UNCHANGED azureVars
    <3>1. UNCHANGED azureVars => (Due(i, RetentionMin)' <=> Due(i, RetentionMin))
      BY DEF azureVars, Due, InScope, audit
    <3>. QED
      BY <1>3, <3>1
  <2>3. PICK read, why : Abandons(read, why)
    BY <1>0, <2>1, <2>2, StepsOfTheRun
  <2>4. i = account
    <3>1. i \in Int
      BY <1>0
    <3>. QED
      BY <1>0, <1>3, <2>3, <3>1, AbandonLeaves
  <2>5. GapsOf(i, RetentionMin)' # {}
    <3>1. GapsOf(i, RetentionMin)' = {Gap(RetentionMin[1], why)}
      BY <1>0, <2>3, <2>4, AbandonLeaves, RetentionFields
    <3>. QED
      BY <3>1
  <2>6. ~HasValue(i, RetentionRead)
    <3>1. step = 1
      BY <2>3, Zenon DEF Abandons
    <3>2. \A at : InTurn(at) => at[1] # account
      BY <3>1 DEF InTurn
    <3>3. <<i, RetentionRead[1], RetentionRead[2]>>[1] = account
      BY <2>4
    <3>. QED
      BY <1>0, <3>2, <3>3 DEF HasValue, TurnInv, SettledInTurn
  <2>. QED
    BY <1>0, <1>3, <2>5, <2>6, RetentionStays
<1>. QED
  BY <1>1, <1>2, <1>3

LEMMA NextUnread ==
  ASSUME AzureInv, UnreadInv, Next
  PROVE  UnreadInv'
<1>0. /\ TurnInv /\ estates' = estates /\ level' = level
      /\ DOMAIN estates = 1..Len(estates) /\ Len(estates) \in Nat
      /\ account \in 1..Len(estates) + 1 /\ DOMAIN unreadable = DOMAIN estates
  BY StepsAdd, HereOk DEF AzureInv, TurnInv, PlaceOk
<1>1. \A f : InScope(f)' <=> InScope(f)
  BY <1>0 DEF InScope, audit
<1>. SUFFICES ASSUME NEW i \in DOMAIN estates, unreadable'[i] # NoMiss
     PROVE  UnreadHere(i)'
  BY <1>0 DEF UnreadInv
<1>2. ASSUME unreadable'[i] = unreadable[i], account' \in {account, account + 1}
      PROVE  UnreadHere(i)'
  <2>1. UnreadHere(i)
    BY <1>2 DEF UnreadInv
  <2>2. i < account'
    BY <1>0, <1>2, <2>1 DEF UnreadHere
  <2>3. ASSUME NEW f \in Fields, InScope(f)
        PROVE  GapsOf(i, f)' # {} /\ \A g \in GapsOf(i, f)' : g.why = unreadable'[i]
    <3>1. Due(i, f)
      BY <2>1, <2>3, <1>0 DEF Due, UnreadHere
    <3>2. GapsOf(i, f)' = GapsOf(i, f)
      BY <1>0, <3>1, DueStays
    <3>. QED
      BY <1>2, <2>1, <2>3, <3>2 DEF UnreadHere
  <2>. QED
    BY <1>1, <2>2, <2>3 DEF UnreadHere
<1>3. ASSUME NEW failing, NEW o, NEW fd, Advance(failing, o, fd)
      PROVE  UnreadHere(i)'
  <2>1. unreadable'[i] = unreadable[i] /\ account' \in {account, account + 1}
    BY <1>0, <1>3 DEF Advance
  <2>. QED
    BY <1>2, <2>1
<1>4. ASSUME NEW read, NEW why, Abandons(read, why)
      PROVE  UnreadHere(i)'
  <2>1. unreadable' = [unreadable EXCEPT ![account] = why] /\ account' = account + 1
    BY <1>4, Zenon DEF Abandons
  <2>2. CASE i # account
    <3>1. unreadable'[i] = unreadable[i] /\ account' \in {account, account + 1}
      BY <1>0, <2>1, <2>2
    <3>. QED
      BY <1>2, <3>1
  <2>3. CASE i = account
    <3>1. unreadable'[i] = why /\ i < account' /\ i \in Int
      BY <1>0, <2>1, <2>3
    <3>2. ASSUME NEW f \in Fields, InScope(f)
          PROVE  GapsOf(i, f)' # {} /\ \A g \in GapsOf(i, f)' : g.why = unreadable'[i]
      <4>1. GapsOf(i, f)' = {Gap(f[1], why)}
        BY <1>0, <1>4, <2>3, <3>1, <3>2, AbandonLeaves
      <4>2. Gap(f[1], why).why = why
        BY DEF Gap
      <4>. QED
        BY <3>1, <4>1, <4>2
    <3>. QED
      BY <1>1, <3>1, <3>2 DEF UnreadHere
  <2>. QED
    BY <2>2, <2>3
<1>5. ASSUME UNCHANGED azureVars PROVE UnreadHere(i)'
  <2>1. unreadable'[i] = unreadable[i] /\ account' \in {account, account + 1}
    BY <1>0, <1>5 DEF azureVars
  <2>. QED
    BY <1>2, <2>1
<1>. QED
  BY <1>0, <1>3, <1>4, <1>5, StepsOfTheRun

-----------------------------------------------------------------------------
(* Where each normalized field is taken from.                              *)
LEMMA CloudSources ==
  ASSUME NEW f \in CloudFields
  PROVE  LET s == cloudPostureSources[f] IN
         /\ s \in Fields /\ s[1] = f[1] /\ f = <<f[1], f[2]>> /\ f[2] # Whole
         /\ f[1] \in {"storage", "network", "logging", "backup"}
         /\ f[1] = "storage" => /\ s \in {StorageCount} \cup StoragePcts
                                /\ f \in StorageShares => s \in StoragePcts /\ f \notin CloudCounts
                                /\ f \notin StorageShares => s = StorageCount \/ f \in CloudCounts
         /\ f[1] = "network" => /\ s \in {GroupsCount} \cup OpenPcts
                                /\ f \in OpenPcts => s = f /\ f \notin CloudCounts
                                /\ f \notin OpenPcts => s = GroupsCount \/ f \in CloudCounts
         /\ f[1] = "logging" => s = ActivityExported /\ f \notin CloudCounts
         /\ f[1] = "backup" => f = RetentionMin /\ s = RetentionMin /\ f \notin CloudCounts
  BY DEF cloudPostureSources, CloudFields, CloudCounts, PresentFields, StorageCounts,
       NetworkCounts, StorageShares, LoggingFlags, OpenPcts, StoragePcts, StorageCount,
       GroupsCount, ActivityExported, RetentionMin, Fields, Whole

(* The fields taken from one list are given, or left out, together.        *)
LEMMA SameReads ==
  ASSUME AzureInv, NEW i \in DOMAIN estates, account > i, NEW f \in Fields, NEW s \in Fields,
         InScope(f), InScope(s), Sources(s) = Sources(f), Sources(f) \cap Settings = {},
         ~EmptyPopulation(estates[i], f)
  PROVE  HasValue(i, f) <=> GapsOf(i, s) = {}
<1>1. Due(i, f) /\ Due(i, s)
  BY DEF Due
<1>2. Explained(i, f)
  BY ExplainedIs DEF AzureInv
<1>3. HasValue(i, f) <=> GapsOf(i, f) = {}
  <2>1. Cardinality(GapsOf(i, f)) = 1 => GapsOf(i, f) # {}
    BY FS_EmptySet
  <2>. QED
    BY <1>1, <1>2, <2>1 DEF Explained
<1>4. ASSUME NEW h \in Fields, NEW g \in GapsOf(i, h)
      PROVE  /\ g.why.about \in failedReads /\ g.why.about[1] = i
             /\ g.why.about[2] \in Sources(h)
  <2>1. g \in gaps /\ Covers(g, i, h)
    BY DEF GapsOf
  <2>2. g.at[1] = i
    BY <2>1 DEF Covers
  <2>. QED
    BY <2>1, <2>2 DEF AzureInv, AzureGapsNameTheirCause
<1>5. \A r \in failedReads, h \in Fields :
        r[1] = i /\ r[2] \in Sources(h) \ Settings =>
          ~HasValue(i, h) /\ (Due(i, h) => GapsOf(i, h) # {})
  BY DEF AzureInv, ValuesRestOnTheirReads
<1>6. ASSUME NEW g \in GapsOf(i, s) PROVE ~HasValue(i, f)
  <2>1. PICK r : r \in failedReads /\ r[1] = i /\ r[2] \in Sources(f)
    BY <1>4, <1>6
  <2>. QED
    BY <1>5, <2>1
<1>7. ASSUME NEW g \in GapsOf(i, f) PROVE GapsOf(i, s) # {}
  <2>1. PICK r : r \in failedReads /\ r[1] = i /\ r[2] \in Sources(f)
    BY <1>4, <1>7
  <2>. QED
    BY <1>1, <1>5, <2>1
<1>. QED
  BY <1>3, <1>6, <1>7

(* A gap of the Azure field, and no other, comes to the normalized field.  *)
LEMMA MirrorIs ==
  ASSUME DOMAIN unreadable = DOMAIN estates, NEW i \in DOMAIN estates, NEW f \in CloudFields
  PROVE  LET here == {g \in mirrorCloudPostureGaps : Covers(g, i, f)}
             s == cloudPostureSources[f]
         IN {g.why : g \in here} =
              IF unreadable[i] # NoMiss THEN {unreadable[i]}
              ELSE {g.why : g \in GapsOf(i, s)}
<1>. DEFINE Left1(j, b) == [at |-> <<j, b, Whole>>, why |-> unreadable[j], unmeasured |-> 0]
            Of(j, h, g) == [at |-> <<CloudAccount(j), h[1], h[2]>>, why |-> g.why,
                            unmeasured |-> g.unmeasured]
<1>1. /\ f = <<f[1], f[2]>> /\ f[2] # Whole /\ f[1] \in CloudBlocks
      /\ \A h \in CloudFields : h = <<h[1], h[2]>> /\ h[2] # Whole
  BY CloudSources DEF CloudBlocks
<1>2. \A g : g \in mirrorCloudPostureGaps <=>
        \E j \in DOMAIN estates :
          \/ unreadable[j] # NoMiss /\ \E b \in CloudBlocks : g = Left1(j, b)
          \/ unreadable[j] = NoMiss /\ \E h \in CloudFields :
               \E k \in GapsOf(j, cloudPostureSources[h]) : g = Of(j, h, k)
  BY DEF mirrorCloudPostureGaps, Mirror
<1>3. \A j, b : Covers(Left1(j, b), i, f) <=> j = i /\ b = f[1]
  BY <1>1 DEF Covers
<1>4. \A j, k : \A h \in CloudFields : Covers(Of(j, h, k), i, f) <=> j = i /\ h = f
  <2>1. ASSUME NEW j, NEW k, NEW h \in CloudFields
        PROVE  Covers(Of(j, h, k), i, f) <=> j = i /\ h = f
    <3>1. Of(j, h, k).at = <<j, h[1], h[2]>>
      BY DEF CloudAccount
    <3>2. h = <<h[1], h[2]>> /\ h[2] # Whole
      BY <1>1
    <3>. HIDE DEF Of
    <3>3. Covers(Of(j, h, k), i, f) <=> <<j, h[1], h[2]>> \in {<<i, f[1], f[2]>>, <<i, f[1], Whole>>}
      BY <3>1 DEF Covers
    <3>4. <<j, h[1], h[2]>> # <<i, f[1], Whole>>
      BY <3>2
    <3>5. <<j, h[1], h[2]>> = <<i, f[1], f[2]>> <=> j = i /\ h[1] = f[1] /\ h[2] = f[2]
      OBVIOUS
    <3>6. h[1] = f[1] /\ h[2] = f[2] <=> h = f
      BY <1>1, <3>2
    <3>. QED
      BY <3>3, <3>4, <3>5, <3>6
  <2>. QED
    BY <2>1
<1>5. \A j, b : Left1(j, b).why = unreadable[j]
  OBVIOUS
<1>6. \A j, h, k : Of(j, h, k).why = k.why
  OBVIOUS
<1>. HIDE DEF Left1, Of
<1>7. CASE unreadable[i] # NoMiss
  <2>1. \A g : g \in mirrorCloudPostureGaps /\ Covers(g, i, f) <=> g = Left1(i, f[1])
    BY <1>1, <1>2, <1>3, <1>4, <1>7
  <2>. QED
    BY <1>5, <1>7, <2>1
<1>8. CASE unreadable[i] = NoMiss
  <2>1. \A g : g \in mirrorCloudPostureGaps /\ Covers(g, i, f) <=>
          \E k \in GapsOf(i, cloudPostureSources[f]) : g = Of(i, f, k)
    BY <1>1, <1>2, <1>3, <1>4, <1>8
  <2>. QED
    BY <1>6, <1>8, <2>1
<1>. QED
  BY <1>7, <1>8

PostureOk(i, f, c) ==
  LET s == cloudPostureSources[f]
  IN /\ c = "absent" <=> GapsOf(i, s) # {} \/ ~cloudAudit(f)
     /\ c = "value" => HasValue(i, s) \/ (f \in CloudCounts /\ NothingToMeasure(i, f))
     /\ c = "null" => ~HasValue(i, s) /\ NothingToMeasure(i, f)

(* A share, or a count or flag, that rests on a list of so many members.   *)
LEMMA ShareOk ==
  ASSUME NEW i, NEW f \in CloudFields, NEW given, NEW n \in Nat, unreadable[i] = NoMiss,
         LET s == cloudPostureSources[f] IN
           /\ given <=> GapsOf(i, s) = {}
           /\ EmptyPopulation(estates[i], s) <=> n = 0
           /\ HasValue(i, s) => ~EmptyPopulation(estates[i], s)
           /\ HasValue(i, s) \/ GapsOf(i, s) # {} \/ EmptyPopulation(estates[i], s),
         f \notin CloudCounts
  PROVE  PostureOk(i, f, cloudShare(given, n))
  BY DEF PostureOk, cloudShare, ValueIf, cloudAudit, NothingToMeasure

LEMMA CountOk ==
  ASSUME NEW i, NEW f \in CloudFields, NEW given, unreadable[i] = NoMiss,
         LET s == cloudPostureSources[f] IN
           /\ given <=> GapsOf(i, s) = {}
           /\ HasValue(i, s) \/ GapsOf(i, s) # {} \/ EmptyPopulation(estates[i], s)
           /\ f \in CloudCounts \/ ~EmptyPopulation(estates[i], s)
  PROVE  PostureOk(i, f, ValueIf(given /\ cloudAudit(f)))
  BY DEF PostureOk, ValueIf, cloudAudit, NothingToMeasure

LEMMA PostureIs ==
  ASSUME AzureInv, UnreadInv, RetentionInv, account > Len(estates),
         NEW i \in DOMAIN estates, NEW f \in CloudFields
  PROVE  PostureOk(i, f, ToCloudPosture[i][f])
<1>. DEFINE s == cloudPostureSources[f]
<1>0. /\ DOMAIN estates = 1..Len(estates) /\ Len(estates) \in Nat /\ TurnInv
      /\ account \in 1..Len(estates) + 1
  BY HereOk DEF AzureInv, TurnInv, PlaceOk
<1>1. /\ s \in Fields /\ s[1] = f[1] /\ s[1] \in {"storage", "network", "logging", "backup"}
      /\ InScope(s) /\ account > i
  BY <1>0, CloudSources DEF InScope
<1>2. Due(i, s)
  BY <1>1 DEF Due
<1>3. /\ HasValue(i, s) => ~EmptyPopulation(estates[i], s)
      /\ HasValue(i, s) \/ GapsOf(i, s) # {} \/ EmptyPopulation(estates[i], s)
      /\ HasValue(i, s) => GapsOf(i, s) = {}
  <2>1. Cardinality({}) # 1
    BY FS_EmptySet
  <2>2. Explained(i, s)
    BY <1>1, ExplainedIs DEF AzureInv
  <2>. QED
    BY <1>2, <2>1, <2>2 DEF Explained
<1>4. estates[i].storage \in Seq(STRING) /\ estates[i].groups \in Nat
  <2>1. estates[i] \in Estate
    BY <1>0, ConfigurationsAssumption DEF TurnInv, PlaceOk
  <2>. QED
    BY <2>1 DEF Estate
<1>5. \A h \in {StorageCount} \cup StoragePcts : h \in Fields /\ Sources(h) = {"subscription", "storage"}
  BY FieldsOfBlocks, BlockSources
<1>6. \A h \in {GroupsCount} \cup OpenPcts :
        h \in Fields /\ Sources(h) = {"subscription", "security_groups"}
  <2>1. \A h \in {GroupsCount} \cup OpenPcts : h \in Fields /\ h[1] = "network"
    BY FieldsOfBlocks
  <2>. QED
    BY <2>1, NetworkSources DEF PublicIPCount, GroupsCount, OpenPcts
<1>7. CASE unreadable[i] # NoMiss
  <2>1. ToCloudPosture[i][f] = "absent"
    BY <1>7 DEF ToCloudPosture
  <2>2. GapsOf(i, s) # {}
    BY <1>1, <1>7 DEF UnreadInv, UnreadHere
  <2>. QED
    BY <2>1, <2>2 DEF PostureOk
<1>8. CASE unreadable[i] = NoMiss /\ f[1] = "storage"
  <2>1. ToCloudPosture[i][f] = cloudPostureStorage(i, f)
    BY <1>8 DEF ToCloudPosture
  <2>2. /\ s \in {StorageCount} \cup StoragePcts
        /\ f \in StorageShares => s \in StoragePcts /\ f \notin CloudCounts
        /\ f \notin StorageShares => s = StorageCount \/ f \in CloudCounts
    BY <1>8, CloudSources
  <2>3. ~EmptyPopulation(estates[i], StorageCount)
    BY NeverEmpty
  <2>4. HasValue(i, StorageCount) <=> GapsOf(i, s) = {}
    <3>1. InScope(StorageCount)
      BY DEF InScope, StorageCount
    <3>2. Sources(s) = Sources(StorageCount) /\ Sources(StorageCount) \cap Settings = {}
      BY <1>5, <2>2 DEF Settings
    <3>. QED
      BY <1>1, <1>5, <2>3, <3>1, <3>2, SameReads
  <2>5. CASE f \in StorageShares
    <3>1. EmptyPopulation(estates[i], s) <=> Len(estates[i].storage) = 0
      <4>1. EmptyPopulation(estates[i], s) <=> estates[i].storage = <<>>
        BY <2>2, <2>5, EmptyPopulations
      <4>. QED
        BY <1>4, <4>1
    <3>2. Len(estates[i].storage) \in Nat
      BY <1>4
    <3>3. PostureOk(i, f, cloudShare(HasValue(i, StorageCount), Len(estates[i].storage)))
      BY <1>3, <1>8, <2>2, <2>4, <2>5, <3>1, <3>2, ShareOk
    <3>. QED
      BY <2>1, <2>5, <3>3 DEF cloudPostureStorage
  <2>6. CASE f \notin StorageShares
    <3>1. PostureOk(i, f, ValueIf(HasValue(i, StorageCount) /\ cloudAudit(f)))
      BY <1>3, <1>8, <2>2, <2>3, <2>4, <2>6, CountOk
    <3>. QED
      BY <2>1, <2>6, <3>1 DEF cloudPostureStorage
  <2>. QED
    BY <2>5, <2>6
<1>9. CASE unreadable[i] = NoMiss /\ f[1] = "network"
  <2>1. ToCloudPosture[i][f] = cloudPostureNetwork(i, f)
    BY <1>9 DEF ToCloudPosture
  <2>2. /\ s \in {GroupsCount} \cup OpenPcts
        /\ f \in OpenPcts => s = f /\ f \notin CloudCounts
        /\ f \notin OpenPcts => s = GroupsCount \/ f \in CloudCounts
    BY <1>9, CloudSources
  <2>3. ~EmptyPopulation(estates[i], GroupsCount)
    BY NeverEmpty
  <2>4. HasValue(i, GroupsCount) <=> GapsOf(i, s) = {}
    <3>1. InScope(GroupsCount)
      BY DEF InScope, GroupsCount
    <3>2. Sources(s) = Sources(GroupsCount) /\ Sources(GroupsCount) \cap Settings = {}
      BY <1>6, <2>2 DEF Settings
    <3>. QED
      BY <1>1, <1>6, <2>3, <3>1, <3>2, SameReads
  <2>5. CASE f \in OpenPcts
    <3>1. EmptyPopulation(estates[i], s) <=> estates[i].groups = 0
      BY <2>2, <2>5, EmptyPopulations
    <3>2. PostureOk(i, f, cloudShare(HasValue(i, GroupsCount), estates[i].groups))
      BY <1>3, <1>4, <1>9, <2>2, <2>4, <2>5, <3>1, ShareOk
    <3>. QED
      BY <2>1, <2>5, <3>2 DEF cloudPostureNetwork
  <2>6. CASE f \notin OpenPcts
    <3>1. PostureOk(i, f, ValueIf(HasValue(i, GroupsCount) /\ cloudAudit(f)))
      BY <1>3, <1>9, <2>2, <2>3, <2>4, <2>6, CountOk
    <3>. QED
      BY <2>1, <2>6, <3>1 DEF cloudPostureNetwork
  <2>. QED
    BY <2>5, <2>6
<1>10. CASE unreadable[i] = NoMiss /\ f[1] = "backup"
  <2>1. ToCloudPosture[i][f] = cloudPostureBackup(i)
    BY <1>10 DEF ToCloudPosture
  <2>2. s = RetentionMin /\ f \notin CloudCounts
    BY <1>10, CloudSources
  <2>3. HasValue(i, RetentionRead) <=> GapsOf(i, s) = {}
    BY <1>2, <2>2 DEF RetentionInv
  <2>. QED
    BY <1>3, <1>10, <2>1, <2>2, <2>3
       DEF cloudPostureBackup, PostureOk, ValueIf, cloudAudit, NothingToMeasure
<1>11. CASE unreadable[i] = NoMiss /\ f[1] = "logging"
  <2>1. ToCloudPosture[i][f] = ValueIf(HasValue(i, ActivityExported))
    BY <1>11 DEF ToCloudPosture
  <2>2. s = ActivityExported /\ f \notin CloudCounts
    BY <1>11, CloudSources
  <2>3. ~EmptyPopulation(estates[i], ActivityExported)
    BY NeverEmpty
  <2>. QED
    BY <1>3, <2>1, <2>2, <2>3 DEF PostureOk, ValueIf, cloudAudit
<1>. QED
  BY <1>1, <1>7, <1>8, <1>9, <1>10, <1>11

-----------------------------------------------------------------------------
Follows(i, f) ==
  /\ {g.why : g \in CloudGapsOf(i, f)} = {g.why : g \in GapsOf(i, cloudPostureSources[f])}
  /\ PostureOk(i, f, cloud[i][f])

CloudInv ==
  /\ AzureInv /\ UnreadInv /\ RetentionInv
  /\ cloudDone => account > Len(estates) /\ \A i \in DOMAIN estates, f \in CloudFields : Follows(i, f)

LEMMA FollowsIs ==
  CloudInv => CloudFollowsAzure
  BY DEF CloudInv, CloudFollowsAzure, Follows, PostureOk

LEMMA InitCloudInv == CloudInit => CloudInv
<1>. SUFFICES ASSUME CloudInit PROVE CloudInv
  OBVIOUS
<1>1. Init /\ ~cloudDone /\ unreadable = [i \in DOMAIN estates |-> NoMiss] /\ account = 1 /\ step = 1
  BY DEF CloudInit, Init
<1>2. UnreadInv
  BY <1>1 DEF UnreadInv
<1>3. RetentionInv
  <2>1. DOMAIN estates = 1..Len(estates) /\ Len(estates) \in Nat
    BY <1>1, ConfigurationsAssumption DEF Init
  <2>2. \A i \in DOMAIN estates : ~Due(i, RetentionMin)
    BY <1>1, <2>1, RetentionFields DEF Due
  <2>. QED
    BY <2>2 DEF RetentionInv
<1>. QED
  BY <1>1, <1>2, <1>3, InitAzureInv DEF CloudInv

(* Nothing that is judged changes while the collection stands still.       *)
LEMMA StillFollows ==
  ASSUME UNCHANGED azureVars, NEW i, NEW f \in CloudFields,
         {g.why : g \in CloudGapsOf(i, f)'} = {g.why : g \in GapsOf(i, cloudPostureSources[f])},
         PostureOk(i, f, cloud'[i][f])
  PROVE  Follows(i, f)'
<1>. DEFINE s == cloudPostureSources[f]
<1>1. /\ GapsOf(i, s)' = GapsOf(i, s) /\ HasValue(i, s)' = HasValue(i, s)
      /\ cloudAudit(f)' = cloudAudit(f) /\ NothingToMeasure(i, f)' = NothingToMeasure(i, f)
  BY DEF azureVars, GapsOf, Covers, HasValue, cloudAudit, audit, NothingToMeasure
<1>. QED
  BY <1>1 DEF Follows, PostureOk

LEMMA NextCloudInv == CloudInv /\ [CloudNext]_cloudVars => CloudInv'
<1>. SUFFICES ASSUME CloudInv, [CloudNext]_cloudVars PROVE CloudInv'
  OBVIOUS
<1>0. AzureInv /\ TurnInv /\ UnreadInv /\ RetentionInv
  BY DEF CloudInv, AzureInv
<1>1. ASSUME UNCHANGED azureVars
      PROVE  AzureInv' /\ UnreadInv' /\ RetentionInv' /\ estates' = estates /\ account' = account
  <2>1. AzureInv'
    BY <1>0, <1>1, NextAzureInv
  <2>2. /\ unreadable' = unreadable /\ estates' = estates /\ account' = account
        /\ \A i, f : /\ GapsOf(i, f)' = GapsOf(i, f) /\ HasValue(i, f)' = HasValue(i, f)
                     /\ Due(i, f)' = Due(i, f) /\ InScope(f)' = InScope(f)
    BY <1>1 DEF azureVars, GapsOf, Covers, HasValue, Due, InScope, audit
  <2>3. UnreadInv'
    <3>1. ASSUME NEW i \in DOMAIN estates, unreadable[i] # NoMiss PROVE UnreadHere(i)'
      <4>1. UnreadHere(i)
        BY <1>0, <3>1 DEF UnreadInv
      <4>. QED
        BY <2>2, <4>1 DEF UnreadHere
    <3>. QED
      BY <2>2, <3>1 DEF UnreadInv
  <2>4. RetentionInv'
    BY <1>0, <2>2 DEF RetentionInv
  <2>. QED
    BY <2>1, <2>2, <2>3, <2>4
<1>2. CASE Collect
  <2>1. Next /\ cloud' = cloud /\ cloudGaps' = cloudGaps /\ cloudDone' = cloudDone
    BY <1>2 DEF Collect
  <2>2. AzureInv' /\ UnreadInv' /\ RetentionInv'
    BY <1>0, <2>1, NextAzureInv, NextUnread, NextRetention
  <2>3. CASE ~cloudDone
    BY <2>1, <2>2, <2>3 DEF CloudInv
  <2>4. CASE cloudDone
    <3>1. UNCHANGED azureVars
      <4>1. account > Len(estates) /\ account \in Nat /\ Len(estates) \in Nat
        BY <1>0, <2>4, HereOk DEF CloudInv, TurnInv, PlaceOk
      <4>. QED
        BY <1>0, <2>1, <4>1, StepsAdd
    <3>2. account' > Len(estates') /\ estates' = estates
      BY <1>1, <2>4, <3>1 DEF CloudInv
    <3>3. ASSUME NEW i \in DOMAIN estates, NEW f \in CloudFields PROVE Follows(i, f)'
      <4>1. Follows(i, f)
        BY <2>4, <3>3 DEF CloudInv
      <4>2. CloudGapsOf(i, f)' = CloudGapsOf(i, f) /\ cloud'[i][f] = cloud[i][f]
        BY <2>1 DEF CloudGapsOf, Covers
      <4>. QED
        BY <3>1, <4>1, <4>2, StillFollows DEF Follows
    <3>. QED
      BY <2>2, <3>2, <3>3 DEF CloudInv
  <2>. QED
    BY <2>3, <2>4
<1>3. CASE TakeCloudPosture
  <2>1. /\ UNCHANGED azureVars /\ account > Len(estates)
        /\ cloud' = ToCloudPosture /\ cloudGaps' = mirrorCloudPostureGaps
    BY <1>3 DEF TakeCloudPosture
  <2>2. ASSUME NEW i \in DOMAIN estates, NEW f \in CloudFields PROVE Follows(i, f)'
    <3>. DEFINE here == {g \in mirrorCloudPostureGaps : Covers(g, i, f)}
                s == cloudPostureSources[f]
    <3>1. CloudGapsOf(i, f)' = here
      BY <2>1 DEF CloudGapsOf, Covers
    <3>2. DOMAIN unreadable = DOMAIN estates
      BY <1>0 DEF TurnInv, PlaceOk
    <3>3. {g.why : g \in here} = IF unreadable[i] # NoMiss THEN {unreadable[i]}
                                ELSE {g.why : g \in GapsOf(i, s)}
      BY <3>2, MirrorIs
    <3>4. unreadable[i] # NoMiss => {g.why : g \in GapsOf(i, s)} = {unreadable[i]}
      <4>1. s \in Fields /\ InScope(s)
        BY CloudSources DEF InScope
      <4>2. unreadable[i] # NoMiss =>
              GapsOf(i, s) # {} /\ \A g \in GapsOf(i, s) : g.why = unreadable[i]
        BY <1>0, <4>1 DEF UnreadInv, UnreadHere
      <4>. HIDE DEF s
      <4>. QED
        BY <4>2
    <3>5. {g.why : g \in here} = {g.why : g \in GapsOf(i, s)}
      BY <3>3, <3>4
    <3>6. PostureOk(i, f, ToCloudPosture[i][f])
      BY <1>0, <2>1, PostureIs
    <3>7. {g.why : g \in CloudGapsOf(i, f)'} = {g.why : g \in GapsOf(i, s)}
      BY <3>1, <3>5
    <3>8. PostureOk(i, f, cloud'[i][f])
      BY <2>1, <3>6
    <3>. QED
      BY <2>1, <3>7, <3>8, StillFollows
  <2>. QED
    BY <1>1, <2>1, <2>2 DEF CloudInv
<1>4. CASE UNCHANGED cloudVars
  <2>1. /\ UNCHANGED azureVars
        /\ cloud' = cloud /\ cloudGaps' = cloudGaps /\ cloudDone' = cloudDone
    BY <1>4 DEF cloudVars
  <2>2. ASSUME cloudDone, NEW i \in DOMAIN estates, NEW f \in CloudFields PROVE Follows(i, f)'
    <3>1. Follows(i, f)
      BY <2>2 DEF CloudInv
    <3>2. CloudGapsOf(i, f)' = CloudGapsOf(i, f) /\ cloud'[i][f] = cloud[i][f]
      BY <2>1 DEF CloudGapsOf, Covers
    <3>. QED
      BY <2>1, <3>1, <3>2, StillFollows DEF Follows
  <2>. QED
    BY <1>1, <2>1, <2>2 DEF CloudInv
<1>. QED
  BY <1>2, <1>3, <1>4 DEF CloudNext

(* Every value of the normalized cloud posture follows the Azure field it  *)
(* is taken from, and every gap of that field, and no other, comes with    *)
(* it, in every account, however many there are and whatever failed.       *)
THEOREM PostureFollowsTheAccounts == CloudSpec => []CloudFollowsAzure
<1>. QED
  BY InitCloudInv, NextCloudInv, FollowsIs, PTL DEF CloudSpec
=============================================================================
