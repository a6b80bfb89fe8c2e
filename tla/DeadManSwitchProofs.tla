------------------------ MODULE DeadManSwitchProofs ------------------------
(* Proofs about DeadManSwitch, for any number of switches, owners,          *)
(* recipients and concurrent requests, any periods and any limits.          *)
EXTENDS DeadManSwitch, FiniteSetTheorems, TLAPS

----------------------------------------------------------------------------
(* What the operators of the model make of a row, a pass and an age.        *)

(* The handler between requests is of its type.                             *)
LEMMA IdleType == Idle \in HandlerType /\ Idle.pc = "idle" /\ Idle.age = 0
<1>1. (CHOOSE d \in Switches : TRUE) \in Switches
  BY SwitchSets
<1>2. QED
  BY <1>1, SwitchNumbers DEF Idle, HandlerType

(* So is the reaper between passes.                                         *)
LEMMA AsleepType == Asleep \in PassType /\ Asleep.pc = "idle"
BY SwitchNumbers DEF Asleep, PassType

(* Ages grow by one, or stay at the horizon.                                *)
LEMMA OlderType ==
    ASSUME NEW a \in 0 .. Horizon
    PROVE  /\ Older(a) \in 0 .. Horizon
           /\ Older(a) = a + 1 \/ Older(a) = Horizon
           /\ Older(a) >= a /\ Older(a) <= a + 1
BY SwitchNumbers DEF Older, MinOf, Horizon

(* A switch that ends keeps its row, and who was told.                      *)
LEMMA EndedRow ==
    ASSUME TypeOK, NEW d \in Switches, NEW status \in Statuses
    PROVE  /\ Ended(d, status) \in RowType
           /\ Ended(d, status).status = status
           /\ Ended(d, status).delivered = row[d].delivered
<1>1. row[d] \in RowType
  BY DEF TypeOK
<1>2. 0 \in 0 .. Horizon
  BY SwitchNumbers DEF Horizon
<1>3. QED
  BY <1>1, <1>2 DEF RowType, Ended

(* A switch that is removed has nobody marked.                              *)
LEMMA RemovedRow ==
    ASSUME NEW status \in Statuses
    PROVE  /\ [NoRow EXCEPT !.status = status] \in RowType
           /\ [NoRow EXCEPT !.status = status].status = status
           /\ [NoRow EXCEPT !.status = status].delivered = {}
<1>1. 0 \in 0 .. Horizon
  BY SwitchNumbers DEF Horizon
<1>2. NoRow \in RowType /\ NoRow.delivered = {}
  BY <1>1 DEF NoRow, RowType, Statuses
<1>3. QED
  BY <1>2 DEF RowType

(* The commit of a pass ends the switch, or leaves it armed and owing the   *)
(* recipients that were missed.                                             *)
LEMMA FiredRow ==
    ASSUME TypeOK, NEW d \in Switches
    PROVE  /\ Fired(d) \in RowType
           /\ Fired(d).delivered = RecipientsOf[d] \ Missed(d)
           /\ Missed(d) = {} => Fired(d).status = "triggered"
           /\ Missed(d) # {} => /\ Fired(d).status = row[d].status
                                /\ Fired(d).payload = row[d].payload
                                /\ Fired(d).age = row[d].age
<1>1. RecipientsOf[d] \in SUBSET Recipients /\ row[d] \in RowType
  BY SwitchSets DEF TypeOK
<1>2. CASE Missed(d) = {}
  <2>1. /\ Ended(d, "triggered") \in RowType
        /\ Ended(d, "triggered").status = "triggered"
    BY EndedRow DEF Statuses
  <2>2. Fired(d) = [Ended(d, "triggered")
                      EXCEPT !.delivered = RecipientsOf[d] \ Missed(d)]
    BY <1>2 DEF Fired
  <2>3. QED
    BY <1>1, <1>2, <2>1, <2>2 DEF RowType
<1>3. CASE Missed(d) # {}
  <2>1. Fired(d) = [row[d] EXCEPT !.delivered = RecipientsOf[d] \ Missed(d)]
    BY <1>3 DEF Fired
  <2>2. QED
    BY <1>1, <1>3, <2>1 DEF RowType
<1>4. QED
  BY <1>2, <1>3

(* Removing rows keeps the types of the table and of the history.           *)
LEMMA RemoveType ==
    ASSUME TypeOK, NEW ds \in SUBSET Switches, NEW how \in {"deleted", "reaped"},
           Remove(ds, how)
    PROVE  row' \in [Switches -> RowType] /\ told' \in [Switches -> 0 .. Horizon]
<1>1. [NoRow EXCEPT !.status = how] \in RowType
  BY RemovedRow DEF Statuses
<1>2. row' \in [Switches -> RowType]
  BY <1>1 DEF Remove, TypeOK
<1>3. told' \in [Switches -> 0 .. Horizon]
  BY SwitchNumbers DEF Remove, DropTold, TypeOK, Horizon
<1>4. QED
  BY <1>2, <1>3

(* So does a bump, with any clock reading a handler can hold.               *)
LEMMA BumpType ==
    ASSUME TypeOK, NEW o \in Owners, NEW age \in 0 .. Delay, BumpRows(o, age)
    PROVE  row' \in [Switches -> RowType]
<1>1. age \in 0 .. Horizon
  BY SwitchNumbers DEF Horizon
<1>2. \A d \in Switches : row[d] \in RowType /\ [row[d] EXCEPT !.age = age] \in RowType
  BY <1>1 DEF TypeOK, RowType
<1>3. QED
  BY <1>2 DEF BumpRows

----------------------------------------------------------------------------
(* The steps of one delivery.                                               *)
Delivering == \/ PassSkips \/ PassClaims \/ PassInserts
              \/ PassClaimFails \/ PassInsertFails

(* A delivery has nothing to do with the database.                          *)
LEMMA DeliveryKeeps ==
    ASSUME Delivering
    PROVE  /\ pass.pc = "deliver"
           /\ UNCHANGED <<row, rowLock, quotaLock, seen, strict, handler, told,
                          requests, crashes>>
BY DEF Delivering, PassSkips, PassClaims, PassInserts, PassClaimFails,
       PassInsertFails, Raises

(* What a delivery does to the pass: it leaves the batch and the clock      *)
(* reading, and moves one recipient on.                                     *)
LEMMA DeliveryMoves ==
    ASSUME TypeOK, Delivering
    PROVE  /\ pass'.pc = pass.pc /\ pass'.batch = pass.batch /\ pass'.age = pass.age
           /\ \E p \in pass.todo \cup pass.open :
                /\ \/ /\ p \in pass.todo /\ pass'.todo = pass.todo \ {p}
                      /\ pass'.open = pass.open /\ pass'.failed = pass.failed
                   \/ /\ p \in pass.todo /\ pass'.todo = pass.todo
                      /\ pass'.open = {p} /\ pass'.failed = pass.failed
                   \/ /\ pass'.todo = pass.todo \ {p} /\ pass'.open = {}
                      /\ pass'.failed \in {pass.failed, pass.failed \cup {p}}
                /\ queued' \in {queued, queued \cup {p}, queued \ {p}}
                /\ halfway' \subseteq halfway \cup {p} \cup pass.open
                /\ faults' \in {faults, faults + 1}
                /\ \/ copies' = copies
                   \/ p \in pass.open /\ Send(p)
<1>a. pass \in PassType
  BY DEF TypeOK
<1>1. CASE PassSkips
  BY <1>1, <1>a DEF PassSkips, PassType
<1>2. CASE PassClaims
  BY <1>2, <1>a DEF PassClaims, PassType
<1>3. CASE PassInserts
  BY <1>3, <1>a DEF PassInserts, PassType
<1>4. CASE PassClaimFails
  BY <1>4, <1>a DEF PassClaimFails, Raises, PassType
<1>5. CASE PassInsertFails
  BY <1>5, <1>a DEF PassInsertFails, Raises, PassType
<1>6. QED
  BY <1>1, <1>2, <1>3, <1>4, <1>5 DEF Delivering

(* A delivery keeps the types.                                              *)
LEMMA DeliveryTypes ==
    ASSUME TypeOK, Delivering
    PROVE  /\ pass' \in PassType /\ faults' \in Nat
           /\ queued' \subseteq Switches \X Recipients
           /\ halfway' \subseteq Switches \X Recipients
           /\ copies' \in [Switches -> [Recipients -> Nat]]
<1>a. /\ pass \in PassType /\ faults \in Nat
      /\ pass.todo \subseteq Switches \X Recipients
      /\ pass.open \subseteq Switches \X Recipients
      /\ queued \subseteq Switches \X Recipients
      /\ halfway \subseteq Switches \X Recipients
      /\ copies \in [Switches -> [Recipients -> Nat]]
  BY DEF TypeOK, PassType
<1>1. /\ queued' \subseteq Switches \X Recipients
      /\ halfway' \subseteq Switches \X Recipients /\ faults' \in Nat
  BY <1>a, DeliveryMoves
<1>2. copies' \in [Switches -> [Recipients -> Nat]]
  <2>1. CASE copies' = copies
    BY <2>1, <1>a
  <2>2. CASE \E p \in pass.open : Send(p)
    <3>1. PICK p \in pass.open : Send(p)
      BY <2>2
    <3>2. p[1] \in Switches /\ p[2] \in Recipients
      BY <1>a
    <3>3. QED
      BY <3>1, <3>2, <1>a DEF Send
  <2>3. QED
    BY <2>1, <2>2, DeliveryMoves
<1>3. pass' \in PassType
  <2>1. CASE PassSkips
    BY <2>1, <1>a DEF PassSkips, PassType
  <2>2. CASE PassClaims
    BY <2>2, <1>a DEF PassClaims, PassType
  <2>3. CASE PassInserts
    BY <2>3, <1>a DEF PassInserts, PassType
  <2>4. CASE PassClaimFails \/ PassInsertFails
    <3>1. PICK p \in Switches \X Recipients :
            pass' = [pass EXCEPT !.todo = @ \ {p}, !.open = {}, !.failed = @ \cup {p}]
      BY <2>4, <1>a DEF PassClaimFails, PassInsertFails, Raises
    <3>2. QED
      BY <3>1, <1>a DEF PassType
  <2>6. QED
    BY <2>1, <2>2, <2>3, <2>4 DEF Delivering
<1>4. QED
  BY <1>1, <1>2, <1>3

----------------------------------------------------------------------------
(* Every action keeps the types.                                            *)
LEMMA TypeStep == TypeOK /\ [Next]_vars => TypeOK'
<1> SUFFICES ASSUME TypeOK, [Next]_vars PROVE TypeOK'
  OBVIOUS
<1>a. /\ \A h \in Handlers : /\ handler[h] \in HandlerType /\ handler[h].d \in Switches
                             /\ handler[h].age \in 0 .. Delay
                             /\ handler[h].age \in 0 .. Horizon
                             /\ OwnerOf[handler[h].d] \in Owners
      /\ 0 \in 0 .. Delay /\ 0 \in 0 .. Horizon
      /\ \A o \in Owners : Of(o) \in SUBSET Switches
  BY SwitchSets, SwitchNumbers DEF TypeOK, HandlerType, Horizon, Of
<1>b. handler \in [Handlers -> HandlerType] /\ pass \in PassType
  BY DEF TypeOK
<1>c. \A d \in Switches :
        [seen EXCEPT ![OwnerOf[d]] = 0] \in [Owners -> 0 .. AnonInactive + 1]
  BY SwitchSets, SwitchNumbers DEF TypeOK
<1>d. \A h \in Handlers, d \in Switches, label \in {"checkin", "bump", "signed"} :
        Start(h, label, d) => handler' \in [Handlers -> HandlerType]
  BY <1>a, <1>b DEF Start, HandlerType
<1>1. ASSUME NEW h \in Handlers, NEW d \in Switches, CreateCount(h, d)
      PROVE  TypeOK'
  BY <1>1, <1>a, SwitchSets DEF CreateCount, TypeOK, Start, HandlerType
<1>2. ASSUME NEW h \in Handlers, NEW d \in Switches, CheckInLock(h, d)
      PROVE  TypeOK'
  BY <1>2, <1>c, <1>d DEF CheckInLock, TypeOK
<1>3. ASSUME NEW h \in Handlers, NEW d \in Switches,
             Request(h, d) \/ CheckInSigned(h, d)
      PROVE  TypeOK'
  BY <1>3, <1>c, <1>d DEF Request, CheckInSigned, TypeOK
<1>4. ASSUME NEW h \in Handlers, NEW d \in Switches, CancelLock(h, d)
      PROVE  TypeOK'
  BY <1>4, <1>a DEF CancelLock, TypeOK, Start, HandlerType
<1>5. ASSUME NEW h \in Handlers, CreateCommit(h) PROVE TypeOK'
  <2>1. [status |-> "armed", age |-> handler[h].age, payload |-> TRUE,
         delivered |-> {}] \in RowType
    BY <1>a DEF RowType, Statuses
  <2>2. QED
    BY <1>5, <1>a, <2>1, IdleType DEF CreateCommit, TypeOK, Finish
<1>6. ASSUME NEW h \in Handlers, CheckInCommit(h) PROVE TypeOK'
  <2>1. \A d \in Switches : [row[d] EXCEPT !.age = handler[h].age] \in RowType
    BY <1>a DEF TypeOK, RowType
  <2>2. row' \in [Switches -> RowType]
    BY <1>6, <1>a, <2>1 DEF CheckInCommit, TypeOK
  <2>3. QED
    BY <1>6, <1>a, <2>2, IdleType DEF CheckInCommit, TypeOK, Finish
<1>7. ASSUME NEW h \in Handlers, BumpCommit(h) PROVE TypeOK'
  <2>1. row' \in [Switches -> RowType]
    BY <1>7, <1>a, BumpType DEF BumpCommit
  <2>2. QED
    BY <1>7, <2>1, IdleType DEF BumpCommit, TypeOK, Finish
<1>8. ASSUME NEW h \in Handlers, SignedCommit(h) PROVE TypeOK'
  <2>1. row' \in [Switches -> RowType]
    BY <1>8, <1>a, BumpType DEF SignedCommit
  <2>2. told' \in [Switches -> 0 .. Horizon] /\ strict' \subseteq Owners
    BY <1>8, <1>a DEF SignedCommit, TypeOK
  <2>3. QED
    BY <1>8, <2>1, <2>2, IdleType DEF SignedCommit, TypeOK, Finish
<1>9. ASSUME NEW h \in Handlers, CancelCommit(h) PROVE TypeOK'
  <2>1. \A d \in Switches : Ended(d, "cancelled") \in RowType
    BY EndedRow DEF Statuses
  <2>2. row' \in [Switches -> RowType] /\ rowLock' \in [Switches -> Handlers \cup {"free", "reaper"}]
    BY <1>9, <1>a, <2>1 DEF CancelCommit, TypeOK
  <2>3. told' \in [Switches -> 0 .. Horizon]
    BY <1>9, <1>a DEF CancelCommit, DropTold, TypeOK
  <2>4. QED
    BY <1>9, <2>2, <2>3, IdleType DEF CancelCommit, TypeOK, Finish
<1>10. ASSUME NEW h \in Handlers, Rollback(h) PROVE TypeOK'
  BY <1>10, IdleType DEF Rollback, TypeOK, Finish
<1>11. ASSUME NEW o \in Owners, AccountDelete(o) \/ ReapAnonymous(o) PROVE TypeOK'
  <2>1. row' \in [Switches -> RowType] /\ told' \in [Switches -> 0 .. Horizon]
    BY <1>11, <1>a, RemoveType DEF AccountDelete, ReapAnonymous
  <2>2. QED
    BY <1>11, <2>1 DEF AccountDelete, ReapAnonymous, TypeOK
<1>12. ASSUME NEW d \in Switches, ReapTerminal(d) PROVE TypeOK'
  <2>1. row' \in [Switches -> RowType] /\ told' \in [Switches -> 0 .. Horizon]
    BY <1>12, RemoveType DEF ReapTerminal
  <2>2. QED
    BY <1>12, <2>1 DEF ReapTerminal, TypeOK
<1>13. ASSUME PassStart PROVE TypeOK'
  <2>1. [Asleep EXCEPT !.pc = "select"] \in PassType
    BY <1>a DEF Asleep, PassType
  <2>2. QED
    BY <1>13, <2>1 DEF PassStart, TypeOK
<1>14. ASSUME PassSelect PROVE TypeOK'
  <2> DEFINE due == {d \in Switches : Armed(d) /\ Free(d) /\ Due(d)}
             owed == {p \in due \X Recipients :
                        p[2] \in RecipientsOf[p[1]] \ row[p[1]].delivered}
  <2>1. due \in SUBSET Switches /\ owed \in SUBSET (Switches \X Recipients)
    OBVIOUS
  <2>2. pass' = Asleep \/ pass' = [pass EXCEPT !.pc = "deliver", !.batch = due,
                                               !.todo = owed]
    BY <1>14 DEF PassSelect
  <2> HIDE DEF due, owed
  <2>3. pass' \in PassType
    BY <1>b, <2>1, <2>2, AsleepType DEF PassType
  <2>4. rowLock' \in [Switches -> Handlers \cup {"free", "reaper"}]
    BY <1>14 DEF PassSelect, LockBatch, TypeOK
  <2>5. QED
    BY <1>14, <2>3, <2>4 DEF PassSelect, TypeOK
<1>15. ASSUME Delivering PROVE TypeOK'
  <2>1. /\ pass' \in PassType /\ faults' \in Nat
        /\ queued' \subseteq Switches \X Recipients
        /\ halfway' \subseteq Switches \X Recipients
        /\ copies' \in [Switches -> [Recipients -> Nat]]
    BY <1>15, DeliveryTypes
  <2>2. UNCHANGED <<row, rowLock, quotaLock, seen, strict, handler, told, requests,
                    crashes>>
    BY <1>15, DeliveryKeeps
  <2>3. QED
    BY <2>1, <2>2 DEF TypeOK
<1>17. ASSUME PassCommit PROVE TypeOK'
  <2>1. row' \in [Switches -> RowType]
    BY <1>17, FiredRow DEF PassCommit, TypeOK
  <2>2. told' \in [Switches -> 0 .. Horizon]
    BY <1>17, <1>a DEF PassCommit, DropTold, TypeOK
  <2>3. QED
    BY <1>17, <2>1, <2>2, AsleepType DEF PassCommit, TypeOK
<1>18. ASSUME PassDies PROVE TypeOK'
  <2>1. halfway' \subseteq Switches \X Recipients
    BY <1>18, <1>b DEF PassDies, TypeOK, PassType
  <2>2. QED
    BY <1>18, <2>1, AsleepType DEF PassDies, TypeOK
<1>19. ASSUME NEW p \in Switches \X Recipients, Taken(p) PROVE TypeOK'
  BY <1>19 DEF Taken, TypeOK
<1>20. ASSUME Tick PROVE TypeOK'
  <2>1. row' \in [Switches -> RowType]
    <3>1. \A d \in Switches : /\ row[d] \in RowType
                             /\ [row[d] EXCEPT !.age = Older(@)] \in RowType
      BY OlderType DEF TypeOK, RowType
    <3>2. QED
      BY <1>20, <3>1 DEF Tick
  <2>2. told' \in [Switches -> 0 .. Horizon]
    BY <1>20, OlderType DEF Tick, TypeOK
  <2>3. seen' \in [Owners -> 0 .. AnonInactive + 1]
    BY <1>20, SwitchNumbers DEF Tick, TypeOK, MinOf
  <2>4. pass' \in PassType
    BY <1>20, <1>b, SwitchNumbers DEF Tick, PassType
  <2>5. handler' \in [Handlers -> HandlerType]
    <3>1. ASSUME NEW h \in Handlers, handler[h].age < Delay
          PROVE  [handler[h] EXCEPT !.age = @ + 1] \in HandlerType
      BY <3>1, <1>a, SwitchNumbers DEF HandlerType
    <3>2. QED
      BY <1>20, <1>b, <3>1 DEF Tick, At
  <2>6. QED
    BY <1>20, <2>1, <2>2, <2>3, <2>4, <2>5 DEF Tick, TypeOK
<1>21. ASSUME UNCHANGED vars PROVE TypeOK'
  BY <1>21 DEF vars, TypeOK
<1>22. QED
  BY <1>1, <1>2, <1>3, <1>4, <1>5, <1>6, <1>7, <1>8, <1>9, <1>10, <1>11, <1>12,
     <1>13, <1>14, <1>15, <1>17, <1>18, <1>19, <1>20, <1>21
  DEF Next, Ask, Commit, Pass, Delivering

(* The table of switches, its locks, the handlers and the pass keep their   *)
(* shape: no clock reading is older than the time a handler may take.       *)
THEOREM SwitchTypeCorrect == Spec => []TypeOK
<1>1. Init => TypeOK
  <2> SUFFICES ASSUME Init PROVE TypeOK
    OBVIOUS
  <2>1. NoRow \in RowType
    BY SwitchNumbers DEF NoRow, RowType, Statuses, Horizon
  <2>2. /\ told \in [Switches -> 0 .. Horizon]
        /\ seen \in [Owners -> 0 .. AnonInactive + 1]
        /\ copies \in [Switches -> [Recipients -> Nat]]
    BY SwitchNumbers DEF Init, Horizon
  <2>3. QED
    BY <2>1, <2>2, IdleType, AsleepType DEF Init, TypeOK
<1>2. QED
  BY <1>1, TypeStep, PTL DEF Spec

----------------------------------------------------------------------------
(* Who has locked what: the owner's quota while a creation is under way,    *)
(* the row while a check-in, a cancellation or a delivery is, and what is   *)
(* locked cannot have changed since it was read.                            *)
LockInv ==
    /\ \A h \in Handlers : At(h, "create") =>
           /\ quotaLock[OwnerOf[handler[h].d]] = h
           /\ row[handler[h].d].status = "new"
    /\ \A h \in Handlers : handler[h].pc \in {"checkin", "cancel"} =>
           /\ rowLock[handler[h].d] = h
           /\ Armed(handler[h].d)
    /\ pass.pc = "deliver" =>
           \A d \in pass.batch : rowLock[d] = "reaper" /\ Armed(d)

(* What a step outside the reaper may do to a switch.                       *)
Kept(d) == /\ row'[d].status = row[d].status /\ row'[d].payload = row[d].payload
           /\ row'[d].delivered = row[d].delivered
Created(d) == /\ row[d].status = "new" /\ row'[d].status = "armed"
              /\ row'[d].payload /\ row'[d].delivered = {}
Gone(d) == /\ row[d].status # "new"
           /\ row'[d].status \in {"cancelled", "deleted", "reaped"}
           /\ row'[d].delivered \subseteq row[d].delivered

Outside ==
    \/ \E h \in Handlers : Ask(h) \/ Commit(h)
    \/ \E o \in Owners : AccountDelete(o) \/ ReapAnonymous(o)
    \/ \E d \in Switches : ReapTerminal(d)
    \/ \E p \in Switches \X Recipients : Taken(p)
    \/ Tick

(* What anybody but the pass may do to a row: make it, keep it, or end it   *)
(* while it is free or under its own cancellation.                          *)
LEMMA OutsideMoves ==
    ASSUME TypeOK, LockInv, Outside
    PROVE  /\ \A d \in Switches :
                 \/ Kept(d)
                 \/ \E h \in Handlers : CreateCommit(h) /\ d = handler[h].d
                                       /\ Created(d)
                 \/ /\ Gone(d)
                    /\ \/ Free(d)
                       \/ \E h \in Handlers : CancelCommit(h) /\ d = handler[h].d
           /\ pass'.pc = pass.pc /\ pass'.batch = pass.batch
           /\ pass'.todo = pass.todo /\ pass'.failed = pass.failed
           /\ pass'.open = pass.open
           /\ UNCHANGED <<copies, halfway, crashes, faults>>
           /\ queued' \subseteq queued
<1> DEFINE Moves(d) == \/ Kept(d)
                       \/ \E h \in Handlers : CreateCommit(h) /\ d = handler[h].d
                                             /\ Created(d)
                       \/ /\ Gone(d)
                          /\ \/ Free(d)
                             \/ \E h \in Handlers : /\ CancelCommit(h)
                                                    /\ d = handler[h].d
           Rest == /\ pass'.pc = pass.pc /\ pass'.batch = pass.batch
                   /\ pass'.todo = pass.todo /\ pass'.failed = pass.failed
                   /\ pass'.open = pass.open
                   /\ UNCHANGED <<copies, halfway, crashes, faults>>
                   /\ queued' \subseteq queued
<1>a. /\ \A d \in Switches : row[d] \in RowType
      /\ \A h \in Handlers : handler[h].d \in Switches
      /\ \A o \in Owners : Of(o) \in SUBSET Switches
  BY DEF TypeOK, HandlerType, Of
<1>1. ASSUME row' = row PROVE \A d \in Switches : Moves(d)
  BY <1>1 DEF Kept
<1>2. ASSUME NEW ds \in SUBSET Switches, NEW how \in {"deleted", "reaped"},
             Remove(ds, how)
      PROVE  \A d \in Switches : Moves(d)
  <2> SUFFICES ASSUME NEW d \in Switches PROVE Moves(d)
    OBVIOUS
  <2>1. CASE d \in ds /\ Exists(d)
    <3>1. row'[d] = [NoRow EXCEPT !.status = how] /\ Free(d)
      BY <1>2, <2>1 DEF Remove
    <3>2. row'[d].status = how /\ row'[d].delivered = {}
      BY <3>1, RemovedRow DEF Statuses
    <3>3. QED
      BY <2>1, <3>1, <3>2 DEF Exists, Gone
  <2>2. CASE ~(d \in ds /\ Exists(d))
    BY <1>2, <2>2 DEF Remove, Kept
  <2>3. QED
    BY <2>1, <2>2
<1>3. ASSUME NEW o \in Owners, NEW age, BumpRows(o, age)
      PROVE  \A d \in Switches : Moves(d)
  <2>1. \A d \in Switches : Kept(d)
    BY <1>3, <1>a DEF BumpRows, Kept, RowType
  <2>2. QED
    BY <2>1
<1>4. ASSUME NEW h \in Handlers, Ask(h) PROVE (\A d \in Switches : Moves(d)) /\ Rest
  <2>1. row' = row /\ Rest
    BY <1>4 DEF Ask, CreateCount, CheckInLock, Request, CheckInSigned, CancelLock
  <2>2. QED
    BY <1>1, <2>1
<1>5. ASSUME NEW h \in Handlers, CreateCommit(h)
      PROVE  (\A d \in Switches : Moves(d)) /\ Rest
  <2>1. \A d \in Switches : IF d = handler[h].d THEN Created(d) ELSE Kept(d)
    BY <1>5, <1>a DEF CreateCommit, Created, Kept, LockInv, TypeOK
  <2>2. QED
    BY <1>5, <2>1 DEF CreateCommit
<1>6. ASSUME NEW h \in Handlers, CheckInCommit(h)
      PROVE  (\A d \in Switches : Moves(d)) /\ Rest
  <2>1. \A d \in Switches : Kept(d)
    BY <1>6, <1>a DEF CheckInCommit, Kept, RowType, TypeOK
  <2>2. QED
    BY <1>6, <2>1 DEF CheckInCommit
<1>7. ASSUME NEW h \in Handlers, BumpCommit(h) \/ SignedCommit(h)
      PROVE  (\A d \in Switches : Moves(d)) /\ Rest
  BY <1>7, <1>3, <1>a, SwitchSets DEF BumpCommit, SignedCommit
<1>8. ASSUME NEW h \in Handlers, CancelCommit(h)
      PROVE  (\A d \in Switches : Moves(d)) /\ Rest
  <2>1. \A d \in Switches : IF d = handler[h].d THEN Gone(d) ELSE Kept(d)
    <3>1. /\ Ended(handler[h].d, "cancelled").status = "cancelled"
          /\ Ended(handler[h].d, "cancelled").delivered
               = row[handler[h].d].delivered
      BY <1>a, EndedRow DEF Statuses
    <3>2. row[handler[h].d].status = "armed"
      BY <1>8 DEF CancelCommit, LockInv, At, Armed
    <3>3. QED
      BY <1>8, <1>a, <3>1, <3>2 DEF CancelCommit, Gone, Kept, TypeOK
  <2>2. QED
    BY <1>8, <2>1 DEF CancelCommit
<1>9. ASSUME NEW h \in Handlers, Rollback(h)
      PROVE  (\A d \in Switches : Moves(d)) /\ Rest
  BY <1>9, <1>1 DEF Rollback
<1>10. ASSUME NEW o \in Owners, AccountDelete(o) \/ ReapAnonymous(o)
       PROVE  (\A d \in Switches : Moves(d)) /\ Rest
  BY <1>10, <1>2, <1>a DEF AccountDelete, ReapAnonymous
<1>11. ASSUME NEW d \in Switches, ReapTerminal(d)
       PROVE  (\A e \in Switches : Moves(e)) /\ Rest
  BY <1>11, <1>2 DEF ReapTerminal
<1>12. ASSUME NEW p \in Switches \X Recipients, Taken(p)
       PROVE  (\A d \in Switches : Moves(d)) /\ Rest
  BY <1>12, <1>1 DEF Taken
<1>13. ASSUME Tick PROVE (\A d \in Switches : Moves(d)) /\ Rest
  <2>1. \A d \in Switches : Kept(d)
    BY <1>13, <1>a DEF Tick, Kept, RowType
  <2>2. Rest
    BY <1>13 DEF Tick, TypeOK, PassType
  <2>3. QED
    BY <2>1, <2>2
<1> HIDE DEF Moves, Rest
<1>14. (\A d \in Switches : Moves(d)) /\ Rest
  BY <1>4, <1>5, <1>6, <1>7, <1>8, <1>9, <1>10, <1>11, <1>12, <1>13
  DEF Outside, Commit
<1>15. QED
  BY <1>14 DEF Moves, Rest

(* A step that leaves the locks alone, or gives up those of a handler that  *)
(* ends, keeps what the other holders know.                                 *)
LEMMA LocksKept ==
    ASSUME TypeOK, LockInv, Outside,
           \A h \in Handlers :
               \/ handler'[h].pc \notin {"create", "checkin", "cancel"}
               \/ /\ handler'[h].pc = handler[h].pc /\ handler'[h].d = handler[h].d
                  /\ \A o \in Owners : quotaLock[o] = h => quotaLock'[o] = h
                  /\ \A d \in Switches : rowLock[d] = h => rowLock'[d] = h
                  /\ At(h, "create") => ~Created(handler[h].d)
                  /\ At(h, "cancel") => ~Gone(handler[h].d),
           \A d \in Switches : rowLock[d] = "reaper" => rowLock'[d] = "reaper"
    PROVE  LockInv'
<1>a. /\ \A h \in Handlers : handler[h].d \in Switches
      /\ \A d \in Switches : OwnerOf[d] \in Owners
      /\ pass.batch \in SUBSET Switches
      /\ "free" \notin Handlers /\ "reaper" \notin Handlers
  BY SwitchSets DEF TypeOK, HandlerType, PassType
<1>1. ASSUME NEW h \in Handlers, At(h, "create")'
      PROVE  /\ quotaLock'[OwnerOf[handler'[h].d]] = h
             /\ row'[handler'[h].d].status = "new"
  <2>1. /\ handler[h].pc = "create" /\ handler'[h].d = handler[h].d
        /\ quotaLock'[OwnerOf[handler[h].d]] = h
        /\ row[handler[h].d].status = "new" /\ ~Created(handler[h].d)
    BY <1>1, <1>a DEF LockInv, At
  <2>2. Kept(handler[h].d)
    BY <1>a, <2>1, OutsideMoves DEF Gone
  <2>3. QED
    BY <2>1, <2>2 DEF Kept
<1>2. ASSUME NEW h \in Handlers, handler'[h].pc \in {"checkin", "cancel"}
      PROVE  rowLock'[handler'[h].d] = h /\ row'[handler'[h].d].status = "armed"
  <2>1. /\ handler'[h].pc = handler[h].pc /\ handler'[h].d = handler[h].d
        /\ rowLock'[handler[h].d] = h /\ rowLock[handler[h].d] = h
        /\ row[handler[h].d].status = "armed"
    BY <1>2, <1>a DEF LockInv, Armed
  <2>2. Kept(handler[h].d)
    <3>1. ~Free(handler[h].d)
      BY <2>1, <1>a DEF Free
    <3>2. \A g \in Handlers : At(g, "cancel") /\ handler[g].d = handler[h].d => g = h
      BY <2>1 DEF LockInv, At
    <3>3. QED
      BY <1>2, <1>a, <2>1, <3>1, <3>2, OutsideMoves DEF Created, At, CancelCommit
  <2>3. QED
    BY <2>1, <2>2 DEF Kept
<1>3. ASSUME pass'.pc = "deliver", NEW d \in pass'.batch
      PROVE  rowLock'[d] = "reaper" /\ row'[d].status = "armed"
  <2>1. d \in Switches /\ rowLock[d] = "reaper" /\ row[d].status = "armed"
    BY <1>3, <1>a, OutsideMoves DEF LockInv, Armed
  <2>2. Kept(d)
    <3>1. ~Free(d) /\ \A h \in Handlers : At(h, "cancel") => handler[h].d # d
      BY <2>1, <1>a DEF Free, LockInv, At
    <3>2. QED
      BY <2>1, <3>1, OutsideMoves DEF Created, CancelCommit
  <2>3. QED
    BY <2>1, <2>2 DEF Kept
<1>4. QED
  BY <1>1, <1>2, <1>3 DEF LockInv, Armed, At

(* Every step keeps the locks and their holders in agreement.               *)
LEMMA LockStep == TypeOK /\ TypeOK' /\ LockInv /\ [Next]_vars => LockInv'
<1> SUFFICES ASSUME TypeOK, TypeOK', LockInv, [Next]_vars PROVE LockInv'
  OBVIOUS
<1>a. /\ \A h \in Handlers : handler[h].d \in Switches
      /\ \A d \in Switches : OwnerOf[d] \in Owners
      /\ pass.batch \in SUBSET Switches
      /\ "free" \notin Handlers /\ "reaper" \notin Handlers
      /\ handler \in [Handlers -> HandlerType]
      /\ rowLock \in [Switches -> Handlers \cup {"free", "reaper"}]
      /\ quotaLock \in [Owners -> Handlers \cup {"free"}]
  BY SwitchSets DEF TypeOK, HandlerType, PassType
<1>1. ASSUME NEW h \in Handlers, NEW d \in Switches, CreateCount(h, d)
      PROVE  LockInv'
  <2>1. /\ row' = row /\ rowLock' = rowLock /\ pass' = pass
        /\ row[d].status = "new" /\ quotaLock[OwnerOf[d]] = "free"
        /\ quotaLock' = [quotaLock EXCEPT ![OwnerOf[d]] = h]
        /\ handler' = [handler EXCEPT ![h] = [pc |-> "create", d |-> d, age |-> 0]]
    BY <1>1 DEF CreateCount, Start
  <2>2. QED
    BY <2>1, <1>a DEF LockInv, At, Armed
<1>2. ASSUME NEW h \in Handlers, NEW d \in Switches,
             CheckInLock(h, d) \/ CancelLock(h, d)
      PROVE  LockInv'
  <2>1. /\ row' = row /\ quotaLock' = quotaLock /\ pass' = pass
        /\ row[d].status = "armed" /\ rowLock[d] = "free"
        /\ rowLock' = [rowLock EXCEPT ![d] = h]
        /\ \E label \in {"checkin", "cancel"} :
             handler' = [handler EXCEPT ![h] = [pc |-> label, d |-> d, age |-> 0]]
    BY <1>2 DEF CheckInLock, CancelLock, Start, Armed, Free
  <2>2. QED
    BY <2>1, <1>a DEF LockInv, At, Armed
<1>3. ASSUME NEW h \in Handlers, NEW d \in Switches,
             Request(h, d) \/ CheckInSigned(h, d)
      PROVE  LockInv'
  <2>1. /\ row' = row /\ quotaLock' = quotaLock /\ pass' = pass
        /\ rowLock' = rowLock
        /\ \E label \in {"bump", "signed"} :
             handler' = [handler EXCEPT ![h] = [pc |-> label, d |-> d, age |-> 0]]
    BY <1>3 DEF Request, CheckInSigned, Start
  <2>2. QED
    BY <2>1, <1>a DEF LockInv, At, Armed
<1>4. ASSUME NEW h \in Handlers, Commit(h) PROVE LockInv'
  <2>1. handler' = [handler EXCEPT ![h] = Idle]
    BY <1>4 DEF Commit, CreateCommit, CheckInCommit, BumpCommit, SignedCommit,
                CancelCommit, Rollback, Finish
  <2>2. handler'[h].pc = "idle"
    BY <2>1, <1>a, IdleType
  <2>3. ASSUME NEW g \in Handlers, g # h
        PROVE  /\ handler'[g] = handler[g]
               /\ \A o \in Owners : quotaLock[o] = g => quotaLock'[o] = g
               /\ \A d \in Switches : rowLock[d] = g => rowLock'[d] = g
    <3>1. handler'[g] = handler[g]
      BY <2>1, <2>3
    <3>2. CASE CreateCommit(h)
      BY <2>3, <3>1, <3>2, <1>a DEF CreateCommit, LockInv
    <3>3. CASE CheckInCommit(h)
      BY <2>3, <3>1, <3>3, <1>a DEF CheckInCommit, LockInv, At
    <3>4. CASE CancelCommit(h)
      BY <2>3, <3>1, <3>4, <1>a DEF CancelCommit, LockInv, At
    <3>5. CASE BumpCommit(h) \/ SignedCommit(h)
      BY <3>1, <3>5 DEF BumpCommit, SignedCommit
    <3>6. CASE Rollback(h)
      BY <2>3, <3>1, <3>6, <1>a DEF Rollback
    <3>7. QED
      BY <1>4, <3>2, <3>3, <3>4, <3>5, <3>6 DEF Commit
  <2>4. ASSUME NEW d \in Switches, rowLock[d] = "reaper"
        PROVE  rowLock'[d] = "reaper"
    <3>1. CASE CheckInCommit(h) \/ CancelCommit(h)
      BY <2>4, <3>1, <1>a DEF CheckInCommit, CancelCommit, LockInv, At
    <3>2. CASE CreateCommit(h) \/ BumpCommit(h) \/ SignedCommit(h)
      BY <2>4, <3>2 DEF CreateCommit, BumpCommit, SignedCommit
    <3>3. CASE Rollback(h)
      BY <2>4, <3>3, <1>a DEF Rollback
    <3>4. QED
      BY <1>4, <3>1, <3>2, <3>3 DEF Commit
  <2>5. ASSUME NEW g \in Handlers, g # h, At(g, "create")
        PROVE  ~Created(handler[g].d)
    <3>1. \A f \in Handlers : At(f, "create") /\ handler[f].d = handler[g].d => f = g
      BY <2>5 DEF LockInv
    <3>2. CASE CreateCommit(h)
      <4>1. handler[h].d # handler[g].d
        BY <2>5, <3>1, <3>2 DEF CreateCommit
      <4>2. row'[handler[g].d] = row[handler[g].d]
        BY <3>2, <4>1, <1>a DEF CreateCommit, TypeOK
      <4>3. QED
        BY <4>2 DEF Created
    <3>3. CASE ~CreateCommit(h)
      <4>1. row[handler[g].d].status = "new"
        BY <2>5 DEF LockInv
      <4>2. row'[handler[g].d].status # "armed"
        <5>1. CASE CheckInCommit(h) \/ CancelCommit(h)
          <6>1. handler[h].d # handler[g].d
            BY <4>1, <5>1 DEF CheckInCommit, CancelCommit, LockInv, At, Armed
          <6>2. row'[handler[g].d] = row[handler[g].d]
            BY <5>1, <6>1, <1>a DEF CheckInCommit, CancelCommit, TypeOK
          <6>3. QED
            BY <4>1, <6>2
        <5>2. CASE BumpCommit(h) \/ SignedCommit(h)
          BY <4>1, <5>2, <1>a DEF BumpCommit, SignedCommit, BumpRows, ArmedOf, Armed
        <5>3. CASE Rollback(h)
          BY <4>1, <5>3 DEF Rollback
        <5>4. QED
          BY <1>4, <3>3, <5>1, <5>2, <5>3 DEF Commit
      <4>3. QED
        BY <4>2 DEF Created
    <3>4. QED
      BY <3>2, <3>3
  <2>6. ASSUME NEW g \in Handlers, g # h, At(g, "cancel")
        PROVE  ~Gone(handler[g].d)
    <3>1. rowLock[handler[g].d] = g /\ rowLock'[handler[g].d] = g
      BY <2>3, <2>6, <1>a DEF LockInv, At
    <3>2. ~Gone(handler[g].d) \/ Free(handler[g].d) \/ At(h, "cancel")
      <4>1. CASE CancelCommit(h)
        BY <4>1 DEF CancelCommit
      <4>2. CASE ~CancelCommit(h)
        <5>1. row[handler[g].d].status = "armed" /\ row[handler[g].d] \in RowType
          BY <2>6, <1>a DEF LockInv, At, Armed, TypeOK
        <5>2. row'[handler[g].d].status = "armed"
          <6>1. CASE CreateCommit(h)
            BY <5>1, <6>1, <1>a DEF CreateCommit, TypeOK
          <6>4. CASE CheckInCommit(h)
            BY <5>1, <6>4, <1>a DEF CheckInCommit, RowType, TypeOK
          <6>2. CASE BumpCommit(h) \/ SignedCommit(h)
            BY <5>1, <6>2, <1>a DEF BumpCommit, SignedCommit, BumpRows, RowType
          <6>3. CASE Rollback(h)
            BY <5>1, <6>3 DEF Rollback
          <6>5. QED
            BY <1>4, <4>2, <6>1, <6>2, <6>3, <6>4 DEF Commit
        <5>3. QED
          BY <5>2 DEF Gone
      <4>3. QED
        BY <4>1, <4>2
    <3>3. ~Free(handler[g].d)
      BY <3>1, <1>a DEF Free
    <3>4. CASE At(h, "cancel")
      <4>1. handler[h].d # handler[g].d /\ row[handler[g].d].status = "armed"
        BY <2>6, <3>1, <3>4 DEF LockInv, At, Armed
      <4>2. row'[handler[g].d].status = "armed"
        BY <1>4, <3>4, <4>1, <1>a
        DEF Commit, CreateCommit, CheckInCommit, BumpCommit, SignedCommit,
            CancelCommit, Rollback, At, TypeOK
      <4>3. QED
        BY <4>2 DEF Gone
    <3>5. QED
      BY <3>2, <3>3, <3>4
  <2>7. Outside
    BY <1>4 DEF Outside
  <2>8. QED
    BY <2>2, <2>3, <2>4, <2>5, <2>6, <2>7, LocksKept
<1>5. ASSUME \/ \E o \in Owners : AccountDelete(o) \/ ReapAnonymous(o)
             \/ \E d \in Switches : ReapTerminal(d)
             \/ \E p \in Switches \X Recipients : Taken(p)
      PROVE  LockInv'
  <2>1. /\ UNCHANGED <<handler, rowLock, quotaLock>> /\ Outside
        /\ \A d \in Switches : ~Created(d)
    BY <1>5 DEF AccountDelete, ReapAnonymous, ReapTerminal, Taken, Outside, Remove,
                NoRow, Created
  <2>2. \A h \in Handlers : At(h, "cancel") => ~Gone(handler[h].d)
    <3> SUFFICES ASSUME NEW h \in Handlers, At(h, "cancel") PROVE ~Gone(handler[h].d)
      OBVIOUS
    <3>1. rowLock[handler[h].d] = h /\ row[handler[h].d].status = "armed"
      BY DEF LockInv, At, Armed
    <3>2. ~Free(handler[h].d)
      BY <3>1, <1>a DEF Free
    <3>3. row'[handler[h].d] = row[handler[h].d]
      BY <1>5, <3>2, <1>a DEF AccountDelete, ReapAnonymous, ReapTerminal, Taken, Remove
    <3>4. QED
      BY <3>1, <3>3 DEF Gone
  <2>3. QED
    BY <2>1, <2>2, <1>a, LocksKept
<1>6. ASSUME Tick PROVE LockInv'
  <2>1. \A h \in Handlers : handler'[h].pc = handler[h].pc /\ handler'[h].d = handler[h].d
    BY <1>6, <1>a DEF Tick, HandlerType
  <2>2. UNCHANGED <<rowLock, quotaLock>> /\ Outside
    BY <1>6 DEF Tick, Outside
  <2>3. \A d \in Switches : row'[d].status = row[d].status
    BY <1>6 DEF Tick, TypeOK, RowType
  <2>4. \A d \in Switches : ~Created(d)
    BY <2>3 DEF Created
  <2>5. \A h \in Handlers : At(h, "cancel") => ~Gone(handler[h].d)
    BY <2>3, <1>a DEF LockInv, At, Armed, Gone
  <2>6. QED
    BY <2>1, <2>2, <2>4, <2>5, <1>a, LocksKept
<1>7. ASSUME PassStart PROVE LockInv'
  BY <1>7, AsleepType DEF PassStart, LockInv, At, Armed, Asleep
<1>8. ASSUME PassSelect PROVE LockInv'
  <2> DEFINE due == {d \in Switches : Armed(d) /\ Free(d) /\ Due(d)}
  <2>1. /\ rowLock' = [d \in Switches |-> IF d \in due THEN "reaper" ELSE rowLock[d]]
        /\ pass'.pc = "deliver" => pass'.batch = due
        /\ UNCHANGED <<row, quotaLock, handler>>
    BY <1>8 DEF PassSelect, LockBatch, TypeOK, PassType, Asleep
  <2>2. \A d \in due : d \in Switches /\ Armed(d) /\ rowLock[d] = "free"
    BY DEF Free
  <2> HIDE DEF due
  <2>3. QED
    BY <2>1, <2>2, <1>a DEF LockInv, At, Armed
<1>9. ASSUME Delivering PROVE LockInv'
  <2>1. /\ UNCHANGED <<row, rowLock, quotaLock, handler>>
        /\ pass'.pc = pass.pc /\ pass'.batch = pass.batch
    BY <1>9, DeliveryKeeps, DeliveryMoves
  <2>2. QED
    BY <2>1 DEF LockInv, At, Armed
<1>10. ASSUME PassCommit PROVE LockInv'
  <2>1. /\ UNCHANGED <<handler, quotaLock>> /\ pass'.pc = "idle"
        /\ \A d \in Switches : rowLock[d] # "reaper" =>
             rowLock'[d] = rowLock[d] /\ row'[d] = row[d]
        /\ \A d \in Switches : row[d].status = "new" => row'[d] = row[d]
    BY <1>10, AsleepType DEF PassCommit, LockInv, Armed
  <2>2. QED
    BY <2>1, <1>a DEF LockInv, At, Armed
<1>11. ASSUME PassDies PROVE LockInv'
  <2>1. /\ UNCHANGED <<row, handler, quotaLock>> /\ pass'.pc = "idle"
        /\ \A d \in Switches : rowLock[d] # "reaper" => rowLock'[d] = rowLock[d]
    BY <1>11, AsleepType DEF PassDies
  <2>2. QED
    BY <2>1, <1>a DEF LockInv, At, Armed
<1>12. ASSUME UNCHANGED vars PROVE LockInv'
  BY <1>12 DEF vars, LockInv, At, Armed
<1>13. QED
  BY <1>1, <1>2, <1>3, <1>4, <1>5, <1>6, <1>7, <1>8, <1>9, <1>10, <1>11, <1>12
  DEF Next, Ask, Pass, Delivering

(* At first nobody holds a lock.                                            *)
LEMMA LockInit == Init => LockInv
BY IdleType, AsleepType DEF Init, LockInv, At

----------------------------------------------------------------------------
(* While a creation holds the owner's lock its count stays true.            *)
QuotaInv ==
    /\ ActiveQuota
    /\ \A h \in Handlers : At(h, "create") => HasQuota(OwnerOf[handler[h].d])

(* The armed switches of an owner can be counted.                           *)
LEMMA ArmedFinite ==
    ASSUME NEW o \in Owners
    PROVE  IsFiniteSet(ArmedOf(o)) /\ Cardinality(ArmedOf(o)) \in Nat
<1>1. ArmedOf(o) \in SUBSET Switches
  BY DEF ArmedOf, Of
<1>2. QED
  BY <1>1, SwitchSets, FS_Subset, FS_CardinalityType

(* Only the commit of a creation arms a switch.                             *)
LEMMA OnlyCreationArms ==
    ASSUME TypeOK, LockInv, [Next]_vars, \A h \in Handlers : ~CreateCommit(h),
           NEW d \in Switches, Armed(d)'
    PROVE  Armed(d)
<1>1. CASE Outside
  BY <1>1, OutsideMoves DEF Kept, Gone, Armed
<1>2. CASE PassStart \/ PassSelect \/ Delivering \/ PassDies
  BY <1>2, DeliveryKeeps DEF PassStart, PassSelect, PassDies, Armed
<1>3. CASE PassCommit
  BY <1>3 DEF PassCommit, LockInv, Armed
<1>4. CASE UNCHANGED vars
  BY <1>4 DEF vars, Armed
<1>5. QED
  BY <1>1, <1>2, <1>3, <1>4 DEF Next, Outside, Pass, Delivering

(* Only CreateCount takes a handler to the commit of a creation.            *)
LEMMA OnlyCountCreates ==
    ASSUME TypeOK, [Next]_vars, NEW h \in Handlers, At(h, "create")',
           \A d \in Switches : ~CreateCount(h, d)
    PROVE  At(h, "create") /\ handler'[h].d = handler[h].d
<1>a. handler \in [Handlers -> HandlerType] /\ Idle.pc = "idle"
  BY IdleType DEF TypeOK
<1>1. ASSUME NEW g \in Handlers, Ask(g) PROVE handler'[h] = handler[h]
  BY <1>1, <1>a DEF Ask, CreateCount, CheckInLock, Request, CheckInSigned,
                    CancelLock, Start, At
<1>2. ASSUME NEW g \in Handlers, Commit(g) PROVE handler'[h] = handler[h]
  BY <1>2, <1>a DEF Commit, CreateCommit, CheckInCommit, BumpCommit, SignedCommit,
                    CancelCommit, Rollback, Finish, At
<1>3. CASE Tick
  BY <1>3, <1>a DEF Tick, At, HandlerType
<1>4. CASE handler' = handler
  BY <1>4 DEF At
<1>5. QED
  BY <1>1, <1>2, <1>3, <1>4, DeliveryKeeps
  DEF Next, Pass, Delivering, AccountDelete, ReapAnonymous, ReapTerminal, PassStart,
      PassSelect, PassCommit, PassDies, Taken, vars, At

(* The count a creation made under the advisory lock stays true until it    *)
(* commits.                                                                 *)
LEMMA QuotaStep ==
    TypeOK /\ TypeOK' /\ LockInv /\ LockInv' /\ QuotaInv /\ [Next]_vars => QuotaInv'
<1> SUFFICES ASSUME TypeOK, TypeOK', LockInv, LockInv', QuotaInv, [Next]_vars
             PROVE  QuotaInv'
  OBVIOUS
<1>a. /\ \A h \in Handlers : handler[h].d \in Switches /\ handler'[h].d \in Switches
      /\ \A d \in Switches : OwnerOf[d] \in Owners
      /\ MaxActive \in Nat
  BY SwitchSets, SwitchNumbers DEF TypeOK, HandlerType
<1>1. CASE \E h \in Handlers : CreateCommit(h)
  <2>1. PICK h \in Handlers : CreateCommit(h)
    BY <1>1
  <2> DEFINE n == handler[h].d
  <2>2. /\ n \in Switches /\ At(h, "create") /\ row' = [row EXCEPT ![n] = row'[n]]
        /\ row'[n].status = "armed"
        /\ handler' = [handler EXCEPT ![h] = Idle]
    BY <2>1, <1>a DEF CreateCommit, Finish, TypeOK
  <2> HIDE DEF n
  <2>3. ASSUME NEW o \in Owners
        PROVE  ArmedOf(o)' = IF o = OwnerOf[n] THEN ArmedOf(o) \cup {n} ELSE ArmedOf(o)
    BY <2>2 DEF ArmedOf, Of, Armed, TypeOK
  <2>4. Cardinality(ArmedOf(OwnerOf[n])) < MaxActive
    BY <2>2 DEF QuotaInv, HasQuota, n
  <2>5. ASSUME NEW o \in Owners PROVE Cardinality(ArmedOf(o)') <= MaxActive
    <3>1. CASE o = OwnerOf[n]
      <4>1. IsFiniteSet(ArmedOf(o)) /\ Cardinality(ArmedOf(o)) \in Nat
        BY ArmedFinite
      <4>2. \/ Cardinality(ArmedOf(o) \cup {n}) = Cardinality(ArmedOf(o))
            \/ Cardinality(ArmedOf(o) \cup {n}) = Cardinality(ArmedOf(o)) + 1
        BY <4>1, FS_AddElement
      <4>3. Cardinality(ArmedOf(o)') = Cardinality(ArmedOf(o) \cup {n})
        BY <2>3, <3>1
      <4>4. QED
        BY <2>4, <3>1, <4>1, <4>2, <4>3, <1>a
    <3>2. CASE o # OwnerOf[n]
      BY <2>3, <3>2 DEF QuotaInv, ActiveQuota
    <3>3. QED
      BY <3>1, <3>2
  <2>6. ASSUME NEW g \in Handlers, At(g, "create")'
        PROVE  HasQuota(OwnerOf[handler[g].d])' /\ handler'[g] = handler[g]
    <3>1. g # h /\ handler'[g] = handler[g] /\ At(g, "create")
      BY <2>2, <2>6, IdleType DEF At, TypeOK
    <3>2. OwnerOf[handler[g].d] # OwnerOf[n]
      BY <2>2, <3>1 DEF LockInv, n
    <3>3. ArmedOf(OwnerOf[handler[g].d])' = ArmedOf(OwnerOf[handler[g].d])
      <4> DEFINE o == OwnerOf[handler[g].d]
      <4>1. o \in Owners /\ o # OwnerOf[n]
        BY <3>2, <1>a
      <4>2. \A d \in Of(o) : row'[d] = row[d]
        BY <2>2, <4>1 DEF Of, TypeOK
      <4> HIDE DEF o
      <4>3. {d \in Of(o) : row'[d].status = "armed"}
              = {d \in Of(o) : row[d].status = "armed"}
        BY <4>2
      <4>4. QED
        BY <3>1, <4>3 DEF ArmedOf, Armed, Of, o
    <3>4. HasQuota(OwnerOf[handler[g].d])
      BY <3>1 DEF QuotaInv
    <3>5. QED
      BY <3>1, <3>3, <3>4 DEF HasQuota
  <2>7. QED
    BY <2>5, <2>6 DEF QuotaInv, ActiveQuota
<1>2. CASE \A h \in Handlers : ~CreateCommit(h)
  <2>1. ASSUME NEW o \in Owners
        PROVE  /\ Cardinality(ArmedOf(o)') <= Cardinality(ArmedOf(o))
               /\ Cardinality(ArmedOf(o)) \in Nat /\ Cardinality(ArmedOf(o)') \in Nat
    <3>1. ArmedOf(o)' \in SUBSET ArmedOf(o)
      BY <1>2, OnlyCreationArms DEF ArmedOf, Of
    <3>2. QED
      BY <3>1, ArmedFinite, FS_Subset, FS_CardinalityType
  <2>2. ActiveQuota'
    BY <2>1, <1>a DEF QuotaInv, ActiveQuota
  <2>3. ASSUME NEW h \in Handlers, At(h, "create")'
        PROVE  Cardinality(ArmedOf(OwnerOf[handler'[h].d])) < MaxActive
    <3>1. CASE \E d \in Switches : CreateCount(h, d)
      <4>1. PICK d \in Switches : CreateCount(h, d)
        BY <3>1
      <4>2. handler'[h].d = d /\ HasQuota(OwnerOf[d])
        BY <4>1 DEF CreateCount, Start, TypeOK
      <4>3. QED
        BY <4>2 DEF HasQuota
    <3>2. CASE \A d \in Switches : ~CreateCount(h, d)
      <4>1. At(h, "create") /\ handler'[h].d = handler[h].d
        BY <2>3, <3>2, OnlyCountCreates
      <4>2. QED
        BY <4>1 DEF QuotaInv, HasQuota
    <3>3. QED
      BY <3>1, <3>2
  <2>4. ASSUME NEW h \in Handlers, At(h, "create")'
        PROVE  HasQuota(OwnerOf[handler[h].d])'
    <3>1. PICK o \in Owners : o = OwnerOf[handler'[h].d]
      BY <1>a
    <3>2. Cardinality(ArmedOf(o)) < MaxActive
      BY <2>3, <2>4, <3>1
    <3>3. Cardinality(ArmedOf(o)') < MaxActive
      BY <2>1, <3>2, <1>a
    <3>4. QED
      BY <3>1, <3>3 DEF HasQuota, ArmedOf, Of, Armed
  <2>5. QED
    BY <2>2, <2>4 DEF QuotaInv
<1>3. QED
  BY <1>1, <1>2

(* create_dms: the advisory lock makes the count and the insert one step    *)
(* for the owner, so no interleaving of creations exceeds the quota.        *)
THEOREM ActiveQuotaHolds == Spec => []ActiveQuota
<1>1. Init => QuotaInv
  <2> SUFFICES ASSUME Init PROVE QuotaInv
    OBVIOUS
  <2>1. \A o \in Owners : ArmedOf(o) = {}
    BY DEF Init, ArmedOf, Of, Armed, NoRow
  <2>2. \A o \in Owners : Cardinality(ArmedOf(o)) <= MaxActive
    BY <2>1, FS_EmptySet, SwitchNumbers
  <2>3. \A h \in Handlers : ~At(h, "create")
    BY IdleType DEF Init, At
  <2>4. QED
    BY <2>2, <2>3 DEF QuotaInv, ActiveQuota
<1>2. QuotaInv => ActiveQuota
  BY DEF QuotaInv
<1>3. QED
  BY <1>1, <1>2, LockInit, LockStep, QuotaStep, SwitchTypeCorrect, PTL DEF Spec

----------------------------------------------------------------------------
(* What the pass still has to deliver belongs to the batch it has locked,   *)
(* the delivery under way included.                                         *)
TodoInv ==
    /\ pass.pc # "deliver" => pass.failed = {} /\ pass.open = {}
    /\ pass.pc = "deliver" =>
           /\ \A p \in pass.todo \cup pass.failed :
                  p[1] \in pass.batch /\ p[2] \in RecipientsOf[p[1]]
           /\ pass.todo \cap pass.failed = {} /\ pass.open \subseteq pass.todo
           /\ pass.open = {} \/ \E p \in pass.todo : pass.open = {p}

(* A payload leaves only in a delivery of the pass, to a recipient on its   *)
(* list.                                                                    *)
LEMMA OnlyDeliverySends ==
    ASSUME TypeOK, TodoInv, [Next]_vars, copies' # copies
    PROVE  /\ pass.pc = "deliver"
           /\ \E p \in pass.todo : copies' = [copies EXCEPT ![p[1]][p[2]] = @ + 1]
<1>1. Delivering
  BY DEF Next, Ask, Commit, Pass, CreateCount, CheckInLock, Request, CheckInSigned,
         CancelLock, CreateCommit, CheckInCommit, BumpCommit, SignedCommit,
         CancelCommit, Rollback, AccountDelete, ReapAnonymous, ReapTerminal,
         PassStart, PassSelect, Delivering, PassCommit, PassDies, Taken, Tick, vars
<1>2. QED
  BY <1>1, DeliveryKeeps, DeliveryMoves DEF Send, TodoInv

(* What the pass has still to deliver belongs to switches it holds, all of  *)
(* them armed.                                                              *)
LEMMA TodoStep == TypeOK /\ LockInv /\ TodoInv /\ [Next]_vars => TodoInv'
<1> SUFFICES ASSUME TypeOK, LockInv, TodoInv, [Next]_vars PROVE TodoInv'
  OBVIOUS
<1>a. pass \in PassType
  BY DEF TypeOK
<1>1. CASE Outside
  BY <1>1, OutsideMoves DEF TodoInv
<1>2. CASE PassStart \/ PassCommit \/ PassDies
  <2>1. pass'.pc # "deliver" /\ pass'.failed = {} /\ pass'.open = {}
    BY <1>2, AsleepType DEF PassStart, PassCommit, PassDies, Asleep
  <2>2. QED
    BY <2>1 DEF TodoInv
<1>3. CASE PassSelect
  <2>1. /\ pass'.failed = pass.failed \/ pass'.failed = {}
        /\ pass'.open = pass.open \/ pass'.open = {}
        /\ pass'.pc = "deliver" => \A p \in pass'.todo :
             p[1] \in pass'.batch /\ p[2] \in RecipientsOf[p[1]]
    BY <1>3, <1>a DEF PassSelect, PassType, Asleep
  <2>2. pass.failed = {} /\ pass.open = {}
    BY <1>3 DEF PassSelect, TodoInv
  <2>3. QED
    BY <2>1, <2>2 DEF TodoInv
<1>4. CASE Delivering
  <2>1. pass.pc = "deliver" /\ pass'.pc = "deliver" /\ pass'.batch = pass.batch
    BY <1>4, DeliveryKeeps, DeliveryMoves
  <2>2. CASE PassSkips
    <3>1. PICK p \in pass.todo : pass' = [pass EXCEPT !.todo = @ \ {p}]
      BY <2>2 DEF PassSkips
    <3>2. /\ pass'.todo = pass.todo \ {p} /\ pass'.open = pass.open
          /\ pass'.failed = pass.failed /\ pass.open = {}
      BY <2>2, <3>1, <1>a DEF PassType, PassSkips
    <3>3. QED
      BY <2>1, <3>2 DEF TodoInv
  <2>3. CASE PassClaims
    <3>1. PICK p \in pass.todo : pass' = [pass EXCEPT !.open = {p}]
      BY <2>3 DEF PassClaims
    <3>2. /\ pass'.todo = pass.todo /\ pass'.open = {p}
          /\ pass'.failed = pass.failed
      BY <3>1, <1>a DEF PassType
    <3>3. QED
      BY <2>1, <3>2 DEF TodoInv
  <2>4. CASE PassInserts \/ PassClaimFails \/ PassInsertFails
    <3>1. PICK p \in pass.todo :
            \/ pass' = [pass EXCEPT !.todo = @ \ {p}, !.open = {}]
            \/ pass' = [pass EXCEPT !.todo = @ \ {p}, !.open = {},
                                    !.failed = @ \cup {p}]
      BY <2>1, <2>4
      DEF PassInserts, PassClaimFails, PassInsertFails, Raises, TodoInv
    <3>2. /\ pass'.todo = pass.todo \ {p} /\ pass'.open = {}
          /\ pass'.failed \in {pass.failed, pass.failed \cup {p}}
      BY <3>1, <1>a DEF PassType
    <3>3. QED
      BY <2>1, <3>2 DEF TodoInv
  <2>5. QED
    BY <1>4, <2>2, <2>3, <2>4 DEF Delivering
<1>6. CASE UNCHANGED vars
  BY <1>6 DEF vars, TodoInv
<1>7. QED
  BY <1>1, <1>2, <1>3, <1>4, <1>6 DEF Next, Outside, Pass, Delivering

(* At first no pass holds anything.                                         *)
LEMMA TodoInit == Init => TodoInv
BY DEF Init, TodoInv, Asleep

(* A cancelled, deleted or triggered switch never sends: the pass holds the *)
(* row lock from its SELECT to its commit.                                  *)
THEOREM OnlyArmedSendsHolds == Spec => OnlyArmedSends
<1>1. TypeOK /\ LockInv /\ TodoInv /\ [Next]_vars =>
        [\A d \in Switches : copies'[d] # copies[d] => Armed(d)]_vars
  <2> SUFFICES ASSUME TypeOK, LockInv, TodoInv, [Next]_vars, NEW d \in Switches,
                      copies'[d] # copies[d]
               PROVE  Armed(d)
    OBVIOUS
  <2>1. /\ pass.pc = "deliver"
        /\ \E p \in pass.todo : copies' = [copies EXCEPT ![p[1]][p[2]] = @ + 1]
    BY OnlyDeliverySends
  <2>2. d \in pass.batch
    BY <2>1 DEF TodoInv, TypeOK
  <2>3. QED
    BY <2>1, <2>2 DEF LockInv
<1>2. QED
  BY <1>1, SwitchTypeCorrect, LockInit, LockStep, TodoInit, TodoStep, TypeStep, PTL
  DEF Spec, OnlyArmedSends

----------------------------------------------------------------------------
(* The check-in stored in a row is behind the last confirmed one by no more *)
(* than a slow bump can be, and a row the pass has locked stays silent.     *)
SilenceInv ==
    \A d \in Switches :
        /\ Armed(d) => row[d].age <= told[d] + Delay
        /\ pass.pc = "deliver" /\ d \in pass.batch =>
               told[d] - pass.age >= Trigger - Delay

(* Every step keeps the age of a row within Delay of the last sign of life, *)
(* and the pass to switches whose owner was silent when it selected them.   *)
LEMMA SilenceStep == TypeOK /\ TypeOK' /\ LockInv /\ LockInv' /\ SilenceInv
                       /\ [Next]_vars => SilenceInv'
<1> SUFFICES ASSUME TypeOK, TypeOK', LockInv, LockInv', SilenceInv, [Next]_vars
             PROVE  SilenceInv'
  OBVIOUS
<1>a. /\ Delay \in Nat /\ Trigger \in Nat /\ Horizon = Trigger + Delay
      /\ \A d \in Switches : /\ told[d] \in 0 .. Horizon /\ told'[d] \in 0 .. Horizon
                             /\ row[d] \in RowType /\ row[d].age \in 0 .. Horizon
                             /\ row'[d].age \in 0 .. Horizon
      /\ pass \in PassType /\ pass.age \in 0 .. Delay /\ pass'.age \in 0 .. Delay
      /\ pass.batch \in SUBSET Switches
      /\ \A h \in Handlers : handler[h].d \in Switches /\ handler[h].age \in 0 .. Delay
      /\ "reaper" \notin Handlers
  BY SwitchNumbers, SwitchSets DEF Horizon, TypeOK, RowType, PassType, HandlerType
(* Every action but Tick and PassSelect: what is armed was so and has kept  *)
(* its times, or has new ones that agree; the batch has kept its times.     *)
<1>b. ASSUME pass'.age = pass.age,
             pass'.pc = "deliver" => pass.pc = "deliver" /\ pass'.batch = pass.batch,
             \A d \in Switches :
               /\ Armed(d)' => \/ Armed(d) /\ row'[d].age = row[d].age
                                          /\ told'[d] = told[d]
                               \/ row'[d].age <= Delay
                               \/ row'[d].age = told'[d]
               /\ rowLock[d] = "reaper" /\ Armed(d)' => told'[d] = told[d]
      PROVE  SilenceInv'
  <2>1. ASSUME NEW d \in Switches, Armed(d)' PROVE row'[d].age <= told'[d] + Delay
    BY <2>1, <1>b, <1>a DEF SilenceInv
  <2>2. ASSUME pass'.pc = "deliver", NEW d \in pass'.batch
        PROVE  told'[d] - pass'.age >= Trigger - Delay
    <3>1. d \in Switches /\ rowLock[d] = "reaper" /\ Armed(d)'
      BY <2>2, <1>b, <1>a DEF LockInv
    <3>2. QED
      BY <2>2, <3>1, <1>b DEF SilenceInv
  <2>3. QED
    BY <2>1, <2>2 DEF SilenceInv
<1>1. ASSUME NEW h \in Handlers, Ask(h) PROVE SilenceInv'
  BY <1>1, <1>b DEF Ask, CreateCount, CheckInLock, Request, CheckInSigned,
                    CancelLock, Armed
<1>2. ASSUME NEW h \in Handlers, CreateCommit(h) PROVE SilenceInv'
  <2>1. rowLock[handler[h].d] = "reaper" => FALSE \/ row[handler[h].d].status = "new"
    BY <1>2 DEF CreateCommit, LockInv
  <2>2. \A d \in Switches : IF d = handler[h].d
          THEN row'[d].age = told'[d] ELSE row'[d] = row[d] /\ told'[d] = told[d]
    BY <1>2, <1>a DEF CreateCommit, TypeOK
  <2>3. pass' = pass /\ \A d \in pass.batch : pass.pc = "deliver" => d # handler[h].d
    BY <1>2 DEF CreateCommit, LockInv, Armed
  <2>4. ASSUME NEW d \in Switches, Armed(d)' PROVE row'[d].age <= told'[d] + Delay
    BY <2>2, <2>4, <1>a DEF SilenceInv, Armed
  <2>5. QED
    BY <2>2, <2>3, <2>4, <1>a DEF SilenceInv
<1>3. ASSUME NEW h \in Handlers, CheckInCommit(h) PROVE SilenceInv'
  <2>1. rowLock[handler[h].d] = h
    BY <1>3 DEF CheckInCommit, LockInv, At
  <2>2. \A d \in Switches : IF d = handler[h].d
          THEN row'[d].age = told'[d] ELSE row'[d] = row[d] /\ told'[d] = told[d]
    BY <1>3, <1>a DEF CheckInCommit, TypeOK, RowType
  <2>3. QED
    BY <1>3, <2>1, <2>2, <1>a, <1>b DEF CheckInCommit, Armed
<1>4. ASSUME NEW h \in Handlers, BumpCommit(h) PROVE SilenceInv'
  <2>1. \A d \in Switches : \/ row'[d] = row[d]
                           \/ row'[d].age = handler[h].age
    BY <1>4, <1>a DEF BumpCommit, BumpRows, RowType
  <2>2. QED
    BY <1>4, <2>1, <1>a, <1>b DEF BumpCommit, Armed
<1>5. ASSUME NEW h \in Handlers, SignedCommit(h) PROVE SilenceInv'
  <2>1. ASSUME NEW d \in Switches
        PROVE  \/ row'[d] = row[d] /\ told'[d] = told[d]
               \/ row'[d].age = told'[d] /\ rowLock[d] = "free"
    <3>1. CASE d \in ArmedOf(OwnerOf[handler[h].d])
      BY <1>5, <3>1, <1>a DEF SignedCommit, BumpRows, RowType, Free
    <3>2. CASE d \notin ArmedOf(OwnerOf[handler[h].d])
      BY <1>5, <3>2 DEF SignedCommit, BumpRows
    <3>3. QED
      BY <3>1, <3>2
  <2>2. QED
    BY <1>5, <2>1, <1>a, <1>b DEF SignedCommit, Armed
<1>6. ASSUME NEW h \in Handlers, CancelCommit(h) PROVE SilenceInv'
  <2>1. \A d \in Switches : Armed(d)' => row'[d] = row[d] /\ told'[d] = told[d]
    <3>1. \A d \in Switches : d = handler[h].d => row'[d].status = "cancelled"
      BY <1>6, <1>a, EndedRow DEF CancelCommit, TypeOK, Statuses
    <3>2. QED
      BY <1>6, <3>1, <1>a DEF CancelCommit, DropTold, Armed, TypeOK
  <2>2. QED
    BY <1>6, <2>1, <1>b DEF CancelCommit, Armed
<1>7. ASSUME NEW h \in Handlers, Rollback(h) PROVE SilenceInv'
  BY <1>7, <1>b DEF Rollback, Armed
<1>8. ASSUME NEW ds \in SUBSET Switches, NEW how \in {"deleted", "reaped"},
             Remove(ds, how), pass' = pass
      PROVE  SilenceInv'
  <2>1. \A d \in Switches : Armed(d)' => row'[d] = row[d] /\ told'[d] = told[d]
    <3>1. [NoRow EXCEPT !.status = how].status = how
      BY RemovedRow DEF Statuses
    <3>2. QED
      BY <1>8, <3>1 DEF Remove, DropTold, Armed
  <2>2. QED
    BY <1>8, <2>1, <1>b DEF Armed
<1>9. ASSUME NEW o \in Owners, AccountDelete(o) \/ ReapAnonymous(o) PROVE SilenceInv'
  <2>1. Of(o) \in SUBSET Switches
    BY DEF Of
  <2>2. QED
    BY <1>9, <2>1, <1>8 DEF AccountDelete, ReapAnonymous
<1>10. ASSUME NEW d \in Switches, ReapTerminal(d) PROVE SilenceInv'
  BY <1>10, <1>8 DEF ReapTerminal
<1>11. ASSUME PassStart PROVE SilenceInv'
  BY <1>11 DEF PassStart, Asleep, SilenceInv, Armed
<1>12. ASSUME PassSelect PROVE SilenceInv'
  <2>1. /\ UNCHANGED <<row, told>>
        /\ pass'.pc = "deliver" =>
             /\ pass'.age = pass.age
             /\ \A d \in pass'.batch : d \in Switches /\ Armed(d) /\ Due(d)
    BY <1>12, <1>a DEF PassSelect, Asleep, PassType
  <2>2. \A d \in Switches : Armed(d) /\ Due(d) =>
          told[d] - pass.age >= Trigger - Delay
    BY <1>a DEF SilenceInv, Due
  <2>3. QED
    BY <2>1, <2>2 DEF SilenceInv, Armed
<1>13. ASSUME Delivering PROVE SilenceInv'
  <2>1. pass'.age = pass.age /\ pass'.pc = pass.pc /\ pass'.batch = pass.batch
    BY <1>13, DeliveryMoves
  <2>2. QED
    BY <1>13, <2>1, <1>b, DeliveryKeeps DEF Armed
<1>14. ASSUME PassCommit \/ PassDies PROVE SilenceInv'
  <2>1. pass'.pc # "deliver"
    BY <1>14, AsleepType DEF PassCommit, PassDies
  <2>2. \A d \in Switches : Armed(d)' =>
          Armed(d) /\ row'[d].age = row[d].age /\ told'[d] = told[d]
    <3>1. CASE PassDies
      BY <3>1 DEF PassDies, Armed
    <3>2. CASE PassCommit
      <4> SUFFICES ASSUME NEW d \in Switches, Armed(d)'
          PROVE  Armed(d) /\ row'[d].age = row[d].age /\ told'[d] = told[d]
        OBVIOUS
      <4>1. told'[d] = told[d]
        BY <3>2 DEF PassCommit, DropTold, Armed
      <4>2. CASE d \in pass.batch
        <5>1. row'[d] = Fired(d)
          BY <3>2, <4>2 DEF PassCommit
        <5>2. QED
          BY <4>1, <5>1, FiredRow DEF Armed
      <4>3. CASE d \notin pass.batch
        BY <3>2, <4>1, <4>3 DEF PassCommit, Armed
      <4>4. QED
        BY <4>2, <4>3
    <3>3. QED
      BY <1>14, <3>1, <3>2
  <2>3. QED
    BY <2>1, <2>2 DEF SilenceInv
<1>15. ASSUME NEW p \in Switches \X Recipients, Taken(p) PROVE SilenceInv'
  BY <1>15, <1>b DEF Taken, Armed
<1>16. ASSUME Tick PROVE SilenceInv'
  <2>1. \A d \in Switches : Armed(d) => /\ row'[d].age = Older(row[d].age)
                                       /\ told'[d] = Older(told[d])
    BY <1>16, <1>a DEF Tick, RowType
  <2>2. \A d \in Switches : Armed(d)' => Armed(d)
    BY <1>16, <1>a DEF Tick, Armed, RowType
  <2>3. \A d \in Switches : Armed(d) => Older(row[d].age) <= Older(told[d]) + Delay
    BY <1>a DEF SilenceInv, Older, MinOf
  <2>4. ASSUME pass'.pc = "deliver", NEW d \in pass'.batch
        PROVE  told'[d] - pass'.age >= Trigger - Delay
    <3>1. /\ pass.pc = "deliver" /\ d \in pass.batch /\ pass'.age = pass.age + 1
      BY <1>16, <2>4, <1>a DEF Tick, PassType
    <3>2. d \in Switches /\ Armed(d)
      BY <3>1, <1>a DEF LockInv
    <3>3. told[d] - pass.age >= Trigger - Delay
      BY <3>1, <3>2 DEF SilenceInv
    <3>4. QED
      BY <2>1, <3>1, <3>2, <3>3, <1>a, OlderType
  <2>5. QED
    BY <2>1, <2>2, <2>3, <2>4 DEF SilenceInv
<1>17. ASSUME UNCHANGED vars PROVE SilenceInv'
  BY <1>17, <1>b DEF vars, Armed
<1>18. QED
  BY <1>1, <1>2, <1>3, <1>4, <1>5, <1>6, <1>7, <1>9, <1>10, <1>11, <1>12, <1>13,
     <1>14, <1>15, <1>16, <1>17 DEF Next, Commit, Pass, Delivering

(* fire_dms_switches: whoever receives a payload, its owner had confirmed   *)
(* no check-in for a full period, but for the delay of one request.         *)
THEOREM OnlySilentOwnersHolds == Spec => OnlySilentOwners
<1>1. Init => SilenceInv
  BY DEF Init, SilenceInv, Armed, NoRow, Asleep
<1>2. TypeOK /\ TodoInv /\ SilenceInv /\ [Next]_vars =>
        [\A d \in Switches : copies'[d] # copies[d] =>
           told[d] - pass.age >= Trigger - Delay]_vars
  <2> SUFFICES ASSUME TypeOK, TodoInv, SilenceInv, [Next]_vars, NEW d \in Switches,
                      copies'[d] # copies[d]
               PROVE  told[d] - pass.age >= Trigger - Delay
    OBVIOUS
  <2>1. /\ pass.pc = "deliver"
        /\ \E p \in pass.todo : copies' = [copies EXCEPT ![p[1]][p[2]] = @ + 1]
    BY OnlyDeliverySends
  <2>2. d \in pass.batch
    BY <2>1 DEF TodoInv, TypeOK
  <2>3. QED
    BY <2>1, <2>2 DEF SilenceInv
<1>3. QED
  BY <1>1, <1>2, SwitchTypeCorrect, LockInit, LockStep, TodoInit, TodoStep,
     SilenceStep, TypeStep, PTL
  DEF Spec, OnlySilentOwners

----------------------------------------------------------------------------
(* Copies and debts of one recipient of one switch.  A recipient who is     *)
(* still owed the payload has had no more copies than passes have died and  *)
(* deliveries have raised; the pass at work has reached those it no longer  *)
(* lists; and a metadata key without a copy is one that a delivery left     *)
(* behind, or that of the delivery under way.                               *)
Working(d) == pass.pc = "deliver" /\ d \in pass.batch
Reached(d, r) == copies[d][r] > 0 \/ <<d, r>> \in halfway

CopyInvOf(d, r) ==
    /\ copies[d][r] <= 1 + Mishaps(d, r)
    /\ r \notin RecipientsOf[d] => copies[d][r] = 0
    /\ <<d, r>> \in queued => Reached(d, r) \/ <<d, r>> \in pass.open
    /\ r \in row[d].delivered => Reached(d, r)
    /\ row[d].status = "triggered" /\ r \in RecipientsOf[d] => Reached(d, r)
    /\ row[d].status = "new" => copies[d][r] = 0
    /\ Armed(d) /\ r \notin row[d].delivered /\ ~Working(d) =>
           copies[d][r] <= Mishaps(d, r)
    /\ Working(d) /\ <<d, r>> \in pass.todo \cup pass.failed =>
           copies[d][r] <= Mishaps(d, r)
    /\ Working(d) /\ <<d, r>> \notin pass.todo \cup pass.failed
          /\ r \in RecipientsOf[d] => Reached(d, r)

CopyInv == /\ \A d \in Switches : /\ Armed(d) => row[d].payload
                                  /\ \A r \in Recipients : CopyInvOf(d, r)
           /\ crashes + faults = 0 => halfway = {}

(* Mishaps are counted, and forgotten never.                                *)
LEMMA MishapsCount ==
    ASSUME TypeOK, TypeOK', NEW d, NEW r
    PROVE  /\ Mishaps(d, r) \in Nat /\ Mishaps(d, r)' \in Nat
           /\ crashes <= crashes' /\ faults <= faults' /\ halfway \subseteq halfway'
                => Mishaps(d, r) <= Mishaps(d, r)'
           /\ UNCHANGED <<crashes, faults, halfway>> => Mishaps(d, r)' = Mishaps(d, r)
<1>a. /\ crashes \in Nat /\ crashes' \in Nat /\ faults \in Nat /\ faults' \in Nat
  BY DEF TypeOK
<1>1. /\ <<d, r>> \in halfway => Mishaps(d, r) = crashes + faults
      /\ <<d, r>> \notin halfway => Mishaps(d, r) = crashes + 0
      /\ <<d, r>> \in halfway' => Mishaps(d, r)' = crashes' + faults'
      /\ <<d, r>> \notin halfway' => Mishaps(d, r)' = crashes' + 0
  BY DEF Mishaps
<1>2. QED
  BY <1>a, <1>1

(* One delivery, to p, that leaves the recipient reached or still owed.     *)
LEMMA CopyDelivery ==
    ASSUME TypeOK, TypeOK', LockInv, TodoInv, Delivering, NEW d \in Switches,
           \A r \in Recipients : CopyInvOf(d, r),
           NEW p \in pass.todo,
           pass'.todo \cup pass'.failed \in {pass.todo \cup pass.failed,
                                             (pass.todo \cup pass.failed) \ {p}},
           copies' = copies \/ copies' = [copies EXCEPT ![p[1]][p[2]] = @ + 1],
           queued' \subseteq queued \cup {p},
           pass.open \ {p} \subseteq pass'.open,
           halfway \subseteq halfway', faults <= faults',
           p[1] = d => LET r == p[2] IN
             /\ p \in queued' => Reached(d, r)' \/ p \in pass'.open
             /\ copies'[d][r] <= 1 + Mishaps(d, r)'
             /\ p \in pass'.todo \cup pass'.failed => copies'[d][r] <= Mishaps(d, r)'
             /\ p \notin pass'.todo \cup pass'.failed => Reached(d, r)'
    PROVE  \A r \in Recipients : CopyInvOf(d, r)'
<1> SUFFICES ASSUME NEW r \in Recipients PROVE CopyInvOf(d, r)'
  OBVIOUS
<1>a. /\ crashes \in Nat /\ faults \in Nat /\ faults' \in Nat
      /\ copies[d][r] \in Nat /\ copies'[d][r] \in Nat
      /\ copies \in [Switches -> [Recipients -> Nat]]
      /\ p \in Switches \X Recipients /\ p = <<p[1], p[2]>>
  BY DEF TypeOK, PassType
<1>b. /\ UNCHANGED <<row, crashes>> /\ pass.pc = "deliver"
      /\ Working(d)' = Working(d)
  BY DeliveryKeeps, DeliveryMoves DEF Working
<1>c. CopyInvOf(d, r)
  OBVIOUS
<1>1. CASE p = <<d, r>>
  <2>1. /\ Working(d) /\ r \in RecipientsOf[d] /\ row[d].status = "armed"
    BY <1>1, <1>b DEF TodoInv, Working, LockInv, Armed
  <2>2. copies[d][r] > 0 => copies'[d][r] > 0
    BY <1>a
  <2>3. Reached(d, r) => Reached(d, r)'
    BY <2>2 DEF Reached
  <2>4. QED
    BY <1>1, <1>b, <1>c, <2>1, <2>3 DEF CopyInvOf, Armed
<1>2. CASE p # <<d, r>>
  <2>1. copies'[d][r] = copies[d][r]
    BY <1>2, <1>a
  <2>2. /\ <<d, r>> \in pass'.todo \cup pass'.failed <=>
             <<d, r>> \in pass.todo \cup pass.failed
        /\ <<d, r>> \in queued' => <<d, r>> \in queued
        /\ <<d, r>> \in pass.open => <<d, r>> \in pass'.open
    BY <1>2
  <2>3. Reached(d, r) => Reached(d, r)'
    BY <2>1 DEF Reached
  <2>4. /\ copies[d][r] <= Mishaps(d, r) => copies'[d][r] <= Mishaps(d, r)'
        /\ copies'[d][r] <= 1 + Mishaps(d, r)'
    <3>1. Mishaps(d, r) \in Nat /\ Mishaps(d, r)' \in Nat
          /\ Mishaps(d, r) <= Mishaps(d, r)'
      BY <1>a, <1>b, MishapsCount
    <3>2. copies[d][r] <= 1 + Mishaps(d, r)
      BY <1>c DEF CopyInvOf
    <3>3. QED
      BY <2>1, <1>a, <3>1, <3>2
  <2>5. QED
    BY <1>b, <1>c, <2>1, <2>2, <2>3, <2>4 DEF CopyInvOf, Armed
<1>3. QED
  BY <1>1, <1>2

(* Copies grow only with marks, dead passes and failed deliveries.          *)
LEMMA CopyStep ==
    TypeOK /\ TypeOK' /\ LockInv /\ LockInv' /\ TodoInv /\ CopyInv /\ [Next]_vars
      => CopyInv'
<1> SUFFICES ASSUME TypeOK, TypeOK', LockInv, LockInv', TodoInv, CopyInv, [Next]_vars
             PROVE  CopyInv'
  OBVIOUS
<1>s. crashes' + faults' = 0 => halfway' = {}
  <2>1. CASE Delivering
    <3>a. crashes' = crashes /\ crashes \in Nat /\ faults \in Nat
      BY <2>1, DeliveryKeeps DEF TypeOK
    <3>1. CASE PassSkips \/ PassClaims \/ PassInserts
      BY <3>a, <3>1 DEF PassSkips, PassClaims, PassInserts, CopyInv
    <3>2. CASE PassClaimFails \/ PassInsertFails
      <4>1. faults' = faults + 1
        BY <3>2 DEF PassClaimFails, PassInsertFails, Raises
      <4>2. QED
        BY <3>a, <4>1
    <3>3. QED
      BY <2>1, <3>1, <3>2 DEF Delivering
  <2>2. CASE PassDies
    <3>1. crashes' = crashes + 1 /\ faults' = faults /\ crashes \in Nat /\ faults \in Nat
      BY <2>2 DEF PassDies, TypeOK
    <3>2. QED
      BY <3>1
  <2>3. CASE Outside
    BY <2>3, OutsideMoves DEF CopyInv
  <2>4. CASE UNCHANGED <<halfway, crashes, faults>>
    BY <2>4 DEF CopyInv
  <2>5. QED
    BY <2>1, <2>2, <2>3, <2>4
    DEF Next, Outside, Pass, Delivering, PassStart, PassSelect, PassCommit, vars
<1> SUFFICES ASSUME NEW d \in Switches
             PROVE  /\ Armed(d)' => row'[d].payload
                    /\ \A r \in Recipients : CopyInvOf(d, r)'
  BY <1>s DEF CopyInv
<1>a. /\ crashes \in Nat /\ crashes' \in Nat /\ faults \in Nat /\ faults' \in Nat
      /\ \A r \in Recipients : copies[d][r] \in Nat /\ copies'[d][r] \in Nat
      /\ RecipientsOf[d] \in SUBSET Recipients
      /\ pass \in PassType /\ row[d] \in RowType
      /\ copies \in [Switches -> [Recipients -> Nat]]
  BY SwitchSets DEF TypeOK
<1>b. /\ Armed(d) => row[d].payload
      /\ \A r \in Recipients : CopyInvOf(d, r)
  BY DEF CopyInv
<1>c. Working(d) => Armed(d)
  BY DEF Working, LockInv
<1>m. \A r \in Recipients : Mishaps(d, r) \in Nat /\ Mishaps(d, r)' \in Nat
  BY MishapsCount
<1>1. CASE Outside
  <2>1. /\ \/ Kept(d) \/ Created(d) \/ Gone(d)
        /\ Working(d)' = Working(d)
        /\ pass'.todo = pass.todo /\ pass'.failed = pass.failed
        /\ pass'.open = pass.open
        /\ UNCHANGED <<copies, halfway, crashes, faults>>
        /\ queued' \subseteq queued
    BY <1>1, OutsideMoves DEF Working
  <2>r. \A r \in Recipients : /\ Reached(d, r)' = Reached(d, r)
                              /\ Mishaps(d, r)' = Mishaps(d, r)
    BY <2>1 DEF Reached, Mishaps
  <2>2. Working(d)' => Armed(d)'
    BY DEF Working, LockInv
  <2>3. CASE Kept(d)
    BY <2>1, <2>r, <2>3, <1>b DEF Kept, CopyInvOf, Armed
  <2>4. CASE Created(d)
    <3>1. ~Working(d)
      BY <1>c, <2>4 DEF Created, Armed
    <3>2. Armed(d)' => row'[d].payload
      BY <2>4 DEF Created
    <3>3. ASSUME NEW r \in Recipients PROVE CopyInvOf(d, r)'
      <4>1. copies'[d][r] = 0
        BY <2>1, <2>4, <1>b DEF Created, CopyInvOf
      <4>2. copies'[d][r] <= Mishaps(d, r)' /\ copies'[d][r] <= 1 + Mishaps(d, r)'
        BY <4>1, <1>m
      <4>3. QED
        BY <2>1, <2>r, <2>4, <3>1, <4>1, <4>2, <1>b DEF Created, CopyInvOf, Armed
    <3>4. QED
      BY <3>2, <3>3
  <2>5. CASE Gone(d)
    <3>1. ~Armed(d)' /\ ~Working(d)'
      BY <2>2, <2>5 DEF Gone, Armed
    <3>2. \A r \in Recipients : CopyInvOf(d, r)'
      BY <2>1, <2>r, <2>5, <3>1, <1>b DEF Gone, CopyInvOf
    <3>3. QED
      BY <3>1, <3>2
  <2>6. QED
    BY <2>1, <2>3, <2>4, <2>5
<1>2. CASE PassStart
  <2>1. /\ UNCHANGED <<row, copies, halfway, crashes, faults, queued>>
        /\ ~Working(d)' /\ ~Working(d) /\ pass.open = {}
    BY <1>2 DEF PassStart, Asleep, Working, TodoInv
  <2>2. \A r \in Recipients : /\ Reached(d, r)' = Reached(d, r)
                              /\ Mishaps(d, r)' = Mishaps(d, r)
    BY <2>1 DEF Reached, Mishaps
  <2>3. QED
    BY <2>1, <2>2, <1>b DEF CopyInvOf, Armed
<1>3. CASE PassSelect
  <2>1. /\ UNCHANGED <<row, copies, halfway, crashes, faults, queued>>
        /\ ~Working(d) /\ pass.open = {}
    BY <1>3 DEF PassSelect, Working, TodoInv
  <2>2. ASSUME Working(d)'
        PROVE  /\ Armed(d) /\ pass'.failed = {}
               /\ \A r \in Recipients : <<d, r>> \in pass'.todo <=>
                    r \in RecipientsOf[d] \ row[d].delivered
    <3> DEFINE due == {e \in Switches : Armed(e) /\ Free(e) /\ Due(e)}
    <3>1. /\ pass'.batch = due /\ pass'.failed = pass.failed
          /\ pass'.todo = {p \in due \X Recipients :
                             p[2] \in RecipientsOf[p[1]] \ row[p[1]].delivered}
      BY <1>3, <2>2, <1>a DEF PassSelect, Working, Asleep, PassType
    <3>2. d \in due
      BY <2>2, <3>1 DEF Working
    <3>3. pass.failed = {}
      BY <1>3 DEF PassSelect, TodoInv
    <3>4. QED
      BY <3>1, <3>2, <3>3
  <2>r. \A r \in Recipients : /\ Reached(d, r)' = Reached(d, r)
                              /\ Mishaps(d, r)' = Mishaps(d, r)
    BY <2>1 DEF Reached, Mishaps
  <2>3. \A r \in Recipients : CopyInvOf(d, r)'
    BY <2>1, <2>2, <2>r, <1>a, <1>b DEF CopyInvOf, Armed
  <2>4. QED
    BY <2>1, <2>3, <1>b DEF Armed
<1>4. CASE Delivering
  <2>a. row' = row /\ crashes' = crashes /\ pass.pc = "deliver"
    BY <1>4, DeliveryKeeps
  <2>b. \A p \in pass.todo : /\ p \in Switches \X Recipients /\ p = <<p[1], p[2]>>
                             /\ p \notin pass.failed
                             /\ p[1] = d => Working(d) /\ copies[d][p[2]] <= Mishaps(d, p[2])
    <3>1. \A p \in pass.todo : /\ p \in Switches \X Recipients /\ p = <<p[1], p[2]>>
                               /\ p \notin pass.failed
                               /\ p[1] = d => Working(d)
      BY <1>a, <2>a DEF PassType, TodoInv, Working
    <3>2. QED
      BY <3>1, <1>b DEF CopyInvOf
  <2>1. CASE PassSkips
    <3>1. PICK p \in pass.todo : p \in queued /\ pass' = [pass EXCEPT !.todo = @ \ {p}]
      BY <2>1 DEF PassSkips
    <3>2. /\ pass'.todo = pass.todo \ {p} /\ pass'.open = {} /\ pass.open = {}
          /\ pass'.failed = pass.failed
          /\ UNCHANGED <<queued, copies, halfway, faults>>
      BY <2>1, <3>1, <1>a DEF PassSkips, PassType
    <3>3. p[1] = d => Reached(d, p[2]) /\ Reached(d, p[2])'
      BY <2>b, <3>1, <3>2, <1>b DEF CopyInvOf, Reached
    <3>4. p[1] = d => copies'[d][p[2]] <= 1 + Mishaps(d, p[2])'
      BY <2>a, <2>b, <3>2, <1>b DEF CopyInvOf, Mishaps
    <3>5. QED
      BY <1>4, <1>a, <1>b, <2>a, <2>b, <3>2, <3>3, <3>4, CopyDelivery DEF Armed
  <2>2. CASE PassClaims
    <3>1. PICK p \in pass.todo : /\ pass' = [pass EXCEPT !.open = {p}]
                                 /\ queued' = queued \cup {p}
      BY <2>2 DEF PassClaims
    <3>2. /\ pass'.todo = pass.todo /\ pass'.open = {p} /\ pass.open = {}
          /\ pass'.failed = pass.failed /\ UNCHANGED <<copies, halfway, faults>>
      BY <2>2, <3>1, <1>a DEF PassClaims, PassType
    <3>3. p[1] = d => /\ copies'[d][p[2]] <= Mishaps(d, p[2])'
                      /\ copies'[d][p[2]] <= 1 + Mishaps(d, p[2])'
      BY <2>a, <2>b, <3>2, <1>b DEF CopyInvOf, Mishaps
    <3>4. QED
      BY <1>4, <1>a, <1>b, <2>a, <2>b, <3>1, <3>2, <3>3, CopyDelivery DEF Armed
  <2>3. CASE PassInserts
    <3>1. PICK p \in pass.open : /\ pass' = [pass EXCEPT !.todo = @ \ {p}, !.open = {}]
                                 /\ Send(p)
      BY <2>3 DEF PassInserts
    <3>2. /\ pass'.todo = pass.todo \ {p} /\ pass'.open = {} /\ pass.open = {p}
          /\ pass'.failed = pass.failed /\ p \in pass.todo
          /\ UNCHANGED <<queued, halfway, faults>>
      BY <2>3, <2>a, <3>1, <1>a DEF PassInserts, PassType, TodoInv
    <3>3. p[1] = d => /\ copies'[d][p[2]] = copies[d][p[2]] + 1
                      /\ copies[d][p[2]] \in Nat
      BY <2>b, <3>1, <3>2, <1>a DEF Send
    <3>0. p[1] = d => /\ Mishaps(d, p[2])' = Mishaps(d, p[2])
                      /\ Mishaps(d, p[2]) \in Nat
      BY <2>a, <3>2, MishapsCount
    <3>4. p[1] = d => /\ copies'[d][p[2]] <= 1 + Mishaps(d, p[2])'
                      /\ copies'[d][p[2]] > 0
      <4>1. SUFFICES ASSUME p[1] = d
                     PROVE  /\ copies'[d][p[2]] <= 1 + Mishaps(d, p[2])'
                            /\ copies'[d][p[2]] > 0
        OBVIOUS
      <4>2. copies[d][p[2]] <= Mishaps(d, p[2])
        BY <2>b, <3>2, <4>1
      <4>3. QED
        BY <3>0, <3>3, <4>1, <4>2
    <3>5. p[1] = d => Reached(d, p[2])'
      BY <3>4 DEF Reached
    <3>6. copies' = [copies EXCEPT ![p[1]][p[2]] = @ + 1]
      BY <3>1 DEF Send
    <3>7. /\ (pass.todo \cup pass.failed) \ {p} = pass'.todo \cup pass'.failed
          /\ p \notin pass'.todo \cup pass'.failed
      BY <2>b, <3>2
    <3>8. /\ queued' \subseteq queued \cup {p} /\ halfway \subseteq halfway'
           /\ pass.open \ {p} \subseteq pass'.open /\ faults <= faults'
           /\ p \in pass.todo
      BY <3>2, <1>a
    <3>9. \A r \in Recipients : CopyInvOf(d, r)'
      BY <1>4, <1>b, <3>4, <3>5, <3>6, <3>7, <3>8, CopyDelivery
    <3>10. QED
      BY <1>b, <2>a, <3>9 DEF Armed
  <2>4. CASE PassClaimFails
    <3>1. PICK p \in pass.todo :
            /\ Raises(p)
            /\ \/ UNCHANGED <<queued, halfway>>
               \/ /\ p \notin queued
                  /\ queued' = queued \cup {p} /\ halfway' = halfway \cup {p}
      BY <2>4 DEF PassClaimFails
    <3>2. /\ pass'.todo = pass.todo \ {p} /\ pass'.open = {} /\ pass.open = {}
          /\ pass'.failed = pass.failed \cup {p}
          /\ copies' = copies /\ faults' = faults + 1
      BY <2>4, <3>1, <1>a DEF PassClaimFails, Raises, PassType
    <3>0. p[1] = d => /\ Mishaps(d, p[2]) <= Mishaps(d, p[2])'
                      /\ Mishaps(d, p[2]) \in Nat /\ Mishaps(d, p[2])' \in Nat
                      /\ copies'[d][p[2]] \in Nat
      BY <2>a, <2>b, <3>1, <3>2, <1>a, <1>m DEF Mishaps
    <3>3. p[1] = d => /\ copies'[d][p[2]] <= Mishaps(d, p[2])'
                      /\ copies'[d][p[2]] <= 1 + Mishaps(d, p[2])'
      BY <2>b, <3>0, <3>2
    <3>4. p[1] = d /\ p \in queued' => Reached(d, p[2])'
      BY <2>b, <3>1, <3>2, <1>b DEF Reached, CopyInvOf
    <3>5. /\ pass'.todo \cup pass'.failed = pass.todo \cup pass.failed
          /\ p \in pass'.todo \cup pass'.failed
      BY <3>2
    <3>6. queued' \subseteq queued \cup {p} /\ halfway \subseteq halfway'
          /\ faults <= faults'
      BY <3>1, <3>2, <1>a
    <3>7. QED
      BY <1>4, <1>b, <2>a, <2>b, <3>2, <3>3, <3>4, <3>5, <3>6, CopyDelivery DEF Armed
  <2>5. CASE PassInsertFails
    <3>1. PICK p \in pass.open :
            /\ Raises(p)
            /\ queued' \in {queued, queued \ {p}}
            /\ \/ Send(p) /\ halfway' = halfway \cup {p}
               \/ /\ halfway' = halfway \cup (pass.open \cap queued')
                  /\ UNCHANGED copies
      BY <2>5 DEF PassInsertFails
    <3>2. /\ pass'.todo = pass.todo \ {p} /\ pass'.open = {} /\ pass.open = {p}
          /\ p \in pass.todo
          /\ pass'.failed = pass.failed \cup {p} /\ faults' = faults + 1
      BY <2>a, <3>1, <1>a DEF Raises, PassType, TodoInv
    <3>3. p[1] = d => copies'[d][p[2]] \in {copies[d][p[2]], copies[d][p[2]] + 1}
      BY <2>b, <3>1, <3>2, <1>a DEF Send
    <3>4. p[1] = d => /\ copies'[d][p[2]] <= Mishaps(d, p[2])'
                      /\ copies'[d][p[2]] <= 1 + Mishaps(d, p[2])'
      <4>1. SUFFICES ASSUME p[1] = d PROVE copies'[d][p[2]] <= Mishaps(d, p[2])'
        BY <2>b, <3>2, <1>a, <1>m
      <4>2. /\ p = <<d, p[2]>> /\ p[2] \in Recipients
            /\ copies[d][p[2]] <= Mishaps(d, p[2])
        BY <2>b, <3>2, <4>1
      <4>3. CASE Send(p) /\ halfway' = halfway \cup {p}
        <5>1. Mishaps(d, p[2])' = crashes + faults + 1
          BY <2>a, <3>2, <4>2, <4>3, <1>a DEF Mishaps
        <5>2. Mishaps(d, p[2]) <= crashes + faults
          BY <1>a DEF Mishaps
        <5>3. QED
          BY <3>3, <4>1, <4>2, <5>1, <5>2, <1>a, <1>m
      <4>4. CASE /\ halfway' = halfway \cup (pass.open \cap queued')
                 /\ UNCHANGED copies
        <5>1. Mishaps(d, p[2]) <= Mishaps(d, p[2])'
          BY <2>a, <3>2, <4>4, <1>a DEF Mishaps
        <5>2. QED
          BY <4>2, <4>4, <5>1, <1>a, <1>m
      <4>5. QED
        BY <3>1, <4>3, <4>4
    <3>5. p[1] = d /\ p \in queued' => Reached(d, p[2])'
      <4>1. CASE Send(p)
        BY <2>b, <3>2, <4>1, <1>a DEF Send, Reached
      <4>2. CASE halfway' = halfway \cup (pass.open \cap queued')
        BY <2>b, <3>2, <4>2 DEF Reached
      <4>3. QED
        BY <3>1, <4>1, <4>2
    <3>6. /\ pass'.todo \cup pass'.failed = pass.todo \cup pass.failed
          /\ p \in pass'.todo \cup pass'.failed
      BY <3>2
    <3>7. queued' \subseteq queued \cup {p} /\ halfway \subseteq halfway'
          /\ faults <= faults'
      BY <3>1, <3>2, <1>a
    <3>8. copies' = copies \/ copies' = [copies EXCEPT ![p[1]][p[2]] = @ + 1]
      BY <3>1 DEF Send
    <3>9. QED
      BY <1>4, <1>b, <2>a, <2>b, <3>2, <3>4, <3>5, <3>6, <3>7, <3>8, CopyDelivery
      DEF Armed
  <2>6. QED
    BY <1>4, <2>1, <2>2, <2>3, <2>4, <2>5 DEF Delivering
<1>6. CASE PassCommit
  <2>1. /\ UNCHANGED <<copies, halfway, crashes, faults, queued>>
        /\ ~Working(d)' /\ pass.todo = {} /\ pass.open = {} /\ pass'.open = {}
        /\ pass.pc = "deliver"
    BY <1>6, AsleepType DEF PassCommit, Working, TodoInv, Asleep
  <2>r. \A r \in Recipients : /\ Reached(d, r)' = Reached(d, r)
                              /\ Mishaps(d, r)' = Mishaps(d, r)
    BY <2>1 DEF Reached, Mishaps
  <2>2. CASE d \in pass.batch
    <3>1. row'[d] = Fired(d) /\ Working(d) /\ row[d].status = "armed"
      BY <1>6, <2>1, <2>2, <1>c DEF PassCommit, Working, Armed
    <3>2. /\ row'[d].delivered = RecipientsOf[d] \ Missed(d)
          /\ Missed(d) = {} => row'[d].status = "triggered"
          /\ Missed(d) # {} => /\ row'[d].status = "armed"
                               /\ row'[d].payload = row[d].payload
      BY <3>1, FiredRow
    <3>3. ASSUME NEW r \in Recipients PROVE CopyInvOf(d, r)'
      <4>1. r \in Missed(d) <=> <<d, r>> \in pass.failed
        BY DEF Missed
      <4>2. r \in RecipientsOf[d] \ Missed(d) => Reached(d, r)
        BY <2>1, <3>1, <4>1, <1>b DEF CopyInvOf
      <4>3. r \in Missed(d) => copies[d][r] <= Mishaps(d, r)
        BY <3>1, <4>1, <1>b DEF CopyInvOf
      <4>4. r \notin RecipientsOf[d] => copies[d][r] <= Mishaps(d, r)
        <5>1. r \notin RecipientsOf[d] => copies[d][r] = 0
          BY <1>b DEF CopyInvOf
        <5>2. QED
          BY <5>1, <1>m
      <4>5. /\ row'[d].status \in {"armed", "triggered"}
            /\ row'[d].status = "triggered" => r \notin Missed(d)
        BY <3>2
      <4>6. /\ r \in row'[d].delivered => Reached(d, r)
            /\ r \notin row'[d].delivered => copies[d][r] <= Mishaps(d, r)
            /\ row'[d].status = "triggered" /\ r \in RecipientsOf[d] => Reached(d, r)
        BY <3>2, <4>2, <4>3, <4>4, <4>5
      <4>7. QED
        BY <2>1, <2>r, <4>5, <4>6, <1>b DEF CopyInvOf, Armed
    <3>4. QED
      BY <3>1, <3>2, <3>3, <1>b DEF Armed
  <2>3. CASE d \notin pass.batch
    <3>1. row'[d] = row[d] /\ ~Working(d)
      BY <1>6, <2>3 DEF PassCommit, Working
    <3>2. QED
      BY <2>1, <2>r, <3>1, <1>b DEF CopyInvOf, Armed
  <2>4. QED
    BY <2>2, <2>3
<1>7. CASE PassDies
  <2>1. /\ UNCHANGED <<row, copies, queued, faults>> /\ crashes' = crashes + 1
        /\ ~Working(d)' /\ halfway' = halfway \cup pass.open /\ pass'.open = {}
    BY <1>7, AsleepType DEF PassDies, Working, Asleep
  <2>2. ASSUME NEW r \in Recipients PROVE CopyInvOf(d, r)'
    <3>1. /\ Reached(d, r) => Reached(d, r)'
          /\ <<d, r>> \in pass.open => Reached(d, r)'
      BY <2>1 DEF Reached
    <3>0. copies[d][r] <= 1 + Mishaps(d, r) /\ 1 + Mishaps(d, r) <= Mishaps(d, r)'
      BY <2>1, <1>a, <1>b DEF CopyInvOf, Mishaps
    <3>2. copies'[d][r] <= Mishaps(d, r)' /\ copies'[d][r] <= 1 + Mishaps(d, r)'
      BY <2>1, <3>0, <1>a, <1>m
    <3>3. UNCHANGED row /\ copies'[d][r] = copies[d][r] /\ queued' = queued
      BY <2>1
    <3>4. CopyInvOf(d, r)
      BY <1>b
    <3>5. <<d, r>> \in queued' => Reached(d, r)'
      BY <3>1, <3>3, <3>4 DEF CopyInvOf
    <3>6. /\ r \in row'[d].delivered => Reached(d, r)'
          /\ row'[d].status = "triggered" /\ r \in RecipientsOf[d] => Reached(d, r)'
          /\ row'[d].status = "new" => copies'[d][r] = 0
          /\ r \notin RecipientsOf[d] => copies'[d][r] = 0
      BY <3>1, <3>3, <3>4 DEF CopyInvOf
    <3>7. QED
      BY <2>1, <3>2, <3>5, <3>6 DEF CopyInvOf
  <2>3. QED
    BY <2>1, <2>2, <1>b DEF Armed
<1>8. CASE UNCHANGED vars
  BY <1>8, <1>b DEF vars, CopyInvOf, Armed, Working, Reached, Mishaps
<1>9. QED
  BY <1>1, <1>2, <1>3, <1>4, <1>6, <1>7, <1>8 DEF Next, Outside, Pass, Delivering

(* The repeated passes of the reaper together deliver to every recipient:   *)
(* nobody is marked delivered, and no switch triggered, without a copy or a *)
(* metadata key that a delivery left behind without its insert; a further   *)
(* copy needs a pass that died or a delivery that raised after its insert.  *)
THEOREM EachRecipientOnceHolds == Spec => []EachRecipientOnce
<1>1. Init => CopyInv
  <2> SUFFICES ASSUME Init PROVE CopyInv
    OBVIOUS
  <2>1. \A d \in Switches : /\ row[d].status = "new" /\ row[d].delivered = {}
                           /\ \A r \in Recipients : copies[d][r] = 0
    BY DEF Init, NoRow
  <2>2. /\ crashes = 0 /\ faults = 0 /\ queued = {} /\ halfway = {}
        /\ pass.pc = "idle"
    BY AsleepType DEF Init
  <2>3. QED
    BY <2>1, <2>2 DEF CopyInv, CopyInvOf, Armed, Working, Mishaps
<1>2. TypeOK /\ CopyInv => EachRecipientOnce
  <2> SUFFICES ASSUME TypeOK, CopyInv, NEW d \in Switches
      PROVE  /\ Armed(d) => row[d].payload
             /\ \A r \in row[d].delivered
                   \cup (IF row[d].status = "triggered" THEN RecipientsOf[d] ELSE {}) :
                  copies[d][r] > 0 \/ <<d, r>> \in halfway
             /\ \A r \in Recipients : copies[d][r] <= 1 + Mishaps(d, r)
    BY DEF EachRecipientOnce, CopyInv
  <2>1. row[d].delivered \subseteq Recipients /\ RecipientsOf[d] \subseteq Recipients
    BY SwitchSets DEF TypeOK, RowType
  <2>2. QED
    BY <2>1 DEF CopyInv, CopyInvOf, Reached
<1>3. QED
  BY <1>1, <1>2, SwitchTypeCorrect, LockInit, LockStep, TodoInit, TodoStep, CopyStep,
     TypeStep, PTL
  DEF Spec
=============================================================================
