----------------------- MODULE GroupReplicationProofs -----------------------
(* Proofs about GroupReplication, for any sets of users and messages, any   *)
(* assignment of senders and any bounds.                                    *)
EXTENDS GroupReplication, TLAPS

----------------------------------------------------------------------------
(* The rows of the outboxes.                                                *)
LEMMA RowFields ==
    ASSUME NEW r \in RowType
    PROVE  /\ r.kind = "snapshot" => r.n \in 1 .. MaxChanges /\ r.list \subseteq Users
           /\ r.kind = "deliver" => r.m \in Msgs /\ r.list \subseteq Users
           /\ r.kind = "to_host" => r.m \in Msgs
           /\ r.kind = "delete_to_host" => r.m \in Msgs /\ r.by \in Users
           /\ r.kind = "delete_deliver" => r.m \in Msgs /\ r.by \in Users
           /\ r.kind = "gone" => r.list \subseteq Remote
BY DEF RowType

(* The rows the relays write are of their type.                             *)
LEMMA RowKinds ==
    /\ \A n \in 1 .. MaxChanges, us \in SUBSET Users :
         [kind |-> "snapshot", n |-> n, list |-> us] \in RowType
    /\ \A m \in Msgs, us \in SUBSET Users :
         [kind |-> "deliver", m |-> m, list |-> us] \in RowType
    /\ \A m \in Msgs : [kind |-> "to_host", m |-> m] \in RowType
    /\ \A m \in Msgs, by \in Users :
         [kind |-> "delete_to_host", m |-> m, by |-> by] \in RowType
    /\ \A m \in Msgs, by \in Users, us \in SUBSET Users :
         [kind |-> "delete_deliver", m |-> m, by |-> by, list |-> us] \in RowType
    /\ \A us \in SUBSET Remote : [kind |-> "gone", list |-> us] \in RowType
BY DEF RowType

(* Queuing adds the given row at most, and never forgets an id.             *)
LEMMA Pushed ==
    ASSUME NEW us, NEW id, NEW row, PushTo(us, id, row) \/ Push(id, row)
    PROVE  /\ rows' \subseteq rows \cup {row} /\ ids \subseteq ids'
           /\ us # {} => id \in ids'
BY DEF PushTo, Push, outbox

(* A snapshot that is applied becomes the shadow.                           *)
LEMMA ReconciledIsList == ASSUME NEW list PROVE Reconciled(list) = list
BY DEF Reconciled

----------------------------------------------------------------------------
(* Type correctness.  The peer never mirrors a group without its creator:   *)
(* no snapshot leaves the creator out, queued or pulled.                    *)
SnapshotsListCreator == \A r \in rows : r.kind = "snapshot" => Creator \in r.list
TypeInv ==
    /\ TypeOK /\ from \in [Msgs -> Users] /\ Creator \in members
    /\ changes \in 0 .. MaxChanges /\ faults \in Nat
    /\ SnapshotsListCreator

(* A row is well formed when it is queued.                                  *)
GoodRow(row) == row \in RowType /\ (row.kind = "snapshot" => Creator \in row.list)
QueuesGood == rows' \subseteq rows \/ \E row : GoodRow(row) /\ rows' \subseteq rows \cup {row}

(* Every row a step queues is well-formed.                                  *)
LEMMA RowStep ==
    ASSUME TypeInv, [Next]_vars
    PROVE  QueuesGood
<1>a. /\ members \subseteq Users /\ Creator \in members /\ changes \in 0 .. MaxChanges
      /\ Remote \subseteq Users /\ rows \subseteq RowType
  BY DEF TypeInv, TypeOK, Users
<1>1. ASSUME NEW new \in SUBSET Users, NEW relays, Creator \in new, Change(new, relays)
      PROVE  QueuesGood
  <2>1. changes + 1 \in 1 .. MaxChanges
    BY <1>1, <1>a, ReplicaNumbers DEF Change
  <2>2. GoodRow([kind |-> "snapshot", n |-> changes + 1, list |-> new])
    BY <1>1, <2>1, RowKinds DEF GoodRow
  <2>3. rows' \subseteq rows \cup {[kind |-> "snapshot", n |-> changes + 1, list |-> new]}
    BY <1>1, Pushed DEF Change
  <2>4. QED
    BY <2>2, <2>3 DEF QueuesGood
<1>2. ASSUME NEW u \in Users, Add(u) \/ Remove(u) \/ Join(u) PROVE QueuesGood
  <2>1. members \cup {u} \in SUBSET Users /\ Creator \in members \cup {u}
    BY <1>a
  <2>2. CASE Remove(u)
    <3>1. members \ {u} \in SUBSET Users /\ Creator \in members \ {u}
      BY <1>a, <2>2 DEF Remove
    <3>2. QED
      BY <1>1, <2>2, <3>1 DEF Remove
  <2>3. QED
    BY <1>1, <1>2, <2>1, <2>2 DEF Add, Join
<1>3. ASSUME NEW signed \in BOOLEAN, DeleteGroup(signed) PROVE QueuesGood
  <2>1. GoodRow([kind |-> "gone", list |-> members \cap Remote])
    BY <1>a, RowKinds DEF GoodRow
  <2>2. rows' \subseteq rows \cup {[kind |-> "gone", list |-> members \cap Remote]}
    BY <1>3, Pushed DEF DeleteGroup
  <2>3. QED
    BY <2>1, <2>2 DEF QueuesGood
<1>4. ASSUME NEW m \in Msgs, HostTakes(m) PROVE QueuesGood
  <2>1. CASE FanOut(m)
    <3>1. GoodRow([kind |-> "deliver", m |-> m, list |-> RemoteOf(m)])
      BY <1>a, RowKinds DEF GoodRow, RemoteOf
    <3>2. rows' \subseteq rows \cup {[kind |-> "deliver", m |-> m, list |-> RemoteOf(m)]}
      BY <2>1, Pushed DEF FanOut
    <3>3. QED
      BY <3>1, <3>2 DEF QueuesGood
  <2>2. CASE Acknowledge(m) \/ FanOutTorn(m)
    BY <2>2 DEF Acknowledge, FanOutTorn, outbox, QueuesGood
  <2>3. QED
    BY <1>4, <2>1, <2>2 DEF HostTakes
<1>5. ASSUME NEW m \in Msgs, SendAtPeer(m) PROVE QueuesGood
  <2>1. GoodRow([kind |-> "to_host", m |-> m])
    BY RowKinds DEF GoodRow
  <2>2. rows' \subseteq rows \cup {[kind |-> "to_host", m |-> m]}
    BY <1>5, Pushed DEF SendAtPeer
  <2>3. QED
    BY <2>1, <2>2 DEF QueuesGood
<1>6. ASSUME NEW by \in Users, NEW m \in Msgs, HostDeletes(by, m) PROVE QueuesGood
  <2> DEFINE row == [kind |-> "delete_deliver", m |-> m, by |-> by,
                     list |-> members \cap Remote]
  <2>1. members \cap Remote \in SUBSET Users
    BY <1>a
  <2>2. GoodRow(row)
    BY <2>1, RowKinds DEF GoodRow
  <2>3. rows' \subseteq rows \cup {row}
    BY <1>6, Pushed DEF HostDeletes
  <2>4. QED
    BY <2>2, <2>3 DEF QueuesGood
<1>7. ASSUME NEW by \in Users, NEW m \in Msgs, DeleteAtPeer(by, m) PROVE QueuesGood
  <2>1. GoodRow([kind |-> "delete_to_host", m |-> m, by |-> by])
    BY RowKinds DEF GoodRow
  <2>2. rows' \subseteq rows \cup {[kind |-> "delete_to_host", m |-> m, by |-> by]}
    BY <1>7, Pushed DEF DeleteAtPeer
  <2>3. QED
    BY <2>1, <2>2 DEF QueuesGood
<1>8. ASSUME NEW r \in rows, DeleteToHost(r) PROVE QueuesGood
  <2>1. r.m \in Msgs /\ r.by \in Users
    BY <1>8, <1>a, RowFields DEF DeleteToHost
  <2>2. HostDeletes(r.by, r.m) \/ rows' = rows
    BY <1>8 DEF DeleteToHost, outbox
  <2>3. QED
    BY <1>6, <2>1, <2>2 DEF QueuesGood
<1>9. ASSUME NEW r \in rows, \/ Deliver(r) \/ DeleteDeliver(r) \/ GroupGone(r)
                             \/ SnapshotPush(r) \/ Settle(r)
      PROVE  QueuesGood
  BY <1>9 DEF Deliver, DeleteDeliver, GroupGone, SnapshotPush, ApplySnapshot, Settle,
              outbox, QueuesGood
<1>10. ASSUME NEW r \in rows, ToHost(r) PROVE QueuesGood
  BY <1>10, <1>4, <1>a, RowFields DEF ToHost
<1>11. ASSUME NEW m \in Msgs, SendAtHost(m) PROVE QueuesGood
  BY <1>11, <1>4 DEF SendAtHost
<1>12. ASSUME NEW m \in Msgs, NEW by \in Users, DeleteAtHost(by, m) PROVE QueuesGood
  BY <1>12, <1>6 DEF DeleteAtHost
<1>13. ASSUME NEW u \in Users, Pull(u) PROVE QueuesGood
  BY <1>13 DEF Pull, ApplySnapshot, outbox, QueuesGood
<1>14. ASSUME NEW m \in Msgs, NEW u \in Users, Ack(u, m) PROVE QueuesGood
  BY <1>14 DEF Ack, outbox, QueuesGood
<1>15. CASE UNCHANGED vars \/ DeleteGroupTorn \/ Tick
  BY <1>15 DEF vars, DeleteGroupTorn, Tick, outbox, QueuesGood
<1>16. ASSUME NEW m \in Msgs, Age(m) PROVE QueuesGood
  BY <1>16 DEF Age, outbox, QueuesGood
<1>17. QED
  BY <1>2, <1>3, <1>5, <1>7, <1>8, <1>9, <1>10, <1>11, <1>12, <1>13, <1>14, <1>15,
     <1>16 DEF Next, Handle

(* A key of the replay guard is set by a claim, or its time passes.         *)
Elapses == claims' = [r \in {"host", "peer"} |-> [s \in Signed |->
                        IF claims[r][s] = 0 THEN 0 ELSE claims[r][s] - 1]]

LEMMA ClaimMoves ==
    ASSUME [Next]_vars
    PROVE  \/ claims' = claims \/ Elapses
           \/ \E relay \in {"host", "peer"} : \E s : claims' = Seize(relay, s)
<1>1. ASSUME NEW relay \in {"host", "peer"}, NEW s, NEW fresh, Claim(relay, s, fresh)
      PROVE  claims' = claims \/ claims' = Seize(relay, s)
  BY <1>1 DEF Claim
<1>2. ASSUME NEW r, DeleteToHost(r) \/ DeleteDeliver(r) \/ GroupGone(r)
      PROVE  \E relay \in {"host", "peer"} : \E s : claims' \in {claims, Seize(relay, s)}
  BY <1>1, <1>2 DEF DeleteToHost, DeleteDeliver, GroupGone
<1>3. \/ claims' = claims \/ Tick
      \/ \E r : DeleteToHost(r) \/ DeleteDeliver(r) \/ GroupGone(r)
  BY DEF Next, Add, Remove, Join, Change, Pull, ApplySnapshot, DeleteGroup,
         DeleteGroupTorn, SendAtHost, HostTakes, Acknowledge, FanOut, FanOutTorn,
         SendAtPeer, Age, Ack, DeleteAtHost, DeleteAtPeer, Handle, ToHost, Deliver,
         SnapshotPush, Settle, vars, guard
<1>4. QED
  BY <1>2, <1>3 DEF Tick, Elapses

(* Either way the keys have a number of seconds left.                       *)
LEMMA ClaimTypes ==
    ASSUME claims \in [{"host", "peer"} -> [Signed -> Nat]],
           \/ claims' = claims \/ Elapses
           \/ \E relay \in {"host", "peer"} : \E s : claims' = Seize(relay, s)
    PROVE  claims' \in [{"host", "peer"} -> [Signed -> Nat]]
<1>1. ASSUME NEW s PROVE Window(s) \in Nat
  BY ReplicaNumbers DEF Window
<1>2. ASSUME NEW relay \in {"host", "peer"}, NEW s, claims' = Seize(relay, s)
      PROVE  claims' \in [{"host", "peer"} -> [Signed -> Nat]]
  BY <1>1, <1>2 DEF Seize
<1>3. CASE Elapses
  BY <1>3 DEF Elapses
<1>4. QED
  BY <1>2, <1>3

(* Every step keeps the types.                                              *)
LEMMA TypeStep == TypeInv /\ [Next]_vars => TypeInv'
<1> SUFFICES ASSUME TypeInv, [Next]_vars PROVE TypeInv'
  OBVIOUS
<1>a. /\ members \subseteq Users /\ live \in BOOLEAN /\ shadow \subseteq Users
      /\ known \in BOOLEAN /\ (IF known THEN Creator \in shadow ELSE shadow = {})
      /\ rows \subseteq RowType /\ got \in [Msgs -> SUBSET Users]
      /\ meta \in [{"host", "peer"} -> SUBSET Msgs] /\ old \subseteq Msgs
      /\ gone \in [Users -> Nat] /\ ahead \in BOOLEAN /\ Creator \in members
      /\ stamp \in - ControlWindow .. ControlWindow + 1
      /\ claims \in [{"host", "peer"} -> [Signed -> Nat]]
      /\ changes \in 0 .. MaxChanges /\ faults \in Nat /\ from \in [Msgs -> Users]
      /\ Local \subseteq Users /\ Remote \subseteq Users /\ Creator \in Users
      /\ \A r \in rows : r.kind = "snapshot" => Creator \in r.list
  BY ReplicaSets DEF TypeInv, TypeOK, Users, SnapshotsListCreator
<1>b. /\ \A r \in rows : r.kind = "snapshot" => r.list \subseteq Users
      /\ \A r \in rows : r.kind \in {"to_host", "deliver", "delete_to_host",
                                     "delete_deliver"} => r.m \in Msgs
  BY <1>a, RowFields
<1>1. rows' \subseteq RowType /\ SnapshotsListCreator'
  BY <1>a, RowStep DEF QueuesGood, GoodRow, SnapshotsListCreator
(* The host's table.                                                        *)
<1>2. /\ members' \subseteq Users /\ Creator \in members' /\ live' \in BOOLEAN
      /\ changes' \in 0 .. MaxChanges
  <2>1. \/ /\ members' = members /\ changes' = changes
           /\ live' = live \/ live' = FALSE
        \/ /\ \E u \in Users : members' = members \cup {u} \/ (u # Creator /\ members' = members \ {u})
           /\ live' = live /\ changes' = changes + 1 /\ changes < MaxChanges
    BY DEF Next, Add, Remove, Join, Change, Pull, ApplySnapshot, DeleteGroup, DeleteGroupTorn, Tick, SendAtHost,
           HostTakes, Acknowledge, FanOut, FanOutTorn, SendAtPeer, Age, Ack,
           DeleteAtHost, DeleteAtPeer, Handle, ToHost, Deliver, DeleteToHost,
           DeleteDeliver, GroupGone, SnapshotPush, Settle, vars, host, bounds
  <2>2. CASE members' = members /\ changes' = changes /\ (live' = live \/ live' = FALSE)
    BY <1>a, <2>2
  <2>3. ASSUME live' = live, changes' = changes + 1, changes < MaxChanges
        PROVE  live' \in BOOLEAN /\ changes' \in 0 .. MaxChanges
    BY <1>a, <2>3, ReplicaNumbers
  <2>4. QED
    BY <1>a, <2>1, <2>2, <2>3
(* The peer's mirror.                                                       *)
<1>3. /\ shadow' \subseteq Users /\ known' \in BOOLEAN
      /\ IF known' THEN Creator \in shadow' ELSE shadow' = {}
  <2>1. ASSUME NEW n, NEW list \in SUBSET Users, Creator \in list, ApplySnapshot(n, list)
        PROVE  shadow' \subseteq Users /\ known' = TRUE /\ Creator \in shadow'
    BY <2>1, ReconciledIsList DEF ApplySnapshot
  <2>2. \/ shadow' = shadow /\ known' = known
        \/ \E r \in rows : SnapshotPush(r)
        \/ \E u \in Users : Pull(u)
    BY DEF Next, Add, Remove, Join, Change, DeleteGroup, DeleteGroupTorn, Tick, SendAtHost,
           HostTakes, Acknowledge, FanOut, FanOutTorn, SendAtPeer, Age, Ack,
           DeleteAtHost, DeleteAtPeer, Handle, ToHost, Deliver, DeleteToHost,
           DeleteDeliver, GroupGone, Settle, vars, peer
  <2>3. CASE \E r \in rows : SnapshotPush(r)
    BY <1>a, <1>b, <2>1, <2>3 DEF SnapshotPush
  <2>4. CASE \E u \in Users : Pull(u)
    BY <1>a, <2>1, <2>4 DEF Pull
  <2>5. QED
    BY <1>a, <2>2, <2>3, <2>4
(* The queues.                                                              *)
<1>4. got' \in [Msgs -> SUBSET Users] /\ meta' \in [{"host", "peer"} -> SUBSET Msgs]
  <2>1. ASSUME NEW m \in Msgs, FanOutRedis(m)
        PROVE  got' \in [Msgs -> SUBSET Users]
               /\ meta' \in [{"host", "peer"} -> SUBSET Msgs]
    BY <1>a, <2>1 DEF FanOutRedis, Others
  <2>2. ASSUME NEW m \in Msgs, HostTakes(m)
        PROVE  got' \in [Msgs -> SUBSET Users]
               /\ meta' \in [{"host", "peer"} -> SUBSET Msgs]
    <3>1. FanOutRedis(m) \/ UNCHANGED queue
      BY <2>2 DEF HostTakes, Acknowledge, FanOut, FanOutTorn
    <3>2. QED
      BY <1>a, <2>1, <3>1 DEF queue
  <2>3. ASSUME NEW r \in rows, Deliver(r)
        PROVE  got' \in [Msgs -> SUBSET Users]
               /\ meta' \in [{"host", "peer"} -> SUBSET Msgs]
    <3>1. r.m \in Msgs /\ Receivers(r) \subseteq Users
      BY <1>a, <1>b, <2>3 DEF Deliver, Receivers
    <3>2. QED
      BY <1>a, <2>3, <3>1 DEF Deliver
  <2>4. ASSUME NEW u \in Users, NEW m \in Msgs, Ack(u, m)
        PROVE  got' \in [Msgs -> SUBSET Users]
               /\ meta' \in [{"host", "peer"} -> SUBSET Msgs]
    BY <1>a, <2>4 DEF Ack
  <2>5. ASSUME NEW relay, NEW m \in Msgs, NEW us, NEW by, Erase(relay, m, us, by)
        PROVE  got' \in [Msgs -> SUBSET Users]
               /\ meta' \in [{"host", "peer"} -> SUBSET Msgs]
    BY <1>a, <2>5 DEF Erase
  <2>6. ASSUME NEW u \in Users, NEW m \in Msgs, DeleteAtHost(u, m)
        PROVE  got' \in [Msgs -> SUBSET Users]
               /\ meta' \in [{"host", "peer"} -> SUBSET Msgs]
    BY <2>5, <2>6 DEF DeleteAtHost, HostDeletes
  <2>7. ASSUME NEW r \in rows, DeleteToHost(r) \/ DeleteDeliver(r)
        PROVE  got' \in [Msgs -> SUBSET Users]
               /\ meta' \in [{"host", "peer"} -> SUBSET Msgs]
    <3>1. r.m \in Msgs
      BY <1>b, <2>7 DEF DeleteToHost, DeleteDeliver
    <3>2. \/ \E relay, us : Erase(relay, r.m, us, r.by)
          \/ UNCHANGED queue
      BY <2>7 DEF DeleteToHost, DeleteDeliver, HostDeletes, Spare
    <3>3. QED
      BY <1>a, <2>5, <3>1, <3>2 DEF queue
  <2>8. ASSUME NEW r \in rows, ToHost(r)
        PROVE  got' \in [Msgs -> SUBSET Users]
               /\ meta' \in [{"host", "peer"} -> SUBSET Msgs]
    BY <1>b, <2>2, <2>8 DEF ToHost
  <2>9. \/ UNCHANGED queue
        \/ \E m \in Msgs : HostTakes(m)
        \/ \E u \in Users, m \in Msgs : Ack(u, m) \/ DeleteAtHost(u, m)
        \/ \E r \in rows : ToHost(r) \/ Deliver(r) \/ DeleteToHost(r) \/ DeleteDeliver(r)
    BY DEF Next, Add, Remove, Join, Change, Pull, ApplySnapshot, DeleteGroup, DeleteGroupTorn, Tick,
           SendAtHost, SendAtPeer, Age, DeleteAtPeer, Handle, GroupGone, SnapshotPush,
           Settle, vars
  <2>10. QED
    BY <1>a, <2>2, <2>3, <2>4, <2>6, <2>7, <2>8, <2>9 DEF queue
(* The rest.                                                                *)
<1>5. from' = from /\ old' \subseteq Msgs
  BY <1>a DEF Next, Add, Remove, Join, Change, Pull, ApplySnapshot, DeleteGroup, DeleteGroupTorn, Tick,
         SendAtHost, HostTakes, Acknowledge, FanOut, FanOutTorn, SendAtPeer, Age, Ack,
         DeleteAtHost, DeleteAtPeer, Handle, ToHost, Deliver, DeleteToHost,
         DeleteDeliver, GroupGone, SnapshotPush, Settle, vars
<1>6. faults' \in Nat
  <2>1. faults' = faults \/ faults' = faults + 1
    BY DEF Next, Add, Remove, Join, Change, Pull, ApplySnapshot, DeleteGroup, DeleteGroupTorn, Tick,
           SendAtHost, HostTakes, Acknowledge, FanOut, FanOutTorn, SendAtPeer, Age, Ack,
           DeleteAtHost, DeleteAtPeer, Handle, ToHost, Deliver, DeleteToHost,
           DeleteDeliver, GroupGone, SnapshotPush, Settle, Claim, vars, bounds
  <2>2. QED
    BY <1>a, <2>1
<1>7. gone' \in [Users -> Nat]
  <2>1. gone' = gone \/ \E us : Announce(us)
    BY DEF Next, Add, Remove, Join, Change, Pull, ApplySnapshot, DeleteGroup,
           DeleteGroupTorn, Farewell, Tick, SendAtHost, HostTakes, Acknowledge,
           FanOut, FanOutTorn, SendAtPeer, Age, Ack, DeleteAtHost, DeleteAtPeer,
           Handle, ToHost, Deliver, DeleteToHost, DeleteDeliver, GroupGone,
           SnapshotPush, Settle, vars, history
  <2>2. QED
    BY <1>a, <2>1 DEF Announce
(* The replay guard.                                                        *)
<1>8. ahead' \in BOOLEAN /\ stamp' \in - ControlWindow .. ControlWindow + 1
  <2>1. ahead' = ahead \/ ahead' = (ahead \/ stamp <= 0)
    BY DEF Next, Add, Remove, Join, Change, Pull, ApplySnapshot, DeleteGroup,
           DeleteGroupTorn, Tick, SendAtHost, HostTakes, Acknowledge, FanOut,
           FanOutTorn, SendAtPeer, Age, Ack, DeleteAtHost, DeleteAtPeer, Handle,
           ToHost, Deliver, DeleteToHost, DeleteDeliver, GroupGone, SnapshotPush,
           Settle, vars, history
  <2>2. \/ stamp' = stamp \/ Tick
        \/ \E signed \in BOOLEAN : DeleteGroup(signed)
    BY DEF Next, Add, Remove, Join, Change, Pull, ApplySnapshot, DeleteGroupTorn,
           SendAtHost, HostTakes, Acknowledge, FanOut, FanOutTorn, SendAtPeer, Age,
           Ack, DeleteAtHost, DeleteAtPeer, Handle, ToHost, Deliver, DeleteToHost,
           DeleteDeliver, GroupGone, SnapshotPush, Settle, vars, guard
  <2>3. CASE Tick
    <3>1. stamp' = IF stamp > ControlWindow THEN stamp ELSE stamp + 1
      BY <2>3 DEF Tick
    <3>2. stamp' \in - ControlWindow .. ControlWindow + 1
      BY <1>a, <3>1, ReplicaNumbers
    <3>3. QED
      BY <1>a, <2>1, <3>2
  <2>4. CASE \E signed \in BOOLEAN : DeleteGroup(signed)
    <3>1. stamp' \in - ControlWindow .. ControlWindow + 1
      BY <1>a, <2>4 DEF DeleteGroup
    <3>2. QED
      BY <1>a, <2>1, <3>1
  <2>5. QED
    BY <1>a, <2>1, <2>2, <2>3, <2>4
<1>9. claims' \in [{"host", "peer"} -> [Signed -> Nat]]
  BY <1>a, ClaimMoves, ClaimTypes
<1>10. TypeOK'
  BY <1>1, <1>2, <1>3, <1>4, <1>5, <1>7, <1>8, <1>9 DEF TypeOK
<1>11. QED
  BY <1>a, <1>1, <1>2, <1>5, <1>6, <1>10 DEF TypeInv

(* The types, with the well-formed rows, always hold.                       *)
LEMMA TypeInvHolds == Spec => []TypeInv
<1>1. Init => TypeInv
  <2> SUFFICES ASSUME Init PROVE TypeInv
    OBVIOUS
  <2>1. from \in [Msgs -> Users] /\ Creator \in Users
    BY ReplicaSets DEF Init, Users
  <2>2. changes \in 0 .. MaxChanges /\ faults \in Nat /\ gone \in [Users -> Nat]
    BY ReplicaNumbers DEF Init
  <2>3. /\ live \in BOOLEAN /\ known = FALSE /\ shadow = {} /\ rows = {}
        /\ members = {Creator} /\ old = {}
    BY DEF Init
  <2>4. got \in [Msgs -> SUBSET Users] /\ meta \in [{"host", "peer"} -> SUBSET Msgs]
    BY DEF Init, NoOne
  <2>5. /\ ahead \in BOOLEAN /\ stamp \in - ControlWindow .. ControlWindow + 1
        /\ claims \in [{"host", "peer"} -> [Signed -> Nat]]
    <3>1. ahead = FALSE /\ stamp = ControlWindow + 1
      BY DEF Init
    <3>2. stamp \in - ControlWindow .. ControlWindow + 1
      BY <3>1, ReplicaNumbers
    <3>3. claims \in [{"host", "peer"} -> [Signed -> Nat]]
      BY DEF Init
    <3>4. QED
      BY <3>1, <3>2, <3>3
  <2>6. TypeOK
    BY <2>1, <2>2, <2>3, <2>4, <2>5 DEF TypeOK
  <2>7. QED
    BY <2>1, <2>2, <2>3, <2>6 DEF TypeInv, SnapshotsListCreator
<1>2. QED
  BY <1>1, TypeStep, PTL DEF Spec

(* Tables, queues and outboxes keep their shape; a mirrored group always    *)
(* lists its creator, whatever snapshots are pushed, pulled or reordered.   *)
THEOREM ReplicationTypeCorrect == Spec => []TypeOK
<1>1. TypeInv => TypeOK
  BY DEF TypeInv
<1>2. QED
  BY <1>1, TypeInvHolds, PTL

----------------------------------------------------------------------------
(* What the steps do to the history of the messages: only the host's        *)
(* fan-out and the peer's delivery reach anybody.                           *)
LEMMA TalkMoves ==
    ASSUME [Next]_vars
    PROVE  /\ from' = from
           /\ \/ UNCHANGED <<ever, fan>>
              \/ \E m \in Msgs \cup {r.m : r \in {x \in rows : x.kind = "to_host"}} :
                   MaySpeak(m) /\ (FanOut(m) \/ FanOutTorn(m))
              \/ \E r \in rows : Deliver(r)
<1>1. ASSUME NEW m, HostTakes(m)
      PROVE  /\ from' = from
             /\ \/ UNCHANGED <<ever, fan>>
                \/ MaySpeak(m) /\ (FanOut(m) \/ FanOutTorn(m))
  BY <1>1 DEF HostTakes, Acknowledge, FanOut, FanOutTorn
<1>2. ASSUME NEW m \in Msgs, SendAtHost(m) PROVE HostTakes(m)
  BY <1>2 DEF SendAtHost
<1>3. ASSUME NEW r \in rows, ToHost(r) PROVE HostTakes(r.m) /\ r.kind = "to_host"
  BY <1>3 DEF ToHost
<1>4. ASSUME NEW r \in rows, Deliver(r) PROVE from' = from
  BY <1>4 DEF Deliver
<1>5. \/ UNCHANGED <<from, ever, fan>>
      \/ \E m \in Msgs : SendAtHost(m)
      \/ \E r \in rows : ToHost(r) \/ Deliver(r)
  BY DEF Next, Add, Remove, Join, Change, Pull, ApplySnapshot, DeleteGroup, DeleteGroupTorn, Tick,
         SendAtPeer, Age, Ack, DeleteAtHost, DeleteAtPeer, Handle, DeleteToHost,
         DeleteDeliver, GroupGone, SnapshotPush, Settle, vars, history
<1>6. QED
  BY <1>1, <1>2, <1>3, <1>4, <1>5

(* Rows to deliver are queued by a committed fan-out only, and ids are      *)
(* never forgotten.                                                         *)
LEMMA DeliverRows ==
    ASSUME [Next]_vars, NEW r \in rows', r \notin rows, r.kind = "deliver"
    PROVE  \E m : FanOut(m) /\ r = [kind |-> "deliver", m |-> m, list |-> RemoteOf(m)]
<1>1. ASSUME NEW us, NEW id, NEW row, PushTo(us, id, row) \/ Push(id, row),
             row.kind # "deliver"
      PROVE  FALSE
  BY <1>1, Pushed
<1>2. ASSUME NEW new, NEW relays, Change(new, relays) PROVE FALSE
  <2>1. [kind |-> "snapshot", n |-> changes + 1, list |-> new].kind # "deliver"
    OBVIOUS
  <2>2. QED
    BY <1>1, <1>2, <2>1 DEF Change
<1>3. ASSUME NEW signed, DeleteGroup(signed) PROVE FALSE
  <2>1. [kind |-> "gone", list |-> members \cap Remote].kind # "deliver"
    OBVIOUS
  <2>2. QED
    BY <1>1, <1>3, <2>1 DEF DeleteGroup
<1>4. ASSUME NEW m, SendAtPeer(m) PROVE FALSE
  <2>1. [kind |-> "to_host", m |-> m].kind # "deliver"
    OBVIOUS
  <2>2. QED
    BY <1>1, <1>4, <2>1 DEF SendAtPeer
<1>5. ASSUME NEW by, NEW m, DeleteAtPeer(by, m) PROVE FALSE
  <2>1. [kind |-> "delete_to_host", m |-> m, by |-> by].kind # "deliver"
    OBVIOUS
  <2>2. QED
    BY <1>1, <1>5, <2>1 DEF DeleteAtPeer
<1>6. ASSUME NEW by, NEW m, HostDeletes(by, m) PROVE FALSE
  <2>1. [kind |-> "delete_deliver", m |-> m, by |-> by,
         list |-> members \cap Remote].kind # "deliver"
    OBVIOUS
  <2>2. QED
    BY <1>1, <1>6, <2>1 DEF HostDeletes
<1>7. ASSUME NEW m, HostTakes(m) PROVE FanOut(m)
  BY <1>7 DEF HostTakes, Acknowledge, FanOutTorn, outbox
<1>8. PICK m : FanOut(m)
  <2>1. ASSUME NEW u, Add(u) \/ Remove(u) \/ Join(u) \/ Pull(u) PROVE FALSE
    BY <2>1, <1>2 DEF Add, Remove, Join, Pull, ApplySnapshot, outbox
  <2>2. ASSUME NEW u, NEW m, Age(m) \/ Ack(u, m) \/ DeleteAtHost(u, m) PROVE FALSE
    BY <2>2, <1>6 DEF Age, Ack, DeleteAtHost, outbox
  <2>3. ASSUME NEW x \in rows, \/ Deliver(x) \/ DeleteToHost(x) \/ DeleteDeliver(x)
                               \/ GroupGone(x) \/ SnapshotPush(x) \/ Settle(x)
        PROVE  FALSE
    BY <2>3, <1>6 DEF Deliver, DeleteToHost, DeleteDeliver, GroupGone, SnapshotPush,
                      ApplySnapshot, Settle, outbox
  <2>4. ~(UNCHANGED vars \/ DeleteGroupTorn \/ Tick)
    BY DEF vars, DeleteGroupTorn, Tick, outbox
  <2>5. \E m : HostTakes(m)
    BY <1>3, <1>4, <1>5, <2>1, <2>2, <2>3, <2>4 DEF Next, Handle, SendAtHost, ToHost
  <2>6. QED
    BY <1>7, <2>5
<1>9. QED
  BY <1>8, Pushed DEF FanOut

----------------------------------------------------------------------------
(* Who talks to whom: a message is only fanned out for a member, to those   *)
(* who were members then, and the rows to the peer name nobody else.        *)
TalkInv ==
    /\ fan \in [Msgs -> SUBSET Users] /\ ever \in [Msgs -> SUBSET Users]
    /\ \A m \in Msgs : /\ ever[m] \subseteq Others(m, fan[m])
                       /\ fan[m] = {} \/ from[m] \in fan[m]
    /\ \A r \in rows : r.kind = "deliver" => r.list \subseteq Others(r.m, fan[r.m])

(* Every step keeps what is queued in the name of somebody who was a        *)
(* member.                                                                  *)
LEMMA TalkStep == TypeInv /\ TalkInv /\ [Next]_vars => TalkInv'
<1> SUFFICES ASSUME TypeInv, TalkInv, [Next]_vars PROVE TalkInv'
  OBVIOUS
<1>a. /\ fan \in [Msgs -> SUBSET Users] /\ ever \in [Msgs -> SUBSET Users]
      /\ \A m \in Msgs : /\ ever[m] \subseteq fan[m] \ {from[m]}
                         /\ fan[m] = {} \/ from[m] \in fan[m]
      /\ \A r \in rows : r.kind = "deliver" => r.list \subseteq fan[r.m] \ {from[r.m]}
      /\ members \subseteq Users /\ rows \subseteq RowType /\ from' = from
      /\ \A r \in rows : r.kind \in {"deliver", "to_host"} => r.m \in Msgs
  BY TalkMoves, RowFields DEF TalkInv, TypeInv, TypeOK, Others
<1>1. CASE UNCHANGED <<ever, fan>>
  <2>1. ASSUME NEW r \in rows', r.kind = "deliver"
        PROVE  r.list \subseteq fan[r.m] \ {from[r.m]}
    <3>1. CASE r \in rows
      BY <1>a, <2>1, <3>1
    <3>2. CASE r \notin rows
      <4>1. PICK m : FanOut(m) /\ r = [kind |-> "deliver", m |-> m, list |-> RemoteOf(m)]
        BY <2>1, <3>2, DeliverRows
      <4>2. r.m = m /\ r.list = RemoteOf(m)
        BY <4>1
      <4>3. fan' = [fan EXCEPT ![m] = @ \cup members]
        BY <4>1 DEF FanOut, FanOutRedis
      <4>4. CASE m \in Msgs
        BY <1>1, <1>a, <4>2, <4>3, <4>4 DEF RemoteOf, Others
      <4>5. m \in Msgs
        <5>1. rows' \subseteq RowType
          BY RowStep, <1>a DEF QueuesGood, GoodRow
        <5>2. QED
          BY <5>1, <2>1, <4>2, RowFields
      <4>6. QED
        BY <4>4, <4>5
    <3>3. QED
      BY <3>1, <3>2
  <2>2. QED
    BY <1>a, <1>1, <2>1 DEF TalkInv, Others
<1>2. ASSUME NEW m \in Msgs, MaySpeak(m), FanOut(m) \/ FanOutTorn(m) PROVE TalkInv'
  <2>1. /\ fan' = [fan EXCEPT ![m] = @ \cup members]
        /\ ever' = [ever EXCEPT ![m] = @ \cup (Others(m, members) \cap Local)]
        /\ from[m] \in members
    BY <1>2 DEF FanOut, FanOutTorn, FanOutRedis, MaySpeak
  <2>2. /\ fan' \in [Msgs -> SUBSET Users] /\ ever' \in [Msgs -> SUBSET Users]
        /\ \A x \in Msgs : /\ ever'[x] \subseteq fan'[x] \ {from[x]}
                           /\ fan'[x] = {} \/ from[x] \in fan'[x]
                           /\ fan[x] \subseteq fan'[x]
    BY <1>a, <2>1 DEF Others
  <2>3. ASSUME NEW r \in rows', r.kind = "deliver"
        PROVE  r.list \subseteq fan'[r.m] \ {from[r.m]}
    <3>1. CASE r \in rows
      BY <1>a, <2>2, <2>3, <3>1
    <3>2. CASE r \notin rows
      <4>1. rows' \subseteq rows \cup {[kind |-> "deliver", m |-> m, list |-> RemoteOf(m)]}
        BY <1>2, Pushed DEF FanOut, FanOutTorn, outbox
      <4>2. r.m = m /\ r.list = RemoteOf(m)
        BY <3>2, <4>1
      <4>3. QED
        BY <1>a, <2>1, <4>2 DEF RemoteOf, Others
    <3>3. QED
      BY <3>1, <3>2
  <2>4. QED
    BY <1>a, <2>2, <2>3 DEF TalkInv, Others
<1>3. ASSUME NEW r \in rows, Deliver(r) PROVE TalkInv'
  <2>1. /\ r.m \in Msgs /\ r.list \subseteq fan[r.m] \ {from[r.m]}
        /\ ever' = [ever EXCEPT ![r.m] = @ \cup Receivers(r)]
        /\ fan' = fan /\ rows' = rows
    BY <1>a, <1>3 DEF Deliver, outbox
  <2>2. Receivers(r) \subseteq r.list
    BY DEF Receivers
  <2>3. /\ ever' \in [Msgs -> SUBSET Users]
        /\ \A m \in Msgs : ever'[m] \subseteq fan[m] \ {from[m]}
    BY <1>a, <2>1, <2>2
  <2>4. QED
    BY <1>a, <2>1, <2>3 DEF TalkInv, Others
<1>4. QED
  BY <1>a, <1>1, <1>2, <1>3, TalkMoves

(* Who gets a group message was a member when the host fanned it out, and   *)
(* so was its sender, however stale the shadow is on which the peer         *)
(* accepted or delivered it and however rows are reordered or repeated.     *)
THEOREM OnlyMembersTalkHolds == Spec => []OnlyMembersTalk
<1>1. Init => TalkInv
  BY ReplicaSets DEF Init, TalkInv, NoOne, Others
<1>2. TalkInv => OnlyMembersTalk
  BY DEF TalkInv, OnlyMembersTalk, Others
<1>3. QED
  BY <1>1, <1>2, TalkStep, TypeInvHolds, PTL DEF Spec

----------------------------------------------------------------------------
(* Nobody is forgotten: a message that was fanned out to a member of the    *)
(* peer has its row, acknowledged or not, unless its commit failed.         *)
QueuedInv ==
    /\ fan \in [Msgs -> SUBSET Users]
    /\ \A m \in Msgs \ torn :
         Others(m, fan[m]) \cap Remote # {} => <<"deliver", m>> \in ids
    /\ accepted \subseteq Msgs

(* Every step keeps that a message fanned out to members on the peer has had *)
(* its row, unless the commit failed.                                       *)
LEMMA QueuedStep == TypeInv /\ QueuedInv /\ [Next]_vars => QueuedInv'
<1> SUFFICES ASSUME TypeInv, QueuedInv, [Next]_vars PROVE QueuedInv'
  OBVIOUS
<1>a. /\ fan \in [Msgs -> SUBSET Users] /\ accepted \subseteq Msgs
      /\ \A m \in Msgs \ torn :
           (fan[m] \ {from[m]}) \cap Remote # {} => <<"deliver", m>> \in ids
      /\ members \subseteq Users /\ from' = from
      /\ \A r \in rows : r.kind = "to_host" => r.m \in Msgs
  BY TalkMoves, RowFields DEF QueuedInv, TypeInv, TypeOK, Others
<1>b. ids \subseteq ids'
  BY DEF Next, Add, Remove, Join, Change, Pull, ApplySnapshot, DeleteGroup, DeleteGroupTorn, Tick,
         SendAtHost, HostTakes, Acknowledge, FanOut, FanOutTorn, SendAtPeer, Age, Ack,
         DeleteAtHost, DeleteAtPeer, HostDeletes, Handle, ToHost, Deliver,
         DeleteToHost, DeleteDeliver, GroupGone, SnapshotPush, Settle, vars, outbox,
         PushTo, Push
<1>c. torn \subseteq torn'
  BY DEF Next, Add, Remove, Join, Change, Pull, ApplySnapshot, DeleteGroup, DeleteGroupTorn, Tick,
         SendAtHost, HostTakes, Acknowledge, FanOut, FanOutTorn, SendAtPeer, Age, Ack,
         DeleteAtHost, DeleteAtPeer, Handle, ToHost, Deliver,
         DeleteToHost, DeleteDeliver, GroupGone, SnapshotPush, Settle, vars, history
<1>d. accepted' \subseteq Msgs
  <2>1. ASSUME NEW m \in Msgs, HostTakes(m) PROVE accepted' \subseteq Msgs
    BY <1>a, <2>1 DEF HostTakes, Acknowledge, FanOut, FanOutTorn
  <2>2. ASSUME NEW r \in rows, ToHost(r) PROVE accepted' \subseteq Msgs
    BY <1>a, <2>1, <2>2 DEF ToHost
  <2>3. \/ accepted' = accepted
        \/ \E m \in Msgs : HostTakes(m)
        \/ \E r \in rows : ToHost(r)
    BY DEF Next, Add, Remove, Join, Change, Pull, ApplySnapshot, DeleteGroup, DeleteGroupTorn, Tick,
           SendAtHost, SendAtPeer, Age, Ack, DeleteAtHost, DeleteAtPeer, Handle,
           Deliver, DeleteToHost, DeleteDeliver, GroupGone, SnapshotPush, Settle, vars,
           history
  <2>4. QED
    BY <1>a, <2>1, <2>2, <2>3
<1>1. CASE fan' = fan
  BY <1>a, <1>b, <1>c, <1>d, <1>1 DEF QueuedInv, Others
<1>2. ASSUME NEW m \in Msgs, FanOut(m) PROVE QueuedInv'
  <2>1. /\ fan' = [fan EXCEPT ![m] = @ \cup members]
        /\ RemoteOf(m) # {} => <<"deliver", m>> \in ids'
    BY <1>2, Pushed DEF FanOut, FanOutRedis
  <2>2. QED
    BY <1>a, <1>b, <1>c, <1>d, <2>1 DEF QueuedInv, Others, RemoteOf
<1>3. ASSUME NEW m \in Msgs, FanOutTorn(m) PROVE QueuedInv'
  <2>1. fan' = [fan EXCEPT ![m] = @ \cup members] /\ m \in torn'
    BY <1>3 DEF FanOutTorn, FanOutRedis
  <2>2. QED
    BY <1>a, <1>b, <1>c, <1>d, <2>1 DEF QueuedInv, Others
<1>4. ASSUME NEW r \in rows, Deliver(r) PROVE fan' = fan
  BY <1>4 DEF Deliver
<1>5. QED
  BY <1>a, <1>1, <1>2, <1>3, <1>4, TalkMoves

(* What the host has acknowledged is queued for the members of the peer,    *)
(* however often it is sent again and however the membership changes in     *)
(* between, unless the commit of its fan-out failed.                        *)
THEOREM NobodyIsForgottenHolds == Spec => []NobodyIsForgotten
<1>1. Init => QueuedInv
  BY DEF Init, QueuedInv, NoOne, Others
<1>2. QueuedInv => NobodyIsForgotten
  BY DEF QueuedInv, NobodyIsForgotten
<1>3. QED
  BY <1>1, <1>2, QueuedStep, TypeInvHolds, PTL DEF Spec

----------------------------------------------------------------------------
(* Deletion: both relays decide for themselves.                             *)
DeleteInv == removedBy \in [Msgs -> SUBSET Users] /\ OnlyOwnersDelete

(* Every step keeps deletes in the name of their owners.                    *)
LEMMA DeleteStep == TypeInv /\ DeleteInv /\ [Next]_vars => DeleteInv'
<1> SUFFICES ASSUME TypeInv, DeleteInv, [Next]_vars PROVE DeleteInv'
  OBVIOUS
<1>a. /\ removedBy \in [Msgs -> SUBSET Users] /\ rows \subseteq RowType
      /\ \A m \in Msgs : removedBy[m] \subseteq {from[m], Creator}
      /\ from' = from
  BY TalkMoves DEF DeleteInv, OnlyOwnersDelete, TypeInv, TypeOK
<1>1. ASSUME NEW m \in Msgs, NEW by \in Users, by \in {from[m], Creator},
             NEW relay, NEW us, Erase(relay, m, us, by)
      PROVE  DeleteInv'
  <2>1. removedBy' = [removedBy EXCEPT ![m] = @ \cup {by}]
    BY <1>1 DEF Erase
  <2>2. QED
    BY <1>a, <1>1, <2>1 DEF DeleteInv, OnlyOwnersDelete
<1>2. CASE removedBy' = removedBy
  BY <1>a, <1>2 DEF DeleteInv, OnlyOwnersDelete
<1>3. ASSUME NEW by \in Users, NEW m \in Msgs, DeleteAtHost(by, m) PROVE DeleteInv'
  <2>1. by \in {from[m], Creator} /\ Erase("host", m, members \cap Local, by)
    BY <1>3 DEF DeleteAtHost, MayDelete, HostDeletes
  <2>2. QED
    BY <1>1, <2>1
<1>4. ASSUME NEW r \in rows, DeleteToHost(r) PROVE DeleteInv'
  <2>1. r.m \in Msgs /\ r.by \in Users
    BY <1>4, <1>a, RowFields DEF DeleteToHost
  <2>2. \/ r.by \in {from[r.m], Creator} /\ Erase("host", r.m, members \cap Local, r.by)
        \/ removedBy' = removedBy
    BY <1>4 DEF DeleteToHost, MayDelete, HostDeletes, Spare
  <2>3. QED
    BY <1>1, <1>2, <2>1, <2>2
<1>5. ASSUME NEW r \in rows, DeleteDeliver(r) PROVE DeleteInv'
  <2>1. r.m \in Msgs /\ r.by \in Users
    BY <1>5, <1>a, RowFields DEF DeleteDeliver
  <2>2. \/ r.by \in {from[r.m], Creator} /\ Erase("peer", r.m, r.list \cap Remote, r.by)
        \/ removedBy' = removedBy
    BY <1>5 DEF DeleteDeliver, PeerAllows, Spare
  <2>3. QED
    BY <1>1, <1>2, <2>1, <2>2
<1>6. \/ removedBy' = removedBy
      \/ \E u \in Users, m \in Msgs : DeleteAtHost(u, m)
      \/ \E r \in rows : DeleteToHost(r) \/ DeleteDeliver(r)
  BY DEF Next, Add, Remove, Join, Change, Pull, ApplySnapshot, DeleteGroup, DeleteGroupTorn, Tick,
         SendAtHost, HostTakes, Acknowledge, FanOut, FanOutTorn, SendAtPeer, Age, Ack,
         DeleteAtPeer, Handle, ToHost, Deliver, GroupGone, SnapshotPush, Settle, vars,
         history
<1>7. QED
  BY <1>2, <1>3, <1>4, <1>5, <1>6

(* Only the sender or the group's creator has a message deleted, on either  *)
(* relay, although requests travel through the other one.                   *)
THEOREM OnlyOwnersDeleteHolds == Spec => []OnlyOwnersDelete
<1>1. Init => DeleteInv
  BY DEF Init, DeleteInv, OnlyOwnersDelete, NoOne
<1>2. DeleteInv => OnlyOwnersDelete
  BY DEF DeleteInv
<1>3. QED
  BY <1>1, <1>2, DeleteStep, TypeInvHolds, PTL DEF Spec

----------------------------------------------------------------------------
(* The end of the group.  A local member is told by delete_group alone.  On *)
(* the peer each claim that succeeds finds no key and leaves one for a      *)
(* window, so that stamp plus what is left of the key grows by a window     *)
(* with each further time the event is let through while its ts counts.     *)
Left == claims["peer"][Gone]
Told(u, n) == gone[u] >= faults + n
LocalInv == \A u \in Local : gone[u] <= (IF live THEN 0 ELSE 1) + faults
LiveInv ==
    live => /\ \A r \in rows : r.kind # "gone"
            /\ \A u \in Remote : gone[u] = 0
Spaced(u) ==
    \/ stamp > ControlWindow
    \/ /\ Told(u, 1) => stamp + Left >= 0
       /\ Told(u, 2) => stamp + Left >= ControlWindow
       /\ Told(u, 3) => stamp + Left >= 2 * ControlWindow
       /\ Told(u, 1) /\ ~ahead => stamp + Left > ControlWindow
RemoteInv ==
    \A u \in Remote : /\ gone[u] <= faults + 3
                      /\ ~ahead => gone[u] <= faults + 1
                      /\ Spaced(u)
GoneInv == LocalInv /\ LiveInv /\ RemoteInv

(* What is left of the key only shrinks by the time that passes.            *)
Keeps ==
    /\ gone' = gone /\ live' = live /\ ahead' = ahead
    /\ rows' \subseteq rows \/ \A r \in rows' \ rows : r.kind # "gone"
    /\ faults' = faults \/ faults' = faults + 1
    /\ \/ stamp' = stamp /\ Left' = Left
       \/ /\ stamp' = IF stamp > ControlWindow THEN stamp ELSE stamp + 1
          /\ Left' = IF Left = 0 THEN 0 ELSE Left - 1

(* Only the deletion of the group queues a row about its end.               *)
LEMMA GoneRows ==
    ASSUME [Next]_vars, ~ \E signed \in BOOLEAN : DeleteGroup(signed)
    PROVE  \A r \in rows' \ rows : r.kind # "gone"
<1> DEFINE Fine == \A r \in rows' \ rows : r.kind # "gone"
<1>1. ASSUME NEW us, NEW id, NEW row, PushTo(us, id, row) \/ Push(id, row),
             row.kind # "gone"
      PROVE  Fine
  <2>1. rows' \subseteq rows \cup {row}
    BY <1>1, Pushed
  <2>2. QED
    BY <1>1, <2>1
<1>2. ASSUME NEW new, NEW relays, Change(new, relays) PROVE Fine
  <2>1. [kind |-> "snapshot", n |-> changes + 1, list |-> new].kind # "gone"
    OBVIOUS
  <2>2. QED
    BY <1>1, <1>2, <2>1 DEF Change
<1>3. ASSUME NEW m, HostTakes(m) PROVE Fine
  <2>1. [kind |-> "deliver", m |-> m, list |-> RemoteOf(m)].kind # "gone"
    OBVIOUS
  <2>2. FanOut(m) => Fine
    BY <1>1, <2>1 DEF FanOut
  <2>3. QED
    BY <1>3, <2>2 DEF HostTakes, Acknowledge, FanOutTorn, outbox
<1>4. ASSUME NEW m, SendAtPeer(m) PROVE Fine
  <2>1. [kind |-> "to_host", m |-> m].kind # "gone"
    OBVIOUS
  <2>2. QED
    BY <1>1, <1>4, <2>1 DEF SendAtPeer
<1>5. ASSUME NEW by, NEW m, DeleteAtPeer(by, m) PROVE Fine
  <2>1. [kind |-> "delete_to_host", m |-> m, by |-> by].kind # "gone"
    OBVIOUS
  <2>2. QED
    BY <1>1, <1>5, <2>1 DEF DeleteAtPeer
<1>6. ASSUME NEW by, NEW m, HostDeletes(by, m) PROVE Fine
  <2>1. [kind |-> "delete_deliver", m |-> m, by |-> by,
         list |-> members \cap Remote].kind # "gone"
    OBVIOUS
  <2>2. QED
    BY <1>1, <1>6, <2>1 DEF HostDeletes
<1>7. ASSUME NEW u, Add(u) \/ Remove(u) \/ Join(u) \/ Pull(u) PROVE Fine
  BY <1>2, <1>7 DEF Add, Remove, Join, Pull, ApplySnapshot, outbox
<1>8. ASSUME NEW u, NEW m, Age(m) \/ Ack(u, m) \/ DeleteAtHost(u, m) PROVE Fine
  BY <1>6, <1>8 DEF Age, Ack, DeleteAtHost, outbox
<1>9. ASSUME NEW x \in rows, \/ Deliver(x) \/ DeleteToHost(x) \/ DeleteDeliver(x)
                             \/ GroupGone(x) \/ SnapshotPush(x) \/ Settle(x)
      PROVE  Fine
  BY <1>6, <1>9 DEF Deliver, DeleteToHost, DeleteDeliver, GroupGone, SnapshotPush,
                    ApplySnapshot, Settle, outbox
<1>10. ASSUME UNCHANGED vars \/ DeleteGroupTorn \/ Tick PROVE Fine
  BY <1>10 DEF vars, DeleteGroupTorn, Tick, outbox
<1> HIDE DEF Fine
<1>11. Fine
  <2>1. ASSUME NEW m, SendAtHost(m) PROVE Fine
    BY <1>3, <2>1 DEF SendAtHost
  <2>2. ASSUME NEW x \in rows, ToHost(x) PROVE Fine
    BY <1>3, <2>2 DEF ToHost
  <2>3. ASSUME NEW x \in rows, Handle(x) \/ Settle(x) PROVE Fine
    BY <1>9, <2>2, <2>3 DEF Handle
  <2>4. ASSUME NEW u, NEW m, Ack(u, m) \/ DeleteAtHost(u, m) \/ DeleteAtPeer(u, m)
        PROVE  Fine
    BY <1>5, <1>8, <2>4
  <2>5. ASSUME NEW m, SendAtHost(m) \/ SendAtPeer(m) \/ Age(m) PROVE Fine
    BY <1>4, <1>8, <2>1, <2>5
  <2>6. QED
    BY <1>7, <1>10, <2>3, <2>4, <2>5 DEF Next
<1>12. QED
  BY <1>11 DEF Fine

(* The key of the event's claim changes when the peer handles it, or as     *)
(* time passes.                                                             *)
LEMMA LeftMoves ==
    ASSUME TypeInv, [Next]_vars, ~ \E r \in rows : GroupGone(r),
           ~ \E signed \in BOOLEAN : DeleteGroup(signed)
    PROVE  \/ stamp' = stamp /\ Left' = Left
           \/ /\ stamp' = IF stamp > ControlWindow THEN stamp ELSE stamp + 1
              /\ Left' = IF Left = 0 THEN 0 ELSE Left - 1
<1>a. claims \in [{"host", "peer"} -> [Signed -> Nat]] /\ Gone \in Signed
  BY DEF TypeInv, TypeOK, Signed
<1>1. ASSUME NEW relay \in {"host", "peer"}, NEW s, relay = "host" \/ s # Gone,
             claims' = Seize(relay, s)
      PROVE  Left' = Left
  BY <1>a, <1>1 DEF Seize, Left
<1>2. ASSUME NEW m, NEW by PROVE Deletion(m, by) # Gone
  BY DEF Deletion, Gone
<1>3. ASSUME NEW r, DeleteToHost(r) PROVE stamp' = stamp /\ Left' = Left
  <2>1. claims' = claims \/ claims' = Seize("host", Deletion(r.m, r.by))
    BY <1>3 DEF DeleteToHost, Claim
  <2>2. QED
    BY <1>1, <1>3, <2>1 DEF DeleteToHost, Left
<1>4. ASSUME NEW r, DeleteDeliver(r) PROVE stamp' = stamp /\ Left' = Left
  <2>1. claims' = claims \/ claims' = Seize("peer", Deletion(r.m, r.by))
    BY <1>4 DEF DeleteDeliver, Claim
  <2>2. QED
    BY <1>1, <1>2, <1>4, <2>1 DEF DeleteDeliver, Left
<1>5. CASE Tick
  BY <1>5, <1>a DEF Tick, Left
<1>6. \/ UNCHANGED <<stamp, claims>> \/ Tick
      \/ \E r : DeleteToHost(r) \/ DeleteDeliver(r)
  BY DEF Next, Add, Remove, Join, Change, Pull, ApplySnapshot, DeleteGroupTorn,
         SendAtHost, HostTakes, Acknowledge, FanOut, FanOutTorn, SendAtPeer, Age, Ack,
         DeleteAtHost, DeleteAtPeer, Handle, ToHost, Deliver, SnapshotPush, Settle,
         vars, guard
<1>7. QED
  BY <1>3, <1>4, <1>5, <1>6 DEF Left

(* The step of the induction for one remote member, in numbers: g is how    *)
(* often the member was told, f the faults, a the stamp and l the key.      *)
LEMMA SpacedClaim ==
    ASSUME NEW g \in Nat, NEW f \in Nat, NEW a \in Int, NEW l \in Nat, NEW w \in Nat \ {0},
           NEW h \in BOOLEAN, NEW g2 \in Nat, NEW f2 \in Nat, NEW l2 \in Nat,
           g <= f + 3, ~h => g <= f + 1, a >= - w, a <= w,
           g >= f + 1 => a + l >= 0,
           g >= f + 2 => a + l >= w,
           g >= f + 3 => a + l >= 2 * w,
           g >= f + 1 /\ ~h => a + l > w,
           \/ g2 = g /\ f2 = f /\ l2 = l /\ l # 0
           \/ g2 <= g + 1 /\ f2 = f /\ l = 0 /\ l2 = w
           \/ g2 <= g + 1 /\ f2 = f + 1 /\ l2 >= l
    PROVE  /\ g2 <= f2 + 3
           /\ ~(h \/ a <= 0) => g2 <= f2 + 1
           /\ g2 >= f2 + 1 => a + l2 >= 0
           /\ g2 >= f2 + 2 => a + l2 >= w
           /\ g2 >= f2 + 3 => a + l2 >= 2 * w
           /\ g2 >= f2 + 1 /\ ~(h \/ a <= 0) => a + l2 > w
<1>1. CASE g2 = g /\ f2 = f /\ l2 = l /\ l # 0
  BY <1>1, Z3
<1>2. CASE g2 <= g + 1 /\ f2 = f /\ l = 0 /\ l2 = w
  BY <1>2, Z3
<1>3. CASE g2 <= g + 1 /\ f2 = f + 1 /\ l2 >= l
  BY <1>3, Z3
<1>4. QED
  BY <1>1, <1>2, <1>3

(* A step that tells nobody keeps the bounds.                               *)
LEMMA GoneKept ==
    ASSUME TypeInv, GoneInv, Keeps
    PROVE  GoneInv'
<1>a. /\ gone \in [Users -> Nat] /\ faults \in Nat /\ faults' \in Nat /\ ahead \in BOOLEAN
      /\ stamp \in - ControlWindow .. ControlWindow + 1 /\ Left \in Nat
      /\ Local \subseteq Users /\ Remote \subseteq Users
  BY DEF TypeInv, TypeOK, Keeps, Left, Signed, Users
<1>1. LocalInv'
  BY <1>a DEF Keeps, GoneInv, LocalInv
<1>2. LiveInv'
  BY <1>a DEF Keeps, GoneInv, LiveInv
<1>3. ASSUME NEW u \in Remote
      PROVE  /\ gone'[u] <= faults' + 3
             /\ ~ahead' => gone'[u] <= faults' + 1
             /\ Spaced(u)'
  <2>1. /\ gone[u] \in Nat /\ gone[u] <= faults + 3 /\ Spaced(u)
        /\ ~ahead => gone[u] <= faults + 1
    BY <1>a DEF GoneInv, RemoteInv
  <2>2. /\ gone'[u] = gone[u] /\ ahead' = ahead
        /\ faults' = faults \/ faults' = faults + 1
        /\ \/ stamp' = stamp /\ Left' = Left
           \/ /\ stamp' = IF stamp > ControlWindow THEN stamp ELSE stamp + 1
              /\ Left' = IF Left = 0 THEN 0 ELSE Left - 1
    BY DEF Keeps
  <2> HIDE DEF Left
  <2>3. Spaced(u)'
    BY <1>a, <2>1, <2>2, ReplicaNumbers DEF Spaced, Told
  <2>4. QED
    BY <1>a, <2>1, <2>2, <2>3
<1>4. QED
  BY <1>1, <1>2, <1>3 DEF GoneInv, RemoteInv

(* The host tells its own members while the group lives.                    *)
LEMMA GoneOnHost ==
    ASSUME TypeInv, GoneInv, DeleteGroupTorn \/ \E signed \in BOOLEAN : DeleteGroup(signed)
    PROVE  GoneInv'
<1>a. /\ gone \in [Users -> Nat] /\ faults \in Nat /\ ahead \in BOOLEAN
      /\ Local \subseteq Users /\ Remote \subseteq Users /\ Local \cap Remote = {}
  BY ReplicaSets DEF TypeInv, TypeOK, Users
<1>b. live /\ \A u \in Local : gone[u] <= faults
  BY <1>a DEF DeleteGroupTorn, DeleteGroup, Farewell, GoneInv, LocalInv
<1>c. \A u \in Remote : gone[u] = 0
  BY <1>b DEF GoneInv, LiveInv
<1>1. /\ \A u \in Remote : gone'[u] = 0
      /\ \A u \in Local : gone'[u] \in Nat /\ gone'[u] <= faults + 1
      /\ faults' \in Nat
      /\ \/ ~live' /\ faults' = faults
         \/ live' /\ faults' = faults + 1 /\ rows' = rows
  <2>1. Announce((members \cap Local) \ {Creator})
    BY DEF DeleteGroupTorn, DeleteGroup, Farewell
  <2>2. \A u \in Users : gone'[u] = IF u \in (members \cap Local) \ {Creator}
                                    THEN gone[u] + 1 ELSE gone[u]
    BY <2>1 DEF Announce
  <2>3. \A u \in Remote : gone'[u] = 0
    BY <1>a, <1>c, <2>2
  <2>4. \A u \in Local : gone'[u] \in Nat /\ gone'[u] <= faults + 1
    BY <1>a, <1>b, <2>2
  <2>5. \/ ~live' /\ faults' = faults
        \/ live' /\ faults' = faults + 1 /\ rows' = rows
    BY <1>b DEF DeleteGroupTorn, DeleteGroup, host, outbox, bounds
  <2>6. QED
    BY <1>a, <2>3, <2>4, <2>5
<1>2. LocalInv'
  BY <1>1 DEF LocalInv
<1>3. LiveInv'
  BY <1>1, <1>b DEF GoneInv, LiveInv
<1>4. RemoteInv'
  BY <1>1 DEF RemoteInv, Spaced, Told
<1>5. QED
  BY <1>2, <1>3, <1>4 DEF GoneInv

(* The peer tells its members when the claim succeeds.                      *)
LEMMA GoneOnPeer ==
    ASSUME TypeInv, GoneInv, NEW r \in rows, GroupGone(r)
    PROVE  GoneInv'
<1>a. /\ gone \in [Users -> Nat] /\ faults \in Nat /\ ahead \in BOOLEAN
      /\ stamp \in Int /\ - ControlWindow <= stamp /\ stamp <= ControlWindow
      /\ claims \in [{"host", "peer"} -> [Signed -> Nat]] /\ Left \in Nat
      /\ Local \subseteq Users /\ Remote \subseteq Users /\ Local \cap Remote = {}
      /\ Gone \in Signed
  BY ReplicaSets, ReplicaNumbers
     DEF TypeInv, TypeOK, Users, GroupGone, Verified, Left, Signed
<1>b. ~live /\ r.kind = "gone" /\ r.list \subseteq Remote
  BY RowFields DEF GoneInv, LiveInv, GroupGone, TypeInv, TypeOK
<1>c. live' = live /\ rows' = rows /\ stamp' = stamp /\ ahead' = (ahead \/ stamp <= 0)
  BY DEF GroupGone, host, outbox
<1>1. PICK fresh \in BOOLEAN :
        /\ Claim("peer", Gone, fresh)
        /\ Announce(IF fresh /\ known THEN r.list \cap shadow ELSE {})
  BY DEF GroupGone
<1>2. \A u \in Users : gone'[u] = IF u \in (IF fresh /\ known THEN r.list \cap shadow ELSE {})
                                  THEN gone[u] + 1 ELSE gone[u]
  BY <1>1 DEF Announce
<1>3. /\ faults' \in Nat /\ Left' \in Nat
      /\ \/ ~fresh /\ faults' = faults /\ Left' = Left /\ Left # 0
         \/ fresh /\ faults' = faults /\ Left = 0 /\ Left' = ControlWindow
         \/ fresh /\ faults' = faults + 1 /\ Left' >= Left
  <2>1. Window(Gone) = ControlWindow /\ ControlWindow \in Nat
    BY ReplicaNumbers DEF Window
  <2>2. Seize("peer", Gone)["peer"][Gone] = IF Left = 0 THEN ControlWindow ELSE Left
    BY <1>a, <2>1 DEF Seize, Left
  <2>3. \/ /\ fresh = (Left = 0) /\ faults' = faults
           /\ Left' = IF Left = 0 THEN ControlWindow ELSE Left
        \/ /\ fresh /\ faults' = faults + 1
           /\ Left' = Left \/ Left' = IF Left = 0 THEN ControlWindow ELSE Left
    BY <1>1, <2>2 DEF Claim, Left
  <2> HIDE DEF Left
  <2>4. QED
    BY <1>a, <2>1, <2>3
<1>4. LocalInv'
  <2>1. \A u \in Local : gone'[u] = gone[u]
    BY <1>a, <1>b, <1>2
  <2>2. QED
    BY <1>a, <1>b, <1>c, <1>3, <2>1 DEF GoneInv, LocalInv
<1>5. LiveInv'
  BY <1>b, <1>c DEF LiveInv
<1>6. ASSUME NEW u \in Remote
      PROVE  /\ gone'[u] <= faults' + 3
             /\ ~ahead' => gone'[u] <= faults' + 1
             /\ Spaced(u)'
  <2>1. /\ gone[u] \in Nat /\ gone[u] <= faults + 3 /\ Spaced(u)
        /\ ~ahead => gone[u] <= faults + 1
    BY <1>a DEF GoneInv, RemoteInv
  <2>2. /\ Told(u, 1) => stamp + Left >= 0
        /\ Told(u, 2) => stamp + Left >= ControlWindow
        /\ Told(u, 3) => stamp + Left >= 2 * ControlWindow
        /\ Told(u, 1) /\ ~ahead => stamp + Left > ControlWindow
    BY <1>a, <2>1, ReplicaNumbers DEF Spaced
  <2>3. gone'[u] \in Nat /\ gone'[u] <= gone[u] + 1 /\ (~fresh => gone'[u] = gone[u])
    BY <1>a, <1>2, <2>1
  <2>4. \/ gone'[u] = gone[u] /\ faults' = faults /\ Left' = Left /\ Left # 0
        \/ gone'[u] <= gone[u] + 1 /\ faults' = faults /\ Left = 0 /\ Left' = ControlWindow
        \/ gone'[u] <= gone[u] + 1 /\ faults' = faults + 1 /\ Left' >= Left
    BY <1>3, <2>3
  <2> DEFINE g2 == gone'[u]
             f2 == faults'
             l2 == Left'
  <2>5. /\ g2 <= f2 + 3
        /\ ~(ahead \/ stamp <= 0) => g2 <= f2 + 1
        /\ g2 >= f2 + 1 => stamp + l2 >= 0
        /\ g2 >= f2 + 2 => stamp + l2 >= ControlWindow
        /\ g2 >= f2 + 3 => stamp + l2 >= 2 * ControlWindow
        /\ g2 >= f2 + 1 /\ ~(ahead \/ stamp <= 0) => stamp + l2 > ControlWindow
    <3>1. g2 \in Nat /\ f2 \in Nat /\ l2 \in Nat /\ ControlWindow \in Nat \ {0}
      BY <1>3, <2>3, ReplicaNumbers
    <3>2. \/ g2 = gone[u] /\ f2 = faults /\ l2 = Left /\ Left # 0
          \/ g2 <= gone[u] + 1 /\ f2 = faults /\ Left = 0 /\ l2 = ControlWindow
          \/ g2 <= gone[u] + 1 /\ f2 = faults + 1 /\ l2 >= Left
      BY <2>4
    <3> HIDE DEF g2, f2, l2, Left
    <3>3. QED
      BY <1>a, <2>1, <2>2, <3>1, <3>2, SpacedClaim DEF Told
  <2>6. QED
    BY <1>c, <2>5 DEF Spaced, Told
<1>7. QED
  BY <1>4, <1>5, <1>6 DEF GoneInv, RemoteInv

(* Every step keeps the count of announcements of the end.                  *)
LEMMA GoneStep == TypeInv /\ GoneInv /\ [Next]_vars => GoneInv'
<1> SUFFICES ASSUME TypeInv, GoneInv, [Next]_vars PROVE GoneInv'
  OBVIOUS
<1>1. CASE DeleteGroupTorn \/ \E signed \in BOOLEAN : DeleteGroup(signed)
  BY <1>1, GoneOnHost
<1>2. CASE \E r \in rows : GroupGone(r)
  BY <1>2, GoneOnPeer
<1>3. CASE /\ ~(DeleteGroupTorn \/ \E signed \in BOOLEAN : DeleteGroup(signed))
           /\ ~(\E r \in rows : GroupGone(r))
  <2>1. /\ gone' = gone /\ live' = live /\ ahead' = ahead
        /\ faults' = faults \/ faults' = faults + 1
    BY <1>3 DEF Next, Add, Remove, Join, Change, Pull, ApplySnapshot, Tick,
           SendAtHost, HostTakes, Acknowledge, FanOut, FanOutTorn, SendAtPeer, Age, Ack,
           DeleteAtHost, DeleteAtPeer, Handle, ToHost, Deliver, DeleteToHost,
           DeleteDeliver, SnapshotPush, Settle, Claim, vars, host, history, bounds
  <2>2. \A r \in rows' \ rows : r.kind # "gone"
    BY <1>3, GoneRows
  <2>3. \/ stamp' = stamp /\ Left' = Left
        \/ /\ stamp' = IF stamp > ControlWindow THEN stamp ELSE stamp + 1
           /\ Left' = IF Left = 0 THEN 0 ELSE Left - 1
    BY <1>3, LeftMoves
  <2>4. QED
    BY <2>1, <2>2, <2>3, GoneKept DEF Keeps
<1>4. QED
  BY <1>1, <1>2, <1>3

(* A member is told once that the group is gone, however often the row is   *)
(* forwarded, and once more per failed commit or failure of the replay      *)
(* guard; a member on the peer up to three times when the event was claimed *)
(* before its ts had passed, because the key lives a window from the claim. *)
THEOREM GoneIsToldOnceHolds == Spec => []GoneIsToldOnce
<1>1. Init => GoneInv
  BY ReplicaSets, ReplicaNumbers
     DEF Init, GoneInv, LocalInv, LiveInv, RemoteInv, Spaced, Told, Left, Users
<1>2. TypeInv /\ GoneInv => GoneIsToldOnce
  <2> SUFFICES ASSUME TypeInv, GoneInv, NEW u \in Users
               PROVE  gone[u] <= (IF u \in Remote /\ ahead THEN 3 ELSE 1) + faults
    BY DEF GoneIsToldOnce
  <2>1. gone[u] \in Nat /\ faults \in Nat /\ ahead \in BOOLEAN
    BY DEF TypeInv, TypeOK
  <2>2. CASE u \in Local
    BY <2>1, <2>2, ReplicaSets DEF GoneInv, LocalInv
  <2>3. CASE u \in Remote
    BY <2>1, <2>3 DEF GoneInv, RemoteInv
  <2>4. QED
    BY <2>2, <2>3 DEF Users
<1>3. QED
  BY <1>1, <1>2, GoneStep, TypeInvHolds, PTL DEF Spec
=============================================================================
