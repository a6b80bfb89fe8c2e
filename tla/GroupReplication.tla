------------------------- MODULE GroupReplication -------------------------
(***************************************************************************)
(* One group on its host relay and its shadow on a peer relay: snapshots    *)
(* pushed and pulled, group messages that travel to the host and are fanned *)
(* out from it, their deletion, and the end of the group (api/groups.py and *)
(* the group handlers of api/federation.py).                                *)
(*                                                                          *)
(* What one relay has for the other is a row of its federation outbox.  The *)
(* outbox delivers rows in any order and more than once, and may give one   *)
(* up (module FederationOutbox); here a row is pending until it is settled. *)
(* Handlers are single steps; one that is cut between Redis and the commit  *)
(* is a step of its own.  Two requests that overlap on the host, say two    *)
(* deletions of the group, are not looked at.                               *)
(***************************************************************************)
EXTENDS Integers, Sequences, FiniteSets

CONSTANTS
    Local, Remote,  \* users of the host relay and of the peer relay
    Creator,        \* creator and only admin, a user of the host
    Msgs,           \* group messages
    Senders,        \* the users who send them
    ControlWindow,  \* CONTROL_SIG_WINDOW_SECONDS
    DeleteWindow,   \* DELETE_SIG_WINDOW_SECONDS
    MaxChanges,     \* bound: changes of membership on the host
    MaxDeletes,     \* bound: deletions of messages asked for by users
    MaxFaults       \* bound: failed commits and unavailable replay guards

Users == Local \cup Remote

ASSUME ReplicaSets ==
    /\ IsFiniteSet(Users) /\ Local \cap Remote = {} /\ Creator \in Local
    /\ Senders \subseteq Users
ASSUME ReplicaNumbers ==
    /\ ControlWindow \in Nat \ {0} /\ DeleteWindow \in Nat \ {0}
    /\ MaxChanges \in Nat /\ MaxDeletes \in Nat /\ MaxFaults \in Nat

VARIABLES
    members,    \* group_members on the host
    live,       \* the group is not deleted on the host
    shadow,     \* group_members on the peer, for the mirrored group
    known,      \* the peer has a row for the group
    rows,       \* outbox rows of both relays that are not settled
    ids,        \* (synthetic) envelope ids of rows ever queued
    from,       \* from[m]: the sender of m, who signed it
    got,        \* got[m]: users with m in their inbox
    meta,       \* meta[relay]: messages whose metadata key exists there
    old,        \* messages whose ts is more than 300 s ago
    stamp,      \* now - ts of the signed end of the group; below 0 is ahead
    claims,     \* claims[relay][s]: seconds left of the morok:fed_seen key
    changes, deletes, faults,
    past,       \* history: past[n], the membership after the n-th change
    best,       \* history: the newest membership the peer has applied
    fan,        \* history: fan[m], members when the host fanned m out
    ever,       \* history: ever[m], users who got m
    accepted,   \* history: messages the host acknowledged
    torn,       \* history: messages whose fan-out was not committed
    removedBy,  \* history: removedBy[m], who had m deleted
    gone,       \* history: gone[u], group_gone events published for u
    ahead       \* history: group_gone was claimed before its ts had passed

host    == <<members, live>>
peer    == <<shadow, known>>
outbox  == <<rows, ids>>
queue   == <<got, meta>>
guard   == <<stamp, claims>>
bounds  == <<changes, deletes, faults>>
history == <<fan, ever, accepted, torn, removedBy, gone, ahead>>
vars == <<host, peer, outbox, queue, from, old, guard, bounds, past, best,
          history>>

----------------------------------------------------------------------------
RowType ==
    [kind : {"snapshot"}, n : 1 .. MaxChanges, list : SUBSET Users]
      \cup [kind : {"deliver"}, m : Msgs, list : SUBSET Users]
      \cup [kind : {"to_host"}, m : Msgs]
      \cup [kind : {"delete_to_host"}, m : Msgs, by : Users]
      \cup [kind : {"delete_deliver"}, m : Msgs, by : Users, list : SUBSET Users]
      \cup [kind : {"gone"}, list : SUBSET Remote]
NoOne == [m \in Msgs |-> {}]

(* What users sign and a replay guard remembers: the end of the group, and  *)
(* the deletion of a message.                                               *)
Gone            == <<"gone">>
Deletion(m, by) == <<"delete", m, by>>
Signed    == {Gone} \cup {Deletion(m, by) : m \in Msgs, by \in Users}
Window(s) == IF s = Gone THEN ControlWindow ELSE DeleteWindow

(* _verify_delete_sig: a ts counts within the window on either side of the  *)
(* clock.  It is followed for the end of the group; that of a deletion is   *)
(* not, so that a deletion may be taken as long as its row is there.        *)
Verified == stamp \in - ControlWindow .. ControlWindow

Others(m, us) == us \ {from[m]}

(* A row is queued unless one with its id was: SELECT, then INSERT.         *)
PushPlainId(id, row) ==                 \* faulty variant: no _synthetic_queue_id
    LET kinds == {"deliver", "delete_deliver"}
        dup   == id[1] \in kinds /\ \E i \in ids : i[1] \in kinds /\ i[2] = id[2]
    IN  /\ rows' = IF dup THEN rows ELSE rows \cup {row}
        /\ ids' = IF dup THEN ids ELSE ids \cup {id}
Push(id, row) ==
    /\ rows' = IF id \in ids THEN rows ELSE rows \cup {row}
    /\ ids' = ids \cup {id}
PushTo(us, id, row) == IF us = {} THEN UNCHANGED outbox ELSE Push(id, row)

Init ==
    /\ members = {Creator} /\ live = TRUE
    /\ shadow = {} /\ known = FALSE
    /\ rows = {} /\ ids = {}
    /\ from \in [Msgs -> Senders]
    /\ got = NoOne /\ meta = [r \in {"host", "peer"} |-> {}]
    /\ old = {}
    /\ stamp = ControlWindow + 1
    /\ claims = [r \in {"host", "peer"} |-> [s \in Signed |-> 0]]
    /\ changes = 0 /\ deletes = 0 /\ faults = 0
    /\ past = <<>> /\ best = 0
    /\ fan = NoOne /\ ever = NoOne /\ accepted = {} /\ torn = {}
    /\ removedBy = NoOne /\ gone = [u \in Users |-> 0] /\ ahead = FALSE

----------------------------------------------------------------------------
(* Membership on the host (its own races are in GroupMembership).           *)

(* enqueue_snapshot_to_relays: each snapshot is a row of its own.           *)
Change(new, relays) ==
    /\ live /\ changes < MaxChanges /\ changes' = changes + 1
    /\ members' = new /\ past' = Append(past, new)
    /\ PushTo(relays, <<"snapshot", changes + 1>>,
              [kind |-> "snapshot", n |-> changes + 1, list |-> new])
    /\ UNCHANGED <<live, peer, queue, from, old, guard, deletes, faults, best,
                   history>>

(* add_member: the peers of the new membership get a snapshot.              *)
Add(u) == u \in Users \ members /\ Change(members \cup {u},
                                          (members \cup {u}) \cap Remote)

(* remove_member: the peers of the membership before.                       *)
Remove(u) == u \in members \ {Creator} /\ Change(members \ {u}, members \cap Remote)

(* join_via_token: no peer is told.                                         *)
Join(u) == u \in Local \ members /\ Change(members \cup {u}, {})

(* publish_group_gone.                                                      *)
Announce(us) ==
    gone' = [u \in Users |-> IF u \in us THEN gone[u] + 1 ELSE gone[u]]

(* delete_group: the local members are told before the commit; with the     *)
(* creator's signature, whose ts is not looked at, the peer is told, once.  *)
Farewell == live /\ Announce((members \cap Local) \ {Creator})

DeleteGroup(signed) ==
    /\ Farewell /\ live' = FALSE
    /\ PushTo(IF signed THEN members \cap Remote ELSE {}, <<"gone">>,
              [kind |-> "gone", list |-> members \cap Remote])
    /\ stamp' \in IF signed THEN - ControlWindow .. ControlWindow + 1 ELSE {stamp}
    /\ UNCHANGED <<members, peer, queue, from, old, claims, bounds, past, best,
                   fan, ever, accepted, torn, removedBy, ahead>>

DeleteGroupTorn ==
    /\ faults < MaxFaults /\ faults' = faults + 1
    /\ Farewell
    /\ UNCHANGED <<host, peer, outbox, queue, from, old, guard, changes,
                   deletes, past, best, fan, ever, accepted, torn, removedBy,
                   ahead>>

----------------------------------------------------------------------------
(* The shadow: apply_group_snapshot.                                        *)

(* Members that the snapshot does not list go, missing ones are added; when *)
(* the snapshot was taken is not looked at.                                 *)
ReconciledMissing(list) == list \ shadow  \* faulty variant: rows kept are lost
Reconciled(list) == (shadow \ (shadow \ list)) \cup (list \ shadow)

ApplySnapshot(n, list) ==
    /\ shadow' = Reconciled(list) /\ known' = TRUE
    /\ best' = IF n > best THEN n ELSE best
    /\ UNCHANGED <<host, outbox, queue, from, old, guard, bounds, past,
                   history>>

(* _handle_group_snapshot_push.                                             *)
SnapshotPush(r) == r.kind = "snapshot" /\ ApplySnapshot(r.n, r.list)

(* sync_group_from_host: a user of the peer asks; the host answers for a    *)
(* member (pull_group_snapshot).                                            *)
Pull(u) == live /\ u \in members \cap Remote /\ ApplySnapshot(changes, members)

----------------------------------------------------------------------------
(* Group messages.                                                          *)

(* do_group_fanout: local members in Redis, then a row for the peer.        *)
FanOutRedis(m) ==
    /\ LET here == Others(m, members) \cap Local
       IN  /\ got' = [got EXCEPT ![m] = @ \cup here]
           /\ ever' = [ever EXCEPT ![m] = @ \cup here]
           /\ meta' = IF here = {} THEN meta
                      ELSE [meta EXCEPT !["host"] = @ \cup {m}]
    /\ fan' = [fan EXCEPT ![m] = @ \cup members]

RemoteOf(m) == Others(m, members) \cap Remote

FanOut(m) ==
    /\ FanOutRedis(m)
    /\ PushTo(RemoteOf(m), <<"deliver", m>>,
              [kind |-> "deliver", m |-> m, list |-> RemoteOf(m)])
    /\ accepted' = accepted \cup {m}
    /\ UNCHANGED <<host, peer, from, old, guard, bounds, past, best, torn,
                   removedBy, gone, ahead>>

(* The commit fails after Redis has the message: 500.                       *)
FanOutTorn(m) ==
    /\ faults < MaxFaults /\ faults' = faults + 1
    /\ FanOutRedis(m)
    /\ torn' = torn \cup {m}
    /\ UNCHANGED <<host, peer, outbox, from, old, guard, changes, deletes,
                   past, best, accepted, removedBy, gone, ahead>>

(* What both ways to the host check; a message still known is a duplicate   *)
(* and only acknowledged.                                                   *)
MaySpeakAny(m) == live                  \* faulty variant: any forwarded sender
MaySpeak(m) == live /\ from[m] \in members

Acknowledge(m) ==
    /\ m \in meta["host"] \ accepted
    /\ accepted' = accepted \cup {m}
    /\ UNCHANGED <<host, peer, outbox, queue, from, old, guard, bounds, past,
                   best, fan, ever, torn, removedBy, gone, ahead>>

HostTakes(m) ==
    /\ m \notin old /\ MaySpeak(m)
    /\ \/ Acknowledge(m)
       \/ m \notin meta["host"] /\ (FanOut(m) \/ FanOutTorn(m))

(* send_group_message on the host, until it is answered.                    *)
SendAtHost(m) == from[m] \in Local /\ m \notin accepted /\ HostTakes(m)

(* send_group_message on the peer, whose shadow must list the sender.       *)
SendAtPeer(m) ==
    /\ from[m] \in Remote \cap shadow /\ known
    /\ m \notin old \cup meta["peer"]
    /\ <<"to_host", m>> \notin ids
    /\ Push(<<"to_host", m>>, [kind |-> "to_host", m |-> m])
    /\ UNCHANGED <<host, peer, queue, from, old, guard, bounds, past, best,
                   history>>

(* _handle_group_forward, mode to_host.                                     *)
ToHost(r) == r.kind = "to_host" /\ HostTakes(r.m)

(* _handle_group_forward, mode deliver: the sender and the receivers must   *)
(* be in the shadow.                                                        *)
Receivers(r) == r.list \cap Remote \cap shadow
Deliver(r) ==
    /\ r.kind = "deliver" /\ r.m \notin old \cup meta["peer"]
    /\ known /\ from[r.m] \in shadow /\ Receivers(r) # {}
    /\ got' = [got EXCEPT ![r.m] = @ \cup Receivers(r)]
    /\ ever' = [ever EXCEPT ![r.m] = @ \cup Receivers(r)]
    /\ meta' = [meta EXCEPT !["peer"] = @ \cup {r.m}]
    /\ UNCHANGED <<host, peer, outbox, from, old, guard, bounds, past, best,
                   fan, accepted, torn, removedBy, gone, ahead>>

(* A recipient acknowledges; the last one on a relay ends the message there. *)
Ack(u, m) ==
    /\ u \in got[m]
    /\ got' = [got EXCEPT ![m] = @ \ {u}]
    /\ LET relay == IF u \in Local THEN "host" ELSE "peer"
           home  == IF u \in Local THEN Local ELSE Remote
       IN  meta' = IF got[m] \cap home = {u}
                   THEN [meta EXCEPT ![relay] = @ \ {m}] ELSE meta
    /\ UNCHANGED <<host, peer, outbox, from, old, guard, bounds, past, best,
                   history>>

Age(m) ==
    /\ m \notin old /\ old' = old \cup {m}
    /\ UNCHANGED <<host, peer, outbox, queue, from, guard, bounds, past, best,
                   history>>

----------------------------------------------------------------------------
(* Deleting a message.                                                      *)

(* _claim_federated_event: SET NX with the window as its lifetime, counted  *)
(* from now and not from ts; fail-open, whether or not the key was written. *)
(* fresh is what it answers.                                                *)
Seize(relay, s) == [claims EXCEPT ![relay][s] = IF @ = 0 THEN Window(s) ELSE @]
ClaimAlways(relay, s, fresh) ==         \* faulty variant: no replay guard
    fresh = TRUE /\ UNCHANGED <<claims, faults>>
Claim(relay, s, fresh) ==
    \/ /\ fresh = (claims[relay][s] = 0)
       /\ claims' = Seize(relay, s) /\ UNCHANGED faults
    \/ /\ fresh = TRUE /\ faults < MaxFaults
       /\ faults' = faults + 1 /\ claims' \in {claims, Seize(relay, s)}

(* delete_envelope_for_group for the given users of one relay.              *)
Erase(relay, m, us, by) ==
    /\ got' = [got EXCEPT ![m] = @ \ us]
    /\ meta' = [meta EXCEPT ![relay] = @ \ {m}]
    /\ removedBy' = [removedBy EXCEPT ![m] = @ \cup {by}]
Spare == UNCHANGED <<queue, removedBy>>

(* The sender while the metadata is there to prove it, or the admin.        *)
MayDeleteMember(by, m) == by \in members  \* faulty variant: any member
MayDelete(by, m) ==
    by \in members /\ (by = Creator \/ (by = from[m] /\ m \in meta["host"]))

HostDeletes(by, m) ==
    /\ Erase("host", m, members \cap Local, by)
    /\ PushTo(members \cap Remote, <<"delete_deliver", m>>,
              [kind |-> "delete_deliver", m |-> m, by |-> by,
               list |-> members \cap Remote])

(* delete_group_message on the host.                                        *)
DeleteAtHost(by, m) ==
    /\ deletes < MaxDeletes /\ deletes' = deletes + 1
    /\ by \in Local /\ live /\ MayDelete(by, m)
    /\ HostDeletes(by, m)
    /\ UNCHANGED <<host, peer, from, old, guard, changes, faults, past, best,
                   fan, ever, accepted, torn, gone, ahead>>

(* delete_group_message on the peer: handed to the host.                    *)
DeleteAtPeer(by, m) ==
    /\ deletes < MaxDeletes /\ deletes' = deletes + 1
    /\ by \in Remote \cap shadow /\ known
    /\ Push(<<"delete_to_host", m>>,
            [kind |-> "delete_to_host", m |-> m, by |-> by])
    /\ UNCHANGED <<host, peer, queue, from, old, guard, changes, faults, past,
                   best, history>>

(* _handle_group_delete_to_host: the claim comes before the authorisation,  *)
(* and stays when that fails.                                               *)
DeleteToHost(r) ==
    /\ r.kind = "delete_to_host"
    /\ \E fresh \in BOOLEAN :
         /\ Claim("host", Deletion(r.m, r.by), fresh)
         /\ IF fresh /\ live /\ MayDelete(r.by, r.m)
            THEN HostDeletes(r.by, r.m) ELSE Spare /\ UNCHANGED outbox
    /\ UNCHANGED <<host, peer, from, old, stamp, changes, deletes, past, best,
                   fan, ever, accepted, torn, gone, ahead>>

(* _handle_group_delete_deliver: the peer decides again, from its own data. *)
PeerAllows(by, m) == by = from[m] \/ (known /\ by = Creator)
DeleteDeliver(r) ==
    /\ r.kind = "delete_deliver"
    /\ \E fresh \in BOOLEAN :
         /\ Claim("peer", Deletion(r.m, r.by), fresh)
         /\ IF fresh /\ r.m \in meta["peer"] /\ PeerAllows(r.by, r.m)
               /\ r.list \cap Remote # {}
            THEN Erase("peer", r.m, r.list \cap Remote, r.by) ELSE Spare
    /\ UNCHANGED <<host, peer, outbox, from, old, stamp, changes, deletes,
                   past, best, fan, ever, accepted, torn, gone, ahead>>

(* _handle_group_gone: the members are told; the shadow row stays.          *)
GroupGone(r) ==
    /\ r.kind = "gone" /\ Verified
    /\ \E fresh \in BOOLEAN :
         /\ Claim("peer", Gone, fresh)
         /\ Announce(IF fresh /\ known THEN r.list \cap shadow ELSE {})
    /\ ahead' = (ahead \/ stamp <= 0)
    /\ UNCHANGED <<host, peer, outbox, queue, from, old, stamp, changes,
                   deletes, past, best, fan, ever, accepted, torn, removedBy>>

(* Time passes for the signature and the keys of the replay guard.          *)
Tick ==
    /\ stamp' = IF stamp > ControlWindow THEN stamp ELSE stamp + 1
    /\ claims' = [r \in {"host", "peer"} |-> [s \in Signed |->
                    IF claims[r][s] = 0 THEN 0 ELSE claims[r][s] - 1]]
    /\ UNCHANGED <<host, peer, outbox, queue, from, old, bounds, past, best,
                   history>>

(* The outbox is done with a row: delivered, or a dead letter.              *)
Settle(r) ==
    /\ r \in rows /\ rows' = rows \ {r}
    /\ UNCHANGED <<host, peer, ids, queue, from, old, guard, bounds, past,
                   best, history>>

----------------------------------------------------------------------------
Handle(r) == ToHost(r) \/ Deliver(r) \/ DeleteToHost(r) \/ DeleteDeliver(r)
             \/ GroupGone(r) \/ SnapshotPush(r)

Next ==
    \/ \E u \in Users : Add(u) \/ Remove(u) \/ Join(u) \/ Pull(u)
    \/ \E signed \in BOOLEAN : DeleteGroup(signed)
    \/ DeleteGroupTorn \/ Tick
    \/ \E m \in Msgs : SendAtHost(m) \/ SendAtPeer(m) \/ Age(m)
    \/ \E u \in Users, m \in Msgs : \/ Ack(u, m) \/ DeleteAtHost(u, m)
                                    \/ DeleteAtPeer(u, m)
    \/ \E r \in rows : Handle(r) \/ Settle(r)

Spec == Init /\ [][Next]_vars

----------------------------------------------------------------------------
(* The shape of both relays' tables, queues and outboxes.                   *)
TypeOK ==
    /\ members \subseteq Users /\ live \in BOOLEAN
    /\ shadow \subseteq Users /\ known \in BOOLEAN
    /\ IF known THEN Creator \in shadow ELSE shadow = {}
    /\ rows \subseteq RowType
    /\ got \in [Msgs -> SUBSET Users]
    /\ meta \in [{"host", "peer"} -> SUBSET Msgs]
    /\ old \subseteq Msgs
    /\ stamp \in - ControlWindow .. ControlWindow + 1
    /\ claims \in [{"host", "peer"} -> [Signed -> Nat]]
    /\ gone \in [Users -> Nat] /\ ahead \in BOOLEAN

(* Who got a message was a member when the host fanned it out, the sender   *)
(* too, however stale the shadow that accepted or delivered it is.          *)
OnlyMembersTalk ==
    \A m \in Msgs : ever[m] # {} =>
        (ever[m] \subseteq Others(m, fan[m]) /\ from[m] \in fan[m])

(* A message the host acknowledged has been queued for the peer's members,  *)
(* unless the commit of its fan-out failed: then the retry is answered as a *)
(* duplicate (envelope_exists) and they never get it.                       *)
NobodyIsForgotten ==
    \A m \in accepted \ torn :
        Others(m, fan[m]) \cap Remote # {} => <<"deliver", m>> \in ids

(* Only the sender or the group's admin has a message deleted, on either    *)
(* relay, although the peer acts on the host's word (two layers of checks). *)
OnlyOwnersDelete ==
    \A m \in Msgs : removedBy[m] \subseteq {from[m], Creator}

(* One request to delete the group tells a member once, on the host and on  *)
(* the peer, however often its row is forwarded, with two exceptions.  A    *)
(* failed commit or an unavailable replay guard lets it through again.  And *)
(* a ts that had not passed when it was claimed outlives its key, which     *)
(* lives one window from the claim: the event is then accepted up to three  *)
(* times in the two windows it can span (delete_group, _handle_group_gone,  *)
(* _claim_federated_event).                                                 *)
GoneIsToldOnce ==
    \A u \in Users : gone[u] <= (IF u \in Remote /\ ahead THEN 3 ELSE 1) + faults

(* _claim_federated_event: "each event is spent exactly once"; a repetition *)
(* within the window finds the key, and one after it fails the ts check.    *)
EventIsSpentOnce == \A u \in Users : gone[u] <= 1 + faults

(* enqueue_snapshot_to_relays: "multiple pending snapshots are tolerated -  *)
(* the latest wins on apply".  Of the snapshots the peer has applied, the   *)
(* newest is what its shadow shows.                                         *)
LatestSnapshotWins == best > 0 => shadow = past[best]
=============================================================================
