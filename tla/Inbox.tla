------------------------------- MODULE Inbox -------------------------------
(***************************************************************************)
(* The WebSockets of one user (api/inbox.py): the slot each of them         *)
(* reserves (rate_limit.py), the counter that says whether the user is      *)
(* online, the catch-up frame and the subscription that follows it, and the *)
(* push notification sent to a user who is offline (push_sender.py,         *)
(* api/push.py).                                                            *)
(*                                                                          *)
(* A socket is authenticated before it starts here (module Sessions).       *)
(* Every await on Redis is a step.  Keys that only time removes are removed *)
(* by steps of their own, when nobody refreshes them: because no socket is  *)
(* left, or because the refreshes of a live one fail or come too late.      *)
(***************************************************************************)
EXTENDS Integers, Sequences, FiniteSets, SequencesExt

CONSTANTS
    Sockets, Msgs,
    Web, Native,    \* push endpoints of the user's browsers and phones
    Limit,          \* rate_limit_ws_connections_per_pubkey
    CatchUpMax,     \* limit of list_inbox in the catch-up frame
    MaxSubs,        \* MAX_PUSH_SUBSCRIPTIONS_PER_ACCOUNT
    MaxFaults       \* bound: failed calls and crashes of the server

ASSUME InboxNumbers ==
    /\ Limit \in Nat \ {0} /\ CatchUpMax \in Nat \ {0} /\ MaxSubs \in Nat
    /\ MaxFaults \in Nat
ASSUME InboxSets ==
    IsFiniteSet(Sockets) /\ IsFiniteSet(Msgs) /\ Web \cap Native = {}

VARIABLES
    inbox,      \* pending messages, oldest first
    posting,    \* inserted by a sender who has not published them yet
    pc,         \* pc[s]: where the handler of the socket is
    events,     \* events[s]: published messages it has not read
    heard,      \* heard[s]: messages sent to the client
    slots,      \* morok:ws:connections, without dead entries
    active,     \* morok:ws:active, 0 when there is no key
    key,        \* that key: absent, without a TTL, or with one
    subs,       \* push_subscriptions
    faults,
    sent,       \* history: messages that have arrived
    gap, cut,   \* history: published before the subscription; beyond the limit
    silent,     \* history: messages that were not published
    leaked,     \* history: increments whose decrement is lost
    undated,    \* history: a failure or a crash came between INCR and EXPIRE
    unslotted   \* history: sockets let in without a slot, or that lost it

frames  == <<events, heard, gap, cut>>
limits  == <<slots, unslotted>>
online  == <<active, key, leaked, undated>>
post    == <<posting, silent>>
vars == <<inbox, post, pc, frames, limits, online, subs, faults, sent>>

Refreshing == {"timed", "listed", "open"}           \* set or renew the TTL
Serving == {"counted"} \cup Refreshing
Counted == {"closing"} \cup Serving                  \* INCR done, DECR not
Admitted == {"reserved", "failed", "zero", "release"} \cup Counted
In(set) == {s \in Sockets : pc[s] \in set}

Init ==
    /\ inbox = <<>> /\ posting = {} /\ silent = {}
    /\ pc = [s \in Sockets |-> "new"]
    /\ events = [s \in Sockets |-> <<>>] /\ heard = [s \in Sockets |-> {}]
    /\ gap = [s \in Sockets |-> {}] /\ cut = [s \in Sockets |-> {}]
    /\ slots = {} /\ unslotted = {} /\ active = 0 /\ key = "none"
    /\ leaked = 0 /\ undated = FALSE
    /\ subs = {} /\ faults = 0 /\ sent = {}

Goto(s, next) == pc' = [pc EXCEPT ![s] = next]
Fails == faults < MaxFaults /\ faults' = faults + 1
Works == UNCHANGED faults

----------------------------------------------------------------------------
(* The handshake.                                                           *)

(* reserve_ws_slot: ZADD and ZCARD in one transaction; over the limit the   *)
(* own entry is removed again.  When the call fails the socket is let in,   *)
(* carried out or not.                                                      *)
CountBefore(s) == Cardinality(slots \ {s})  \* faulty variant: ZCARD before ZADD
CountAfter(s) == Cardinality(slots \cup {s})
Reserve(s) ==
    /\ pc[s] = "new"
    /\ \/ /\ Works /\ slots' = slots \cup {s} /\ UNCHANGED unslotted
          /\ Goto(s, IF CountAfter(s) > Limit THEN "over" ELSE "reserved")
       \/ /\ Fails /\ slots' \in {slots, slots \cup {s}}
          /\ unslotted' = unslotted \cup {s}
          /\ Goto(s, "reserved")
    /\ UNCHANGED <<inbox, post, frames, online, subs, sent>>
RollBack(s) ==
    /\ pc[s] = "over" /\ Goto(s, "closed")
    /\ \/ Works /\ slots' = slots \ {s}
       \/ Fails /\ UNCHANGED slots
    /\ UNCHANGED <<inbox, post, frames, unslotted, online, subs, sent>>

(* websocket.accept() raises when the client has gone: the slot stays.      *)
AcceptFails(s) ==
    /\ pc[s] = "reserved" /\ Fails /\ Goto(s, "closed")
    /\ UNCHANGED <<inbox, post, frames, limits, online, subs, sent>>

(* INCR, then EXPIRE, of the counter; a failure of either is swallowed, and *)
(* a failed call may have been carried out.                                 *)
Existing == IF key = "none" THEN "bare" ELSE key
Count(by) == active' = active + by /\ key' = Existing
Incr(s) ==
    /\ pc[s] = "reserved"
    /\ \/ Works /\ Count(1) /\ Goto(s, "counted") /\ UNCHANGED undated
       \/ /\ Fails /\ Goto(s, "timed")
          /\ \/ Count(1) /\ undated' = TRUE
             \/ UNCHANGED <<active, key, undated>>
    /\ UNCHANGED <<inbox, post, frames, limits, leaked, subs, sent>>
Dated == IF key = "none" THEN "none" ELSE "dated"
Expire(s) ==
    /\ pc[s] = "counted" /\ Goto(s, "timed")
    /\ \/ Works /\ key' = Dated /\ UNCHANGED undated
       \/ Fails /\ undated' = TRUE /\ UNCHANGED key
    /\ UNCHANGED <<inbox, post, frames, limits, active, leaked, subs, sent>>

(* The handler returns early: the slot is released, the counter is not      *)
(* decremented.                                                             *)
GiveUp(s) ==
    /\ Fails /\ Goto(s, "failed") /\ leaked' = leaked + 1
    /\ UNCHANGED <<active, key, undated>>

(* list_inbox(limit) and the catch-up frame.                                *)
CatchUp(s) ==
    /\ pc[s] = "timed"
    /\ \/ /\ Works /\ Goto(s, "listed") /\ UNCHANGED online
          /\ LET n == IF Len(inbox) < CatchUpMax THEN Len(inbox) ELSE CatchUpMax
             IN  /\ heard' = [heard EXCEPT ![s] = ToSet(SubSeq(inbox, 1, n))]
                 /\ cut' = [cut EXCEPT ![s] = ToSet(SubSeq(inbox, n + 1, Len(inbox)))]
       \/ GiveUp(s) /\ UNCHANGED <<heard, cut>>
    /\ UNCHANGED <<inbox, post, events, gap, limits, subs, sent>>

Subscribe(s) ==
    /\ pc[s] = "listed"
    /\ \/ Works /\ Goto(s, "open") /\ UNCHANGED online
       \/ GiveUp(s)
    /\ UNCHANGED <<inbox, post, frames, limits, subs, sent>>

----------------------------------------------------------------------------
(* An open socket.                                                          *)

(* enqueue_envelope: the EVAL inserts the message; the MULTI that follows   *)
(* publishes it, to the sockets subscribed then.  The sender may die or the *)
(* MULTI fail in between, and nobody publishes it again.                    *)
SubscribedIdle(s) ==                    \* faulty variant: an event at a time
    pc[s] = "open" /\ events[s] = <<>>
Subscribed(s) == pc[s] = "open"
Insert(m) ==
    /\ m \notin sent /\ sent' = sent \cup {m}
    /\ inbox' = Append(inbox, m) /\ posting' = posting \cup {m}
    /\ UNCHANGED <<silent, pc, frames, limits, online, subs, faults>>
Publish(m) ==
    /\ m \in posting /\ posting' = posting \ {m}
    /\ events' = [s \in Sockets |-> IF Subscribed(s) THEN Append(events[s], m)
                                    ELSE events[s]]
    /\ gap' = [s \in Sockets |-> IF pc[s] = "listed" THEN gap[s] \cup {m} ELSE gap[s]]
    /\ UNCHANGED <<inbox, silent, pc, heard, cut, limits, online, subs, faults,
                   sent>>
PublishFails(m) ==
    /\ m \in posting /\ posting' = posting \ {m} /\ Fails
    /\ silent' = silent \cup {m}
    /\ UNCHANGED <<inbox, pc, frames, limits, online, subs, sent>>

(* reader_task: get_envelope_meta finds nothing once the message is gone.   *)
Read(s) ==
    /\ pc[s] = "open" /\ events[s] # <<>>
    /\ events' = [events EXCEPT ![s] = Tail(@)]
    /\ heard' = [heard EXCEPT ![s] = @ \cup ({Head(events[s])} \cap ToSet(inbox))]
    /\ UNCHANGED <<inbox, post, pc, gap, cut, limits, online, subs, faults,
                   sent>>

(* writer_task: an ack is acknowledge_envelope.                             *)
Ack(s, m) ==
    /\ pc[s] = "open" /\ m \in heard[s]
    /\ \E i \in DOMAIN inbox : inbox[i] = m /\ inbox' = RemoveAt(inbox, i)
    /\ UNCHANGED <<post, pc, frames, limits, online, subs, faults, sent>>

(* pinger_task of a live session: EXPIRE of the counter, then               *)
(* refresh_ws_slot; a failure of either is swallowed.                       *)
Ping(s) ==
    /\ pc[s] = "open"
    /\ \/ Works /\ key' = Dated /\ slots' = slots \cup {s}
       \/ Fails /\ key' \in {key, Dated} /\ slots' \in {slots, slots \cup {s}}
    /\ UNCHANGED <<inbox, post, pc, frames, unslotted, active, leaked, undated,
                   subs, sent>>

(* One of the three tasks ends; the others are cancelled and the            *)
(* subscription is dropped with what it had not read; what the socket had   *)
(* told does not matter any more.                                           *)
CloseKept(s) ==                         \* faulty variant: no unsubscribe
    /\ pc[s] = "open" /\ Goto(s, "closing")
    /\ UNCHANGED <<inbox, post, frames, limits, online, subs, faults, sent>>
Close(s) ==
    /\ pc[s] = "open" /\ Goto(s, "closing")
    /\ events' = [events EXCEPT ![s] = <<>>] /\ heard' = [heard EXCEPT ![s] = {}]
    /\ gap' = [gap EXCEPT ![s] = {}] /\ cut' = [cut EXCEPT ![s] = {}]
    /\ UNCHANGED <<inbox, post, limits, online, subs, faults, sent>>

(* DECR, then DEL if nothing is left; then the slot.                        *)
DecrSkipped == 0                        \* faulty variant: no decrement
Decrement == -1
Decr(s) ==
    /\ pc[s] = "closing"
    /\ \/ /\ Works /\ Count(Decrement) /\ UNCHANGED leaked
          /\ Goto(s, IF active' <= 0 THEN "zero" ELSE "release")
       \/ /\ Fails /\ Goto(s, "release")
          /\ \/ Count(Decrement) /\ UNCHANGED leaked
             \/ leaked' = leaked + 1 /\ UNCHANGED <<active, key>>
    /\ UNCHANGED <<inbox, post, frames, limits, undated, subs, sent>>
NoCounter == active' = 0 /\ key' = "none" /\ leaked' = 0 /\ UNCHANGED undated
DeleteCounter(s) ==
    /\ pc[s] = "zero" /\ Goto(s, "release")
    /\ \/ Works /\ NoCounter
       \/ Fails /\ UNCHANGED online
    /\ UNCHANGED <<inbox, post, frames, limits, subs, sent>>
Release(s) ==
    /\ pc[s] \in {"release", "failed"} /\ Goto(s, "closed")
    /\ \/ Works /\ slots' = slots \ {s}
       \/ Fails /\ UNCHANGED slots
    /\ UNCHANGED <<inbox, post, frames, unslotted, online, subs, sent>>

----------------------------------------------------------------------------
(* The server dies with its sockets, tasks and senders; Redis keeps what    *)
(* they left.                                                               *)
Crash ==
    /\ Fails /\ (In(Admitted \cup {"over"}) # {} \/ posting # {})
    /\ posting' = {} /\ silent' = silent \cup posting
    /\ pc' = [s \in Sockets |-> IF pc[s] \in Admitted \cup {"over"} THEN "closed"
                                ELSE pc[s]]
    /\ leaked' = leaked + Cardinality(In(Counted))
    /\ undated' = (undated \/ In({"counted"}) # {})
    /\ events' = [s \in Sockets |-> <<>>] /\ heard' = [s \in Sockets |-> {}]
    /\ gap' = [s \in Sockets |-> {}] /\ cut' = [s \in Sockets |-> {}]
    /\ UNCHANGED <<inbox, limits, active, key, subs, sent>>

(* 90 s without a ping of any socket: a counter with a TTL expires.         *)
MayExpireNever == FALSE                 \* faulty variant: no TTL at all
MayExpire == key = "dated" /\ In(Refreshing) = {}
CounterExpires ==
    /\ MayExpire /\ NoCounter
    /\ UNCHANGED <<inbox, post, pc, frames, limits, subs, faults, sent>>

(* 90 s in which the pings of the live sockets failed or were held up.      *)
CounterLapses ==
    /\ key = "dated" /\ In(Refreshing) # {} /\ Fails /\ NoCounter
    /\ UNCHANGED <<inbox, post, pc, frames, limits, subs, sent>>

(* A slot that has not been refreshed for 90 s is dropped by the next       *)
(* reservation: that of a socket that is gone, or of a live one whose       *)
(* refreshes failed or were held up.                                        *)
SlotExpires(s) ==
    /\ s \in slots /\ slots' = slots \ {s}
    /\ \/ pc[s] = "closed" /\ Works /\ UNCHANGED unslotted
       \/ pc[s] # "closed" /\ Fails /\ unslotted' = unslotted \cup {s}
    /\ UNCHANGED <<inbox, post, pc, frames, online, subs, sent>>

----------------------------------------------------------------------------
(* Push.  Browsers and phones share one quota; both handlers count and      *)
(* insert under the owner's pg_advisory_xact_lock.                          *)
PushRoom == Cardinality(subs) < MaxSubs
Subscription(e) ==
    /\ e \notin subs /\ PushRoom /\ subs' = subs \cup {e}
    /\ UNCHANGED <<inbox, post, pc, frames, limits, online, faults, sent>>
PushSubscribe(e) == e \in Web /\ Subscription(e)
PushSubscribeNative(e) == e \in Native /\ Subscription(e)
PushUnsubscribe(e) ==
    /\ e \in subs /\ subs' = subs \ {e}
    /\ UNCHANGED <<inbox, post, pc, frames, limits, online, faults, sent>>

(* delete_me drops the push subscriptions, the inbox and the counter, though *)
(* sockets may still be open.                                               *)
AccountDeleted ==
    /\ inbox # <<>> \/ key # "none" \/ subs # {}
    /\ inbox' = <<>> /\ NoCounter /\ subs' = {}
    /\ UNCHANGED <<post, pc, frames, limits, faults, sent>>

(* trigger_push: nobody is notified while the counter is positive.  (The    *)
(* rows of dead endpoints are deleted in the task's own database session,   *)
(* which nobody commits: subs stays as it is.)                              *)
Online == active > 0

----------------------------------------------------------------------------
Next ==
    \/ \E s \in Sockets : \/ Reserve(s) \/ RollBack(s) \/ AcceptFails(s)
                          \/ Incr(s) \/ Expire(s) \/ CatchUp(s) \/ Ping(s)
                          \/ Subscribe(s) \/ Read(s) \/ Close(s) \/ Decr(s)
                          \/ DeleteCounter(s) \/ Release(s) \/ SlotExpires(s)
                          \/ \E m \in Msgs : Ack(s, m)
    \/ \E m \in Msgs : Insert(m) \/ Publish(m) \/ PublishFails(m)
    \/ \E e \in Web \cup Native : \/ PushSubscribe(e) \/ PushSubscribeNative(e)
                                \/ PushUnsubscribe(e)
    \/ Crash \/ CounterExpires \/ CounterLapses \/ AccountDeleted

Spec == Init /\ [][Next]_vars

(* Time passes, so an unrefreshed counter expires.                          *)
FairSpec == Spec /\ WF_vars(CounterExpires)

----------------------------------------------------------------------------
(* The shape of the sockets' state.                                         *)
TypeOK ==
    /\ inbox \in Seq(Msgs) /\ sent \subseteq Msgs
    /\ ToSet(inbox) \subseteq sent /\ Len(inbox) = Cardinality(ToSet(inbox))
    /\ posting \subseteq sent /\ silent \subseteq sent
    /\ pc \in [Sockets -> Admitted \cup {"new", "over", "closed"}]
    /\ events \in [Sockets -> Seq(Msgs)]
    /\ \A s \in Sockets : events[s] # <<>> => pc[s] = "open"
    /\ heard \in [Sockets -> SUBSET sent] /\ slots \subseteq Sockets
    /\ gap \in [Sockets -> SUBSET sent] /\ cut \in [Sockets -> SUBSET sent]
    /\ unslotted \subseteq Sockets /\ faults \in 0 .. MaxFaults
    /\ active \in -Cardinality(Sockets) .. Cardinality(Sockets)
    /\ key \in {"none", "bare", "dated"} /\ (key = "none" => active = 0)
    /\ undated \in BOOLEAN
    /\ subs \subseteq Web \cup Native /\ leaked \in Nat

(* The limit on parallel sockets holds under racing handshakes, crashes and *)
(* expired slots, but for the sockets let in while Redis failed and live    *)
(* ones whose slot expired because it was not refreshed for 90 s: their     *)
(* place is given away, and the next ping takes it back unasked.            *)
SlotCap == Cardinality(In(Admitted) \ unslotted) <= Limit

(* A user is taken to be online only for sockets that are there or whose    *)
(* decrement was lost, however INCR, DECR and DEL of several sockets        *)
(* interleave: no push is skipped for a socket that closed cleanly.         *)
OnlineIsEarned == Online => active <= Cardinality(In(Counted)) + leaked

(* An open socket has told, or is about to tell, of every pending message   *)
(* that is published, except those above the limit of the catch-up frame    *)
(* and those published between the listing and the subscription.  A message *)
(* whose sender failed or died between insert and publish is not told of.   *)
OpenSocketHears ==
    \A s \in In({"open"}) : ToSet(inbox) \subseteq
        heard[s] \cup ToSet(events[s]) \cup gap[s] \cup cut[s] \cup posting \cup silent

(* inbox.py: "On connection: catch-up frame with all pending envelopes.     *)
(* After that: one frame per new envelope as it arrives, via Redis pub/sub." *)
OpenSocketHearsAll ==
    \A s \in In({"open"}) : ToSet(inbox) \subseteq
        heard[s] \cup ToSet(events[s]) \cup cut[s] \cup posting

(* A user without a socket does not stay online for ever, whatever crash or *)
(* failure lost a decrement, unless it fell between INCR and EXPIRE: push   *)
(* notifications resume.                                                    *)
Abandoned == In(Serving) = {} /\ Online
PushResumes == Abandoned ~> (~Abandoned \/ undated)

(* inbox.py: "Counter has a TTL so a crashed server doesn't leave stale     *)
(* "online" state forever."                                                 *)
StaleCounterExpires == Abandoned ~> ~Abandoned
=============================================================================
