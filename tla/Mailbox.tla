------------------------------ MODULE Mailbox ------------------------------
(***************************************************************************)
(* The store-and-forward core of a Morok relay: the Redis queue of          *)
(* queue.py, the blob files of blob_storage.py, the handlers of             *)
(* api/messages.py, api/sealed.py and api/groups.py that use them, and the  *)
(* blob reaper of scripts/reaper.py.                                        *)
(*                                                                          *)
(* A request handler is a coroutine: it can be overtaken by any other       *)
(* handler, and by the reaper process, at every await.  Each await on Redis *)
(* or on the disk is therefore one action here, and a Task is one handler   *)
(* with its program counter and its locals.  What one EVAL, one MULTI/EXEC  *)
(* or one plain command does is atomic, as it is in Redis.                  *)
(***************************************************************************)
EXTENDS Integers, FiniteSets

CONSTANTS
    Envelopes,      \* envelope ids
    Users,          \* public keys with an inbox on this relay
    Tasks,          \* request handlers that may run at the same time
    Kind,           \* Kind[e]: "dm", "sealed" or "group"
    To,             \* To[e]: the local recipients of e
    Ts,             \* Ts[e]: the signed timestamp of e
    Ttls,           \* the values a sender may put in the ttl field
    Past, Skew,     \* a timestamp is accepted in now-Past .. now+Skew
    Ceiling,        \* message_ttl_hard_seconds
    MaxDepth,       \* MAX_INBOX_QUEUE_DEPTH
    KeyFloor,       \* the 60 of max(ttl_until_expiry, 60)
    KeySlack,       \* INBOX_KEY_TTL_SLACK_SECONDS
    FullScan,       \* is the full-scan reaper timer enabled?
    MaxTime,        \* bound: the last clock value
    MaxSends,       \* bound: send requests per envelope (1 = no retry)
    MaxFaults,      \* bound: Redis or disk calls that fail
    MaxCrashes      \* bound: handlers and reaper passes that die half-way

ASSUME EnvelopesAssumption ==
    /\ Envelopes # {} /\ Users # {}
    /\ IsFiniteSet(Envelopes)
ASSUME AddressAssumption ==
    /\ Kind \in [Envelopes -> {"dm", "sealed", "group"}]
    /\ To \in [Envelopes -> SUBSET Users]
    /\ Ts \in [Envelopes -> Nat]
    /\ \A e \in Envelopes : Kind[e] # "group" => \E u \in Users : To[e] = {u}
ASSUME NumbersAssumption ==
    /\ Ttls \subseteq Nat \ {0}
    /\ Past \in Nat /\ Skew \in Nat /\ Ceiling \in Nat
    /\ MaxDepth \in Nat \ {0} /\ KeyFloor \in Nat /\ KeySlack \in Nat
    /\ FullScan \in BOOLEAN
    /\ MaxTime \in Nat /\ MaxSends \in Nat
    /\ MaxFaults \in Nat /\ MaxCrashes \in Nat

VARIABLES
    now,            \* the wall clock
    blobs,          \* envelopes whose ciphertext file is on the disk
    meta,           \* meta[e]: when morok:envelope:e expires, 0 = no key
    inbox,          \* inbox[u][e]: score of e in morok:inbox:u, 0 = absent
    inboxTtl,       \* when the key morok:inbox:u expires, 0 = no TTL
    pending,        \* morok:envelope_pending:e, {} = no key
    pendingTtl,     \* when that key expires, 0 = no key
    index,          \* index[e]: score in morok:blob_expiry_index, 0 = absent
    tombstone,      \* envelopes with a sender tombstone
    delivered,      \* <<e, u>> with a delivery tombstone
    task,           \* the request handlers
    reaper,         \* the reaper process
    sent,           \* send requests made for each envelope
    enqueued,       \* history: envelopes that entered some inbox
    told,           \* history: envelopes a sender was told are duplicates
    recalled,       \* history: queued envelopes deleted by sender or admin
    faults, crashes \* failures so far

redisVars == <<meta, inbox, inboxTtl, pending, pendingTtl, index, tombstone,
               delivered>>
history   == <<enqueued, told, recalled>>
vars == <<now, blobs, redisVars, task, reaper, sent, history, faults, crashes>>

----------------------------------------------------------------------------
(* Labels of the awaits of each handler.                                    *)
SendLabels  == {"write", "claim", "insert", "undo", "scrub", "publish"}
GroupLabels == {"gwrite", "gmeta", "ginsert", "gopen", "gpublish"}
AckLabels   == {"mark", "release", "unlink"}
Labels == {"idle", "recall"} \cup SendLabels \cup GroupLabels \cup AckLabels

TaskType == [pc : Labels, e : Envelopes, u : Users, exp : Nat, life : Nat,
             todo : SUBSET Users, eligible : SUBSET Users]

Idle == [pc |-> "idle", e |-> CHOOSE e \in Envelopes : TRUE,
         u |-> CHOOSE u \in Users : TRUE, exp |-> 0, life |-> 0,
         todo |-> {}, eligible |-> {}]

ReaperType == [pc : {"idle", "check", "unlink", "drop"},
               mode : {"indexed", "scan"},
               todo : SUBSET Envelopes, e : Envelopes]
Resting == [pc |-> "idle", mode |-> "indexed", todo |-> {},
            e |-> CHOOSE e \in Envelopes : TRUE]

At(p, label)   == task[p].pc = label
Goto(p, label) == task' = [task EXCEPT ![p].pc = label]
Finish(p)      == task' = [task EXCEPT ![p] = Idle]

MinOf(a, b) == IF a < b THEN a ELSE b
MaxOf(a, b) == IF a < b THEN b ELSE a

----------------------------------------------------------------------------
(* Derived state.                                                           *)
Rows(u)      == {e \in Envelopes : inbox[u][e] # 0}
Live(u, e)   == inbox[u][e] > now
Listed(u, e) == Live(u, e) /\ meta[e] # 0     \* what list_inbox returns
Sending(e)   == \E p \in Tasks : /\ task[p].e = e
                                 /\ task[p].pc \in SendLabels \cup GroupLabels
Inserting(e) == \E p \in Tasks : task[p].e = e /\ task[p].pc = "insert"

(* An inbox after ZREMRANGEBYSCORE key 0 t.  Redis deletes a sorted set     *)
(* that has become empty, and its TTL with it.                              *)
Pruned(u, t)  == [e \in Envelopes |-> IF inbox[u][e] <= t THEN 0 ELSE inbox[u][e]]
Empty(rows)   == \A e \in Envelopes : rows[e] = 0
TtlOf(u, rows) == IF Empty(rows) THEN 0 ELSE inboxTtl[u]

(* _INBOX_ENQUEUE_LUA: prune, count, insert if there is room.  t is the     *)
(* time the caller read before its first await.                             *)
HasRoomOneMore(u, t) ==                 \* faulty variant: off by one
    Cardinality({e \in Envelopes : inbox[u][e] > t}) <= MaxDepth
HasRoom(u, t) == Cardinality({e \in Envelopes : inbox[u][e] > t}) < MaxDepth
LuaInsert(u, e, exp, t) ==
    /\ inbox' = [inbox EXCEPT ![u] =
                   IF HasRoom(u, t) THEN [Pruned(u, t) EXCEPT ![e] = exp]
                                    ELSE Pruned(u, t)]
    /\ inboxTtl' = [inboxTtl EXCEPT ![u] = TtlOf(u, Pruned(u, t))]
    /\ enqueued' = IF HasRoom(u, t) THEN enqueued \cup {e} ELSE enqueued

(* ZREM of one envelope from the inboxes of the users in us.                *)
Zrem(us, e) ==
    LET cut(u) == [inbox[u] EXCEPT ![e] = 0]
    IN  /\ inbox' = [u \in Users |-> IF u \in us THEN cut(u) ELSE inbox[u]]
        /\ inboxTtl' = [u \in Users |->
                          IF u \in us THEN TtlOf(u, cut(u)) ELSE inboxTtl[u]]

Init ==
    /\ now = 0
    /\ blobs = {}
    /\ meta = [e \in Envelopes |-> 0]
    /\ inbox = [u \in Users |-> [e \in Envelopes |-> 0]]
    /\ inboxTtl = [u \in Users |-> 0]
    /\ pending = [e \in Envelopes |-> {}]
    /\ pendingTtl = [e \in Envelopes |-> 0]
    /\ index = [e \in Envelopes |-> 0]
    /\ tombstone = {} /\ delivered = {}
    /\ task = [p \in Tasks |-> Idle]
    /\ reaper = Resting
    /\ sent = [e \in Envelopes |-> 0]
    /\ enqueued = {} /\ told = {} /\ recalled = {}
    /\ faults = 0 /\ crashes = 0

----------------------------------------------------------------------------
(* The three ways to send, up to their first write.                         *)

Fresh(e) == Ts[e] + Past >= now /\ Ts[e] <= now + Skew

(* Dedup before any work: the metadata key is already there.                *)
SendDuplicateByBlob(p, e) ==            \* faulty variant: asks for the file
    /\ At(p, "idle") /\ Fresh(e) /\ sent[e] < MaxSends
    /\ e \in blobs
    /\ sent' = [sent EXCEPT ![e] = @ + 1]
    /\ told' = told \cup {e}
    /\ UNCHANGED <<now, blobs, redisVars, task, reaper, enqueued, recalled,
                   faults, crashes>>
SendDuplicate(p, e) ==
    /\ At(p, "idle") /\ Fresh(e) /\ sent[e] < MaxSends
    /\ meta[e] # 0
    /\ sent' = [sent EXCEPT ![e] = @ + 1]
    /\ told' = told \cup {e}
    /\ UNCHANGED <<now, blobs, redisVars, task, reaper, enqueued, recalled,
                   faults, crashes>>

Accept(p, e, label, ttl) ==
    /\ At(p, "idle") /\ Fresh(e) /\ sent[e] < MaxSends
    /\ meta[e] = 0
    /\ sent' = [sent EXCEPT ![e] = @ + 1]
    /\ task' = [task EXCEPT ![p] = [Idle EXCEPT !.pc = label, !.e = e,
                                   !.exp = Ts[e] + ttl, !.todo = To[e]]]
    /\ UNCHANGED <<now, blobs, redisVars, reaper, history, faults, crashes>>

SendDirect(p, e, ttl) == Kind[e] = "dm" /\ Accept(p, e, "write", ttl)
SendSealed(p, e, ttl) == Kind[e] = "sealed" /\ Accept(p, e, "write", ttl)
SendGroup(p, e, ttl)  == Kind[e] = "group" /\ Accept(p, e, "gwrite", ttl)

(* write_blob: the temporary file is renamed over the final one.            *)
WriteBlob(p) ==
    /\ task[p].pc \in {"write", "gwrite"}
    /\ blobs' = blobs \cup {task[p].e}
    /\ Goto(p, IF task[p].pc = "write" THEN "claim" ELSE "gmeta")
    /\ UNCHANGED <<now, redisVars, reaper, sent, history, faults, crashes>>

ExpiresAt(p) == MinOf(task[p].exp, now + Ceiling)
ExpiredNever(p) == FALSE                \* faulty variant: no expiry check
Expired(p) == ExpiresAt(p) <= now

(* enqueue_envelope, envelope_already_expired.                              *)
EnqueueExpired(p) ==
    /\ At(p, "claim") /\ Expired(p)
    /\ Goto(p, "scrub")
    /\ UNCHANGED <<now, blobs, redisVars, reaper, sent, history, faults, crashes>>

(* SET NX finds the key: the caller returns None, "already queued".         *)
EnqueueDedup(p) ==
    /\ At(p, "claim") /\ ~Expired(p)
    /\ meta[task[p].e] # 0
    /\ told' = told \cup {task[p].e}
    /\ Finish(p)
    /\ UNCHANGED <<now, blobs, redisVars, reaper, sent, enqueued, recalled,
                   faults, crashes>>

(* SET NX wins the envelope id.                                             *)
EnqueueClaim(p) ==
    /\ At(p, "claim") /\ ~Expired(p)
    /\ meta[task[p].e] = 0
    /\ meta' = [meta EXCEPT ![task[p].e] = ExpiresAt(p)]
    /\ task' = [task EXCEPT ![p].pc = "insert", ![p].exp = ExpiresAt(p),
                            ![p].life = ExpiresAt(p) - now]
    /\ UNCHANGED <<now, blobs, inbox, inboxTtl, pending, pendingTtl, index,
                   tombstone, delivered, reaper, sent, history, faults, crashes>>

(* EVAL _INBOX_ENQUEUE_LUA; a full inbox is refused (429).                  *)
EnqueueInsert(p) ==
    /\ At(p, "insert")
    /\ \E u \in To[task[p].e] :
         /\ LuaInsert(u, task[p].e, task[p].exp, task[p].exp - task[p].life)
         /\ Goto(p, IF HasRoom(u, task[p].exp - task[p].life)
                    THEN "publish" ELSE "undo")
    /\ UNCHANGED <<now, blobs, meta, pending, pendingTtl, index, tombstone,
                   delivered, reaper, sent, told, recalled, faults, crashes>>

(* The refused envelope's metadata is deleted, then its blob.               *)
EnqueueUndo(p) ==
    /\ At(p, "undo")
    /\ meta' = [meta EXCEPT ![task[p].e] = 0]
    /\ Goto(p, "scrub")
    /\ UNCHANGED <<now, blobs, inbox, inboxTtl, pending, pendingTtl, index,
                   tombstone, delivered, reaper, sent, history, faults, crashes>>

EnqueueScrub(p) ==
    /\ At(p, "scrub")
    /\ blobs' = blobs \ {task[p].e}
    /\ Finish(p)
    /\ UNCHANGED <<now, redisVars, reaper, sent, history, faults, crashes>>

(* EXPIRE replaces the TTL of an existing inbox key, whatever it was.       *)
TouchInboxes(p, us) ==
    inboxTtl' = [u \in Users |->
        IF u \in us /\ ~Empty(inbox[u])
        THEN now + MaxOf(task[p].life, KeyFloor) + KeySlack
        ELSE inboxTtl[u]]

(* SADD and EXPIRE of the pending set, ZADD of the reaper's index.          *)
TrackIndexOnly(p, us) ==                \* faulty variant: no pending set
    /\ index' = [index EXCEPT ![task[p].e] = task[p].exp]
    /\ UNCHANGED <<pending, pendingTtl>>
Track(p, us) ==
    LET e == task[p].e
    IN  /\ pending' = [pending EXCEPT ![e] = @ \cup us]
        /\ pendingTtl' = IF us = {} THEN pendingTtl
                         ELSE [pendingTtl EXCEPT ![e] = now + task[p].life]
        /\ index' = [index EXCEPT ![e] = task[p].exp]

(* The closing MULTI of enqueue_envelope.                                   *)
EnqueuePublish(p) ==
    /\ At(p, "publish")
    /\ TouchInboxes(p, To[task[p].e])
    /\ Track(p, To[task[p].e])
    /\ tombstone' = IF Kind[task[p].e] = "dm" THEN tombstone \cup {task[p].e}
                                              ELSE tombstone
    /\ Finish(p)
    /\ UNCHANGED <<now, blobs, meta, inbox, delivered, reaper, sent, history,
                   faults, crashes>>

----------------------------------------------------------------------------
(* enqueue_envelope_for_recipients: the group fan-out.                      *)

(* do_group_fanout with no member on this relay: the queue is never asked,  *)
(* and the blob stays.                                                      *)
GroupAllRemote(p) ==
    /\ At(p, "gmeta") /\ task[p].todo = {}
    /\ Finish(p)
    /\ UNCHANGED <<now, blobs, redisVars, reaper, sent, history, faults, crashes>>

(* Already expired: the queue is left alone, and the blob stays.            *)
GroupExpired(p) ==
    /\ At(p, "gmeta") /\ task[p].todo # {} /\ Expired(p)
    /\ Finish(p)
    /\ UNCHANGED <<now, blobs, redisVars, reaper, sent, history, faults, crashes>>

(* First command of the batch: SET without NX.                              *)
GroupMeta(p) ==
    /\ At(p, "gmeta") /\ ~Expired(p) /\ task[p].todo # {}
    /\ meta' = [meta EXCEPT ![task[p].e] = ExpiresAt(p)]
    /\ task' = [task EXCEPT ![p].pc = "ginsert", ![p].exp = ExpiresAt(p),
                            ![p].life = ExpiresAt(p) - now]
    /\ UNCHANGED <<now, blobs, inbox, inboxTtl, pending, pendingTtl, index,
                   tombstone, delivered, reaper, sent, history, faults, crashes>>

(* Results of the batch as they come in: who is done, who is eligible.      *)
AfterInsert(p, u, room) ==
    [task[p] EXCEPT !.pc = IF task[p].todo = {u} THEN "gpublish" ELSE "ginsert",
                    !.todo = @ \ {u},
                    !.eligible = IF room THEN @ \cup {u} ELSE @]

(* One EVAL of the batch; the batch is not a transaction, so other clients  *)
(* run between its commands.  A full inbox is skipped.                      *)
GroupInsert(p) ==
    /\ At(p, "ginsert")
    /\ \E u \in task[p].todo :
         LET t == task[p].exp - task[p].life
         IN  /\ LuaInsert(u, task[p].e, task[p].exp, t)
             /\ task' = [task EXCEPT ![p] = AfterInsert(p, u, HasRoom(u, t))]
    /\ UNCHANGED <<now, blobs, meta, pending, pendingTtl, index, tombstone,
                   delivered, reaper, sent, told, recalled, faults, crashes>>

(* Fail-open after a batch that raised: SET and ZADD for every member,      *)
(* whatever the depth of the inbox.                                         *)
GroupFailOpen(p) ==
    /\ At(p, "gopen")
    /\ LET e == task[p].e
       IN  /\ meta' = [meta EXCEPT ![e] = now + task[p].life]
           /\ inbox' = [u \in Users |-> IF u \in To[e]
                          THEN [inbox[u] EXCEPT ![e] = task[p].exp]
                          ELSE inbox[u]]
           /\ enqueued' = enqueued \cup {e}
           /\ task' = [task EXCEPT ![p].pc = "gpublish", ![p].todo = {},
                                   ![p].eligible = To[e]]
    /\ UNCHANGED <<now, blobs, inboxTtl, pending, pendingTtl, index, tombstone,
                   delivered, reaper, sent, told, recalled, faults, crashes>>

(* The closing MULTI; the index entry is written even if nobody was         *)
(* eligible.                                                                *)
GroupPublish(p) ==
    /\ At(p, "gpublish")
    /\ TouchInboxes(p, task[p].eligible)
    /\ Track(p, task[p].eligible)
    /\ Finish(p)
    /\ UNCHANGED <<now, blobs, meta, inbox, tombstone, delivered, reaper, sent,
                   history, faults, crashes>>

----------------------------------------------------------------------------
(* GET /messages: list_inbox prunes before it reads.                        *)
ListInbox(u) ==
    /\ \E e \in Envelopes : inbox[u][e] # 0 /\ inbox[u][e] <= now
    /\ inbox' = [inbox EXCEPT ![u] = Pruned(u, now)]
    /\ inboxTtl' = [inboxTtl EXCEPT ![u] = TtlOf(u, Pruned(u, now))]
    /\ UNCHANGED <<now, blobs, meta, pending, pendingTtl, index, tombstone,
                   delivered, task, reaper, sent, history, faults, crashes>>

(* DELETE /messages/{id}: acknowledge_envelope, ZREM of the inbox row.      *)
AckStart(p, u, e) ==
    /\ At(p, "idle")
    /\ inbox[u][e] # 0
    /\ Zrem({u}, e)
    /\ task' = [task EXCEPT ![p] = [Idle EXCEPT !.pc = "mark", !.e = e, !.u = u]]
    /\ UNCHANGED <<now, blobs, meta, pending, pendingTtl, index, tombstone,
                   delivered, reaper, sent, history, faults, crashes>>

AckMark(p) ==
    /\ At(p, "mark")
    /\ delivered' = delivered \cup {<<task[p].e, task[p].u>>}
    /\ Goto(p, "release")
    /\ UNCHANGED <<now, blobs, meta, inbox, inboxTtl, pending, pendingTtl, index,
                   tombstone, reaper, sent, history, faults, crashes>>

(* _ACK_PENDING_LUA: nothing without a pending key (-1); SREM; the last     *)
(* recipient deletes the pending set and the metadata (1).                  *)
IsLastAckAny(e, u) == pending[e] # {}    \* faulty variant: any ACK is the last
IsLastAck(e, u) == pending[e] # {} /\ pending[e] \ {u} = {}
LuaAck(e, u) ==
    /\ pending' = [pending EXCEPT ![e] = @ \ {u}]
    /\ pendingTtl' = IF IsLastAck(e, u) THEN [pendingTtl EXCEPT ![e] = 0]
                                        ELSE pendingTtl
    /\ meta' = IF IsLastAck(e, u) THEN [meta EXCEPT ![e] = 0] ELSE meta

AckRelease(p) ==
    /\ At(p, "release")
    /\ LuaAck(task[p].e, task[p].u)
    /\ IF IsLastAck(task[p].e, task[p].u) THEN Goto(p, "unlink") ELSE Finish(p)
    /\ UNCHANGED <<now, blobs, inbox, inboxTtl, index, tombstone, delivered,
                   reaper, sent, history, faults, crashes>>

(* _delete_blob_after_last_ack, a background task of the same process.      *)
AckUnlink(p) ==
    /\ At(p, "unlink")
    /\ blobs' = blobs \ {task[p].e}
    /\ Finish(p)
    /\ UNCHANGED <<now, redisVars, reaper, sent, history, faults, crashes>>

(* The three ways to delete a message that was sent: authorise first.       *)
Authorised(p, e) ==
    /\ At(p, "idle") /\ sent[e] > 0
    /\ task' = [task EXCEPT ![p] = [Idle EXCEPT !.pc = "recall", !.e = e]]
    /\ UNCHANGED <<now, blobs, redisVars, reaper, sent, history, faults, crashes>>

(* The sender of a DM, by the metadata or by the tombstone that outlives it. *)
RecallDirect(p, e) ==
    /\ Kind[e] = "dm" /\ (meta[e] # 0 \/ e \in tombstone)
    /\ Authorised(p, e)

(* The holder of the delete key, which only the metadata can confirm.       *)
RecallSealed(p, e) == Kind[e] = "sealed" /\ meta[e] # 0 /\ Authorised(p, e)

(* The sender, by the metadata, or the group admin without it.              *)
RecallGroup(p, e) == Kind[e] = "group" /\ Authorised(p, e)

(* The MULTI of all three: rows, metadata and tombstone go; pending set,    *)
(* index and blob stay.                                                     *)
RecallRows(p) ==                        \* faulty variant: keeps the metadata
    /\ At(p, "recall")
    /\ Zrem(To[task[p].e], task[p].e)
    /\ tombstone' = tombstone \ {task[p].e}
    /\ recalled' = IF meta[task[p].e] # 0 \/ task[p].e \in enqueued
                   THEN recalled \cup {task[p].e} ELSE recalled
    /\ Finish(p)
    /\ UNCHANGED <<now, blobs, meta, pending, pendingTtl, index, delivered,
                   reaper, sent, enqueued, told, faults, crashes>>
Recall(p) ==
    /\ At(p, "recall")
    /\ Zrem(To[task[p].e], task[p].e)
    /\ meta' = [meta EXCEPT ![task[p].e] = 0]
    /\ tombstone' = tombstone \ {task[p].e}
    /\ recalled' = IF meta[task[p].e] # 0 \/ task[p].e \in enqueued
                   THEN recalled \cup {task[p].e} ELSE recalled
    /\ Finish(p)
    /\ UNCHANGED <<now, blobs, pending, pendingTtl, index, delivered, reaper,
                   sent, enqueued, told, faults, crashes>>

----------------------------------------------------------------------------
(* Failures of a handler.                                                   *)

(* Where an exception raised by the await at a label takes the handler.     *)
(* Only EnqueueRejected reaches the clean-up of write_blob_then_enqueue;    *)
(* the batch of a fan-out fails open; an ACK carries on.                    *)
OnErrorKeepsMeta(label) ==              \* faulty variant: the 503 path scrubs
    CASE label = "insert" -> "scrub"    \* the blob but leaves the metadata
      [] label \in {"gmeta", "ginsert"} -> "gopen"
      [] label = "mark" -> "release"
      [] OTHER -> "idle"
OnError(label) ==
    CASE label = "insert" -> "undo"
      [] label = "undo" -> "scrub"
      [] label \in {"gmeta", "ginsert"} -> "gopen"
      [] label = "mark" -> "release"
      [] OTHER -> "idle"

(* The call had no effect: Redis refused it, or the disk did.               *)
CallFails(p) ==
    /\ task[p].pc # "idle" /\ faults < MaxFaults
    /\ faults' = faults + 1
    /\ task[p].pc \in {"claim", "gmeta"} => ~Expired(p)
    /\ \/ /\ At(p, "gmeta") /\ task[p].todo # {}
          /\ task' = [task EXCEPT ![p].pc = "gopen", ![p].exp = ExpiresAt(p),
                                  ![p].life = ExpiresAt(p) - now]
       \/ /\ ~At(p, "gmeta") /\ OnError(task[p].pc) # "idle"
          /\ Goto(p, OnError(task[p].pc))
       \/ ~At(p, "gmeta") /\ OnError(task[p].pc) = "idle" /\ Finish(p)
    /\ UNCHANGED <<now, blobs, redisVars, reaper, sent, history, crashes>>

(* The call took effect but its reply was lost; the handler sees an error.  *)
InsertReplyLost(p) ==
    /\ At(p, "insert") /\ faults < MaxFaults
    /\ faults' = faults + 1
    /\ \E u \in To[task[p].e] :
         LuaInsert(u, task[p].e, task[p].exp, task[p].exp - task[p].life)
    /\ Goto(p, OnError("insert"))
    /\ UNCHANGED <<now, blobs, meta, pending, pendingTtl, index, tombstone,
                   delivered, reaper, sent, told, recalled, crashes>>

ClaimReplyLost(p) ==
    /\ At(p, "claim") /\ ~Expired(p) /\ faults < MaxFaults
    /\ meta[task[p].e] = 0
    /\ faults' = faults + 1
    /\ meta' = [meta EXCEPT ![task[p].e] = ExpiresAt(p)]
    /\ Finish(p)
    /\ UNCHANGED <<now, blobs, inbox, inboxTtl, pending, pendingTtl, index,
                   tombstone, delivered, reaper, sent, history, crashes>>

ReleaseReplyLost(p) ==
    /\ At(p, "release") /\ faults < MaxFaults
    /\ faults' = faults + 1
    /\ LuaAck(task[p].e, task[p].u)
    /\ Finish(p)
    /\ UNCHANGED <<now, blobs, inbox, inboxTtl, index, tombstone, delivered,
                   reaper, sent, history, crashes>>

(* The whole batch of a fan-out ran, but its answer never came: the handler *)
(* fails open over an envelope already inserted.                            *)
BatchReplyLost(p) ==
    /\ At(p, "gpublish") /\ faults < MaxFaults
    /\ faults' = faults + 1
    /\ Goto(p, "gopen")
    /\ UNCHANGED <<now, blobs, redisVars, reaper, sent, history, crashes>>

(* The process dies: the handler is gone, Redis and the disk are not.       *)
Crash(p) ==
    /\ task[p].pc # "idle" /\ crashes < MaxCrashes
    /\ crashes' = crashes + 1
    /\ Finish(p)
    /\ UNCHANGED <<now, blobs, redisVars, reaper, sent, history, faults>>

----------------------------------------------------------------------------
(* scripts/reaper.py, a process of its own started by timers.               *)

(* reap_blobs_indexed: ZRANGEBYSCORE index 0 now.                           *)
ReapStart ==
    /\ reaper.pc = "idle"
    /\ LET due == {e \in Envelopes : index[e] # 0 /\ index[e] <= now}
       IN  /\ due # {} \/ (FullScan /\ blobs # {})
           /\ reaper' = [reaper EXCEPT !.pc = "check", !.mode = "indexed",
                                       !.todo = due]
    /\ UNCHANGED <<now, blobs, redisVars, task, sent, history, faults, crashes>>

(* A candidate of the index has an entry to drop, a scanned file has none.  *)
Afterwards == IF reaper.mode = "indexed" THEN "drop" ELSE "check"

(* EXISTS morok:envelope:e for the next candidate.  Still there: skip it.   *)
Examine(mode) ==
    /\ reaper.pc = "check" /\ reaper.mode = mode
    /\ \E e \in reaper.todo :
         reaper' = [reaper EXCEPT
             !.e = e, !.todo = @ \ {e},
             !.pc = IF meta[e] = 0 THEN "unlink" ELSE Afterwards]
    /\ UNCHANGED <<now, blobs, redisVars, task, sent, history, faults, crashes>>

ReapCheck == Examine("indexed")

(* reap_blobs_full_scan: the age of the file decides only which counter of  *)
(* the report is raised; both branches delete.                              *)
ScanCheck == Examine("scan")

ReapUnlink ==
    /\ reaper.pc = "unlink"
    /\ blobs' = blobs \ {reaper.e}
    /\ reaper' = [reaper EXCEPT !.pc = Afterwards]
    /\ UNCHANGED <<now, redisVars, task, sent, history, faults, crashes>>

(* The finally clause: ZREM whatever the outcome.                           *)
ReapDrop ==
    /\ reaper.pc = "drop"
    /\ index' = [index EXCEPT ![reaper.e] = 0]
    /\ reaper' = [reaper EXCEPT !.pc = "check"]
    /\ UNCHANGED <<now, blobs, meta, inbox, inboxTtl, pending, pendingTtl,
                   tombstone, delivered, task, sent, history, faults, crashes>>

(* reap_once goes on to reap_blobs_full_scan, or the pass ends.             *)
ReapNextIndexed ==                      \* faulty variant: the flag is ignored
    /\ reaper.pc = "check" /\ reaper.todo = {}
    /\ reaper' = Resting
    /\ UNCHANGED <<now, blobs, redisVars, task, sent, history, faults, crashes>>
ReapNext ==
    /\ reaper.pc = "check" /\ reaper.todo = {}
    /\ reaper' = IF FullScan /\ reaper.mode = "indexed"
                 THEN [reaper EXCEPT !.mode = "scan", !.todo = blobs]
                 ELSE Resting
    /\ UNCHANGED <<now, blobs, redisVars, task, sent, history, faults, crashes>>

(* EXISTS or the unlink raises: the candidate is given up for this pass,    *)
(* and the finally clause still drops its index entry.                      *)
GiveUp ==
    \/ /\ reaper.pc = "check"
       /\ \E e \in reaper.todo :
            reaper' = [reaper EXCEPT !.e = e, !.todo = @ \ {e}, !.pc = Afterwards]
    \/ reaper.pc = "unlink" /\ reaper' = [reaper EXCEPT !.pc = Afterwards]
    \/ reaper.pc = "drop" /\ reaper' = [reaper EXCEPT !.pc = "check"]
ReapFails ==
    /\ faults < MaxFaults /\ GiveUp
    /\ faults' = faults + 1
    /\ UNCHANGED <<now, blobs, redisVars, task, sent, history, crashes>>

ReapCrash ==
    /\ reaper.pc # "idle" /\ crashes < MaxCrashes
    /\ crashes' = crashes + 1
    /\ reaper' = Resting
    /\ UNCHANGED <<now, blobs, redisVars, task, sent, history, faults>>

----------------------------------------------------------------------------
(* Redis and the clock.  A key outlives its deadline by less than a tick:   *)
(* EX is counted from the moment the command runs, the deadline from the    *)
(* second the handler read.                                                 *)

ExpireMeta(e) ==
    /\ meta[e] # 0 /\ meta[e] <= now
    /\ meta' = [meta EXCEPT ![e] = 0]
    /\ UNCHANGED <<now, blobs, inbox, inboxTtl, pending, pendingTtl, index,
                   tombstone, delivered, task, reaper, sent, history, faults,
                   crashes>>

ExpirePending(e) ==
    /\ pendingTtl[e] # 0 /\ pendingTtl[e] <= now
    /\ pending' = [pending EXCEPT ![e] = {}]
    /\ pendingTtl' = [pendingTtl EXCEPT ![e] = 0]
    /\ UNCHANGED <<now, blobs, meta, inbox, inboxTtl, index, tombstone,
                   delivered, task, reaper, sent, history, faults, crashes>>

ExpireInbox(u) ==
    /\ inboxTtl[u] # 0 /\ inboxTtl[u] <= now
    /\ inbox' = [inbox EXCEPT ![u] = [e \in Envelopes |-> 0]]
    /\ inboxTtl' = [inboxTtl EXCEPT ![u] = 0]
    /\ UNCHANGED <<now, blobs, meta, pending, pendingTtl, index, tombstone,
                   delivered, task, reaper, sent, history, faults, crashes>>

NothingOverdue ==
    /\ \A e \in Envelopes : /\ meta[e] = 0 \/ meta[e] > now
                            /\ pendingTtl[e] = 0 \/ pendingTtl[e] > now
    /\ \A u \in Users : inboxTtl[u] = 0 \/ inboxTtl[u] > now

Tick ==
    /\ now < MaxTime /\ NothingOverdue
    /\ now' = now + 1
    /\ UNCHANGED <<blobs, redisVars, task, reaper, sent, history, faults, crashes>>

----------------------------------------------------------------------------
(* What a running handler does next, without failures.                      *)
Step(p) ==
    \/ WriteBlob(p)
    \/ EnqueueExpired(p) \/ EnqueueDedup(p) \/ EnqueueClaim(p)
    \/ EnqueueInsert(p) \/ EnqueueUndo(p) \/ EnqueueScrub(p) \/ EnqueuePublish(p)
    \/ GroupAllRemote(p) \/ GroupExpired(p) \/ GroupMeta(p) \/ GroupInsert(p)
    \/ GroupFailOpen(p) \/ GroupPublish(p)
    \/ AckMark(p) \/ AckRelease(p) \/ AckUnlink(p)
    \/ Recall(p)

Request(p) ==
    \E e \in Envelopes :
        \/ SendDuplicate(p, e)
        \/ \E ttl \in Ttls : \/ SendDirect(p, e, ttl) \/ SendSealed(p, e, ttl)
                             \/ SendGroup(p, e, ttl)
        \/ \E u \in Users : AckStart(p, u, e)
        \/ RecallDirect(p, e) \/ RecallSealed(p, e) \/ RecallGroup(p, e)

Failure(p) ==
    \/ CallFails(p) \/ Crash(p)
    \/ InsertReplyLost(p) \/ ClaimReplyLost(p) \/ ReleaseReplyLost(p)
    \/ BatchReplyLost(p)

Reap == \/ ReapStart \/ ReapCheck \/ ScanCheck \/ ReapUnlink \/ ReapDrop
        \/ ReapNext

Redis == \/ \E e \in Envelopes : ExpireMeta(e) \/ ExpirePending(e)
         \/ \E u \in Users : ExpireInbox(u)

Next ==
    \/ \E p \in Tasks : Step(p) \/ Request(p) \/ Failure(p)
    \/ \E u \in Users : ListInbox(u)
    \/ Reap \/ ReapFails \/ ReapCrash
    \/ Redis \/ Tick

Spec == Init /\ [][Next]_vars

(* Handlers run on an event loop, Redis expires its keys, systemd timers    *)
(* start the reaper again and again, time passes.  No client is obliged to  *)
(* send, list, acknowledge or recall anything.                              *)
Fairness ==
    /\ \A p \in Tasks : WF_vars(Step(p))
    /\ WF_vars(Reap) /\ WF_vars(Redis) /\ WF_vars(Tick)

FairSpec == Spec /\ Fairness

----------------------------------------------------------------------------
(* Properties.                                                              *)

(* The shape of the Redis keys, the handlers and the reaper.                *)
TypeOK ==
    /\ now \in Nat
    /\ blobs \subseteq Envelopes
    /\ meta \in [Envelopes -> Nat]
    /\ inbox \in [Users -> [Envelopes -> Nat]]
    /\ inboxTtl \in [Users -> Nat]
    /\ pending \in [Envelopes -> SUBSET Users]
    /\ pendingTtl \in [Envelopes -> Nat]
    /\ index \in [Envelopes -> Nat]
    /\ tombstone \subseteq Envelopes
    /\ delivered \subseteq Envelopes \X Users
    /\ task \in [Tasks -> TaskType]
    /\ reaper \in ReaperType
    /\ sent \in [Envelopes -> Nat]
    /\ enqueued \subseteq Envelopes /\ told \subseteq Envelopes
    /\ recalled \subseteq Envelopes
    /\ faults \in Nat /\ crashes \in Nat

(* MAX_INBOX_QUEUE_DEPTH is a hard cap (queue.py, _INBOX_ENQUEUE_LUA):      *)
(* however many senders race for one inbox, it never holds more envelopes   *)
(* than the cap.  Only the fan-out's fail-open branch, which needs a Redis  *)
(* fault, may exceed it, and then only with group envelopes.                *)
HardCap ==
    \A u \in Users :
        Cardinality(IF faults = 0 THEN Rows(u)
                    ELSE {e \in Rows(u) : Kind[e] # "group"}) <= MaxDepth

(* A live inbox row can be listed and its blob can be fetched: no ACK of    *)
(* another group member, no clean-up of a refused send, no key expiry and   *)
(* no indexed reaper pass takes metadata or ciphertext from a recipient     *)
(* still waiting for them.  It holds while the envelope was sent once,      *)
(* Redis and the disk answered every call, nobody recalled it and the full  *)
(* scan is off (see QueuedBlobUntouched); handlers may die at any await.    *)
QueuedIsDeliverable ==
    faults = 0 /\ ~FullScan =>
        \A u \in Users, e \in Envelopes \ recalled :
            sent[e] <= 1 /\ Live(u, e) => meta[e] # 0 /\ e \in blobs

(* One failed or half-failed call of Redis or the disk never leaves a       *)
(* message that list_inbox shows and get_envelope_blob answers with 404,    *)
(* while the full scan, which can take the blob alone, is off.              *)
ListedHasBlob ==
    faults <= 1 /\ ~FullScan =>
        \A u \in Users, e \in Envelopes :
            sent[e] <= 1 /\ Listed(u, e) => e \in blobs

(* A completed delete by the sender or the group admin is final: the        *)
(* envelope, sent once, is never listed again, even when the send or an     *)
(* ACK is still running while it is deleted.                                *)
RecallIsFinal ==
    faults = 0 =>
        \A u \in Users, e \in recalled : sent[e] <= 1 => ~Listed(u, e)

(* Every waiting recipient is in the pending set once the send has          *)
(* finished, so that the last ACK, and no earlier one, deletes the          *)
(* envelope (README: the record and the file are deleted when the addressee *)
(* has taken the message).                                                  *)
WaitingIsTracked ==
    faults + crashes = 0 =>
        \A u \in Users, e \in Envelopes :
            sent[e] <= 1 /\ Listed(u, e) /\ ~Sending(e) => u \in pending[e]

(* The expiry a send can compute for e has passed: its own ttl, or the      *)
(* ceiling counted from the earliest moment its timestamp is accepted.      *)
Deadline(e, t) == \/ \E ttl \in Ttls : Ts[e] + ttl <= t
                  \/ Ts[e] + Ceiling <= t + Skew
(* Nobody has sent u anything but e.                                        *)
OnlyMail(u, e) == \A f \in Envelopes \ {e} : u \in To[f] => sent[f] = 0

(* A sender whose retry is answered "already queued" may forget the         *)
(* message: it is in the inbox, or about to be, unless the recipient took   *)
(* it, the sender deleted it or its time ran out.  It holds while nothing   *)
(* fails or dies and the recipient has no other mail, which could fill the  *)
(* inbox or cut the TTL of its key (see KeyOutlivesContent), however the    *)
(* retries, the ACK, a delete and the reaper interleave (enqueue_envelope,  *)
(* SET NX).                                                                 *)
DuplicateIsNotLost ==
    faults + crashes = 0 =>
        \A e \in told \ recalled, u \in Users :
            Kind[e] # "group" /\ u \in To[e] /\ OnlyMail(u, e) =>
                \/ Live(u, e) \/ Inserting(e)
                \/ <<e, u>> \in delivered
                \/ \E p \in Tasks : At(p, "mark") /\ task[p].e = e
                \/ Deadline(e, now)

(* No ciphertext is kept for ever: a blob whose metadata is gone is         *)
(* deleted in the end, whichever handler or reaper pass died on the way,    *)
(* unless the envelope is sent again (reap_blobs_full_scan).                *)
OrphansAreReaped ==
    \A e \in Envelopes :
        (e \in blobs /\ meta[e] = 0) ~> (e \notin blobs \/ meta[e] # 0)

(* What queue.py says of a dedup reply: "None means EXACTLY one thing: an   *)
(* envelope with this id is already in the queue".  An envelope a sender    *)
(* was told is a duplicate has been inserted in the inbox, or the handler   *)
(* that owns it is still about to insert it.                                *)
DedupMeansQueued ==
    \A e \in told : e \in enqueued \/ Inserting(e)

(* What queue.py says of the TTL of an inbox key: "the key must outlive its *)
(* content (otherwise we lose envelopes not yet taken)".  When the key is   *)
(* due to expire, no envelope in it is still within its own lifetime.       *)
KeyOutlivesContent ==
    \A u \in Users, e \in Envelopes :
        /\ inboxTtl[u] # 0 /\ inboxTtl[u] <= now
        /\ ~Sending(e)
        => ~Live(u, e)

(* What reaper.py says: "while the envelope is in the Redis queue the blob  *)
(* must NOT be touched", and "we do not touch a FRESH blob".  An envelope   *)
(* sent once and waiting in the queue keeps its blob.                       *)
QueuedBlobUntouched ==
    \A u \in Users, e \in Envelopes :
        faults = 0 /\ sent[e] <= 1 /\ Listed(u, e) => e \in blobs
=============================================================================
