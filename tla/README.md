# A TLA+ model of morok-relay

morok-relay is the server of the Morok messenger. It accepts encrypted
envelopes, keeps each one until its addressee takes it or its time runs out,
forwards envelopes for users of other relays, hosts groups, fires dead man's
switches, and forgets. This project models the parts of the relay where that can
go wrong: state that request handlers, WebSocket tasks, timers and other relays
share without a common lock.

## The system

| Component | Source | State | Operations | Module |
|---|---|---|---|---|
| Message queue | `queue.py` | Redis: `morok:inbox:<user>` (sorted set, score = expiry), `morok:envelope:<id>` (metadata with TTL), `morok:envelope_pending:<id>` (who has not acknowledged), `morok:blob_expiry_index`, tombstones | enqueue for one or many, list, acknowledge, delete by sender, by delete key, by group admin | `Mailbox` |
| Blob storage | `blob_storage.py` | one file per envelope | write (temporary file and rename), overwrite and unlink | `Mailbox` |
| Message APIs | `api/messages.py`, `api/sealed.py`, `api/groups.py` | none of their own | send, list, fetch, ACK, delete | `Mailbox`, `GroupReplication` |
| Blob reaper | `scripts/reaper.py` | none; a process started every 5 minutes, with a full scan once a day | delete files whose metadata is gone, end expired groups | `Mailbox`, `GroupMembership` |
| Federation outbox | `scripts/federation_worker.py`, `federation_client.py` | table `federation_outbound_queue` | claim, forward, retry with back-off, recover, dead-letter | `FederationOutbox` |
| Federation receiver | `api/federation.py` | replay keys, peers, the local queue, shadow groups | deliver, delete, receipts, group snapshots | `FederationOutbox`, `GroupReplication` |
| Groups | `api/groups.py`, `invite_tokens.py` | groups, members, invite tokens | create, add, remove, join, invite, delete, replicate | `GroupMembership`, `GroupReplication` |
| Dead man switch | `api/dms.py`, `scripts/dms_reaper.py` | switches and recipients | arm, check in, cancel, fire | `DeadManSwitch` |
| Sessions | `sessions.py`, `api/auth.py` | tokens, reverse sets, challenges, tickets | log in, verify, revoke one or all | `Sessions` |
| WebSocket inbox | `api/inbox.py`, `rate_limit.py` | connections, slots, presence counter | catch up, subscribe, push, disconnect | `Inbox`, `Sessions` |
| Push | `api/push.py`, `push_sender.py` | subscriptions | subscribe, decide who is offline | `Inbox` |
| Clean-up, accounts | `cleanup.py`, `api/account.py` | none of their own | remove what is old, inactive or deleted | the module of what they remove |
| Others | burner links, usernames, mail, backup, admin | | see `PROJECT.json` | none |

Handlers are coroutines in one or more processes, the reapers and the
federation worker are processes of their own, and all of them meet only in
Redis, in the database and on the disk. A single Redis command, an `EVAL` and a
`MULTI` are atomic, and a database transaction is serialised by the locks it
takes; nothing larger is. The hard behaviours are therefore: steps of two
handlers between two awaits, a process that dies between two awaits or between
Redis and the commit, a call that fails or whose answer is lost, rows another
relay receives late, twice or not at all, a clock that moves on meanwhile, and
keys that expire on their own. `PROJECT.json` lists them under `hazards`, each
at its line.

What makes the components correct:

* queue: nothing that is queued is lost or unreadable; the inbox cap is hard;
  a delete is final; "duplicate" is only said of what is really queued;
* storage and reaper: the ciphertext of a waiting message is never deleted, and
  ciphertext nobody waits for is not kept for ever;
* federation: a message for another relay is delivered at least once or ends as
  a dead letter; a finished row is never reopened; an event has its effect once;
* groups: never more members than the limit; a token admits one; only members
  talk and only owners delete, on the host and on the replica;
* dead man switch: never fires for an owner who checked in, fires for the rest,
  each recipient once;
* sessions: a revoked token is never accepted again, no session outlives its
  ceiling, no socket its session;
* inbox: the limit of sockets holds; an open socket hears of every message; a
  user who has gone is not online for ever.

## Modules

| Module | What it is |
|---|---|
| `Mailbox` | the queue, the blobs, the handlers that send, acknowledge and delete, the blob reaper |
| `FederationOutbox` | the outbound federation queue, its workers and clean-up, the peer's handling of messages and deletes |
| `OutboxPromise` | what a row of that queue may expect, without workers, wire or clock |
| `OutboxRefinement` | the mapping from `FederationOutbox` to `OutboxPromise` |
| `DeadManSwitch` | switches, signs of life, cancellation, the reaper pass, and what else removes switches |
| `GroupMembership` | members and invite tokens of one group on its host |
| `GroupReplication` | a group on its host and on a peer: snapshots, messages, deletes, the end |
| `Sessions` | challenges, tokens, tickets, and the sockets that depend on them |
| `Inbox` | the sockets of one user: slots, presence, catch-up, subscription, push |
| `MC...` | model values and small functions for TLC, one per module with runs |
| `...Proofs` | theorems about a module, checked by TLAPS: one for each of `Mailbox`, `FederationOutbox`, `OutboxRefinement`, `DeadManSwitch`, `GroupMembership`, `GroupReplication`, `Sessions`, `Inbox` |

The models meet where one of them treats another as a black box. What
`FederationOutbox` calls the peer's queue (`queued`) is a whole `Mailbox` there, of
which it keeps what the sender can notice: the metadata key that SET NX wins, the
EVAL that inserts, and what is left when a handler ends between the two.
`DeadManSwitch` sees the queue in the same way, and `Inbox` keeps the insert and the
publication apart. `GroupReplication` uses the outbox as `FederationOutbox`
describes it: a row is handled in any order, any number of times until it is
settled, or never. Its members change in single steps whose races are those of
`GroupMembership`. `Inbox` starts a socket where `Sessions` has authenticated it,
and its pending messages are the inbox of `Mailbox`. A fired switch puts envelopes
in that inbox as well.

### Mailbox: state and actions

`blobs` is the set of files. `meta[e]`, `pendingTtl[e]` and `inboxTtl[u]` are
the deadlines of the Redis keys (0: no key); `inbox[u][e]` is the score of a row
(0: no row), `pending[e]` the pending set, `index[e]` the score in the reaper's
index; `tombstone` and `delivered` are the two kinds of tombstone. `task[p]` is
a request handler: its label names the await it is about to perform, the other
fields are the locals of the Python function (`exp` is `expires_at`, `life` is
`ttl_until_expiry`, `todo` the members left in the fan-out batch, `eligible` the
members the batch inserted). `sent`, `enqueued`, `told` and `recalled` record
history for the properties and are read by no guard, except `sent`, which bounds
the number of sends.

| Code | Actions |
|---|---|
| `send_envelope`, `send_sealed_envelope`, `send_group_message` | `SendDirect`, `SendSealed`, `SendGroup`; `SendDuplicate` when the metadata key is already there |
| `write_blob` | `WriteBlob` |
| `enqueue_envelope` | `EnqueueExpired`, `EnqueueDedup`, `EnqueueClaim` (SET NX), `EnqueueInsert` (EVAL), `EnqueueUndo` (DEL after a refusal), `EnqueuePublish` (the closing MULTI) |
| `write_blob_then_enqueue` | `EnqueueScrub` deletes the blob of a refused envelope |
| `enqueue_envelope_for_recipients` | `GroupExpired`, `GroupMeta`, `GroupInsert` (one EVAL of the batch), `GroupFailOpen`, `GroupPublish`; `GroupAllRemote` for `do_group_fanout` without local members |
| `list_inbox` | `ListInbox` (its pruning; the result is `Listed`) |
| `acknowledge_envelope` | `AckStart` (ZREM), `AckMark`, `AckRelease` (EVAL), `AckUnlink` |
| the three deletes | `RecallDirect`, `RecallSealed`, `RecallGroup` authorise; `Recall` is the MULTI |
| `reaper.py` | `ReapStart`, `ReapCheck`, `ReapUnlink`, `ReapDrop`, `ReapNext`, `ScanCheck` |
| exceptions | `CallFails` (the call had no effect), `InsertReplyLost`, `ClaimReplyLost`, `ReleaseReplyLost`, `BatchReplyLost` (it had), `ReapFails`; `OnError` is the table of `except` clauses |
| process death | `Crash`, `ReapCrash` |
| Redis and time | `ExpireMeta`, `ExpirePending`, `ExpireInbox`, `Tick` |

The batch of the fan-out is a pipeline without a transaction, so its commands
are separate actions; a batch that raises may have run any prefix, or all of
itself. A lost reply of a call whose handler goes on in the same way after an
error as after success needs no action of its own.

Abstractions. Envelope ids are model values, so the hash that makes ids unique
is assumed collision-free; signatures, session checks, rate limits, sizes and
the contents of metadata are left out (a request in the model is one that passed
them). The overwrite in `secure_delete_blob` and the temporary file in
`write_blob` are one step with the unlink and the rename. The full scan takes
the set of files at its start, while `rglob` may also see files written later.
A tick is a second or more: a key lives up to its deadline and is removed before
the clock moves past it, which lets metadata outlive the second at which the
index calls it due, as it does in Redis. Tombstones outlive the runs. Every pass
of a reaper with `FullScan` scans; the frequent timer is `FullScan = FALSE`.
Mail envelopes, burner messages and dead-man-switch triggers enter the queue
through the same `enqueue_envelope`.

### FederationOutbox: state and actions

`rows` is the table, one record per primary key: kind and message (the payload),
status, attempts, and `data`, whether `envelope_data` is still the payload or has
been scrubbed to `{}`. Times are relative: `due` is `next_attempt_at - now` and
`age` is `now - delivered_at`, both cut off at `Horizon`, beyond every limit the
code compares with, so the clock needs no bound. `worker[w]` is a worker process
with its batch of in-memory copies of rows, `wire` the forwards the peer has not
answered. On the peer, `meta` are the metadata keys, `queued` the inbox, `seen` the
replay keys. `tries`, `begun` (SET NX was won), `arrived` (the message was in the
inbox), `dropped` (the winner ended without the insert) and `heard` are history.

| Code | Actions |
|---|---|
| `send_envelope`, `delete_dm_message` for a remote user | `SendFederated`, `DeleteFederated` (the SELECT), `Insert` (the commit); two requests may both find nothing |
| `recover_stuck_in_flight`, `fetch_pending_batch` | `Recover`, `Fetch` |
| `mark_in_flight` | `Claim`, `ClaimLost` |
| `remote_forward` | `Forward`; `GiveUp` for an exception, a timeout or an HTTP error |
| `mark_succeeded`, `mark_retry_or_dead` | `Succeed`, `RetryOrDead`; both update by primary key only, from the worker's copy |
| an exception logged by `run_once`, death of the process | `RowFails`, `Crash` |
| `_forward_impl` for a DM, with the peer's `enqueue_envelope` | `PeerRefuses` (an HTTP error before the claim), `PeerKnows` (a duplicate for `envelope_exists` or SET NX), `PeerStarts` (SET NX), then `PeerQueues` (EVAL and MULTI) or `PeerBacksOut` (full inbox, failed EVAL) |
| `_handle_dm_delete_forward` | `PeerClaims` and `PeerDeletes`, two awaits apart; `PeerReplay`, `PeerClaimOpen` (fail-open) |
| death of a handler of the peer, at any await | `PeerDies` |
| the recipient's ACK, expiry, `reap_federation_queue`, time | `PeerTakes`, `PeerExpires`, `Cleanup`, `Tick` |

Abstractions: the reasons for a refusal are one nondeterministic refusal;
signatures and trust are assumed checked; a request that finds an existing row
changes nothing and is no step; a message is deleted by one signed request,
repeated verbatim, so its replay key is the message (that key does not expire here;
see `GroupReplication`); the back-off table is a
constant; other kinds of row (groups, receipts) travel the same way and are left
out.

### OutboxPromise and OutboxRefinement

`OutboxPromise` has three variables: the fate of a row (unborn, owed, delivered,
given up, forgotten), how often it was offered, and whether the peer has taken it,
that is, begun to store or execute it. A row is delivered only if taken, given up
only after enough offers, offered only while it is owed, and forgotten only when
settled. The promise ends there because the queue keeps no more: whether the peer
finished what it began is the business of `OutcomeIsEarned`. `OutboxRefinement`
reads `fate` off the status column (a row in flight is as much owed as a pending
one), `tried` off the forwards made and `taken` off the peer, and states as
`KeepsPromise` that every step of the queue is a step of the promise; this includes
`FinalIsFinal`. It holds (and is proved) for one worker, which is how the systemd
timer runs it; with two, a worker with a stale copy may reopen a settled row (see
"Claims").

### DeadManSwitch: state and actions

`row[d]` is a switch with its status, the age of its last check-in, whether the
payload is still there, and who is marked delivered; `rowLock` and `quotaLock`
are the row lock and the advisory lock, with their holder. `seen` is the age of
`last_seen_at`, `strict` the owners who have used a signed check-in, `handler[h]`
a request between its lock and its commit, with the age of its clock reading,
`pass` the reaper process with its batch and the delivery it is in the middle of
(`open`). `queued` are the metadata keys of the envelopes of fired switches: their
ids are derived from switch and recipient, so one whose key is there is not queued
again. `copies`, `told` and `halfway` (deliveries cut short inside
`enqueue_envelope`: the key without the envelope, or the envelope with an error) are
history.

| Code | Actions |
|---|---|
| `create_dms` | `CreateCount` (advisory lock and count), `CreateCommit` |
| `check_in`, `check_in_signed`, the bump of every authenticated request | `CheckInLock`/`CheckInCommit`, `CheckInSigned`/`SignedCommit`, `Request`/`BumpCommit` |
| `cancel_dms` | `CancelLock`, `CancelCommit`; `Rollback` when the proof is refused or the database raises |
| `delete_me`, `reap_anonymous_users`, `reap_terminal_dms` | `AccountDelete`, `ReapAnonymous`, `ReapTerminal` |
| `fire_dms_switches` | `PassStart` (the clock), `PassSelect` (FOR UPDATE SKIP LOCKED), for each recipient `PassSkips` (a duplicate) or `PassClaims` (SET NX) and `PassInserts` (EVAL), `PassClaimFails`, `PassInsertFails` (with and without effect), `PassCommit` (the one commit), `PassDies` |
| outside | `Taken`, `Tick` |

Abstractions: ages replace clock readings and stop at `Horizon`, so time has no
bound; `Delay` bounds how long a handler or a pass takes; the storage quota is
left to the count of switches; the retention of ended switches is any time; the
payload is there or scrubbed.

### GroupMembership: state and actions

`group` and `members` are the database, `rowLock` the group's row under FOR
UPDATE, `token` and `listed` the Redis keys of the invite tokens. A handler
keeps the members it has read (`seen`). `admitted`, `revoked` and `raced` are
history; `raced` records that some join committed on a stale count.

| Code | Actions |
|---|---|
| `create_group`, `delete_group` and `reap_expired_groups`, `reap_anonymous_users` | `CreateGroup`, `DeleteGroup`, `ReapMember` |
| `add_member` | `AddLoad`, `AddLock` (the lock and the fresh count), `AddCommit` |
| `remove_member` | `RemoveLoad`, `RemoveCommit` |
| `create_token` | `InviteLoad`, `InviteCreate`, `InviteRefused` (one EVAL) |
| `revoke_token`, `list_tokens` | `RevokeLoad`, `RevokeExec`, `ListRead`, `ListClean` |
| `join_via_token` | `JoinConsume` (GETDEL), `JoinLoad`, `JoinCommit` |
| exceptions and death | `Rollback` |

Abstractions: one group, whose creator is its only admin; an insert waits for a
FOR UPDATE of the group's row, as the foreign key makes it.

### GroupReplication: state and actions

`members`, `live` are the group on its host, `shadow`, `known` its mirror on the
peer. `rows` are the unsettled outbox rows of both relays and `ids` the ids ever
used, which is how a second row of the same event is suppressed. `got` and
`meta` are the inboxes and the metadata keys, `old` the messages past the 300 s
window. `stamp` is how long ago, or how far ahead, the ts of the signed end of the
group is, and `claims[relay][event]` the seconds the key of the replay guard has left:
the guard sets it to one window from now, while a ts up to one window ahead is
accepted. The rest bounds or records history.

| Code | Actions |
|---|---|
| `add_member`, `remove_member`, `join_via_token`, `delete_group` | `Add`, `Remove`, `Join`, `DeleteGroup` (the local announcement, the row for the peer, the commit); `DeleteGroupTorn` when the commit fails after the announcement |
| `apply_group_snapshot`, pushed or pulled | `SnapshotPush`, `Pull` |
| `send_group_message` on either relay, `do_group_fanout` | `SendAtHost`, `SendAtPeer`, `FanOut`; `FanOutTorn` when the commit fails after Redis |
| `_handle_group_forward`, both modes | `ToHost`, `Deliver` |
| `delete_group_message` on either relay | `DeleteAtHost`, `DeleteAtPeer` |
| `_handle_group_delete_to_host`, `_handle_group_delete_deliver` | `DeleteToHost`, `DeleteDeliver` |
| `_handle_group_gone` | `GroupGone` |
| ACK, time, the outbox | `Ack`, `Age`, `Tick`, `Settle` |

Abstractions: one peer; a handler is one step, except where Redis and the database
part ways, so two deletions of the group that overlap on the host are not looked at;
a deletion of a message may be accepted whatever its ts, so its replay key expires
but its signature does not; signatures are assumed checked, so a delete names who
signed it; a snapshot row names the change it was taken after.

### Sessions: state and actions

One user. `key[t]` says how the session key of `t` is stored: not at all, in
plain by the first version ("raw"), hashed without a date ("bare"), or hashed
with `created_at` ("dated"); `left` and `age` are its TTL and its age, `index`
and `indexLeft` the reverse set with its TTL. `h[p]` is a request: its label is
the Redis call it is about to make. `sock[s]` is a socket, bound to a token or
opened by a ticket.

| Code | Actions |
|---|---|
| `request_challenge`, `verify_challenge`, `create_session` | `RequestChallenge`, `VerifyChallenge`, `CreateForward`, `CreateReverse`, `CreateExpire` |
| `verify_session_token` | `Request`, `VerifyGet`, `VerifyGetRaw`, `VerifyMigrate`, `VerifyCap`, `VerifyCapIndex`, `VerifySlide`, `VerifySlideIndex` |
| `revoke_session`, `revoke_all_sessions`, the event | `LogoutDelete`, `LogoutIndex`, `RevokeList`, `RevokeKeys`, `RevokeIndex`, `Publish` |
| tickets, handshake | `IssueTicket`, `ConnectTicket`, `ConnectToken`, `Subscribe`, `GoAway` |
| `reader_task`, `pinger_task` | `HearRevoked`, `Ping` |
| failures, time | `Fault`, `Disconnect`, `Tick` |

Abstractions: a unit of time is a day, so time passes between requests only, and
challenges and tickets, which live for seconds, end with it; the GET and the DEL
of `revoke_session` are one step; tokens are never guessed.

### Inbox: state and actions

One user. `inbox` are the pending messages in order, `pc[s]` where the handler of
a socket is, `events[s]` what it has been published and not read, `heard[s]` what
its client was told. `slots` is the sorted set of connections, `active` and `key`
the presence counter and whether it has a TTL, `subs` the push subscriptions.
`posting` are the messages a sender has inserted and not yet published. The history
variables record what a property excepts: messages in the gap before the
subscription, above the catch-up limit, or never published (`silent`), lost
decrements, sockets let in without a slot or that lost it.

| Code | Actions |
|---|---|
| `reserve_ws_slot` | `Reserve`, `RollBack` |
| `inbox_socket` up to the tasks | `AcceptFails`, `Incr`, `Expire`, `CatchUp`, `Subscribe` |
| `enqueue_envelope` as a socket sees it | `Insert` (EVAL), `Publish` or `PublishFails` (the closing MULTI) |
| the three tasks | `Read`, `Ack`, `Ping` |
| the `finally` clause | `Close`, `Decr`, `DeleteCounter`, `Release` |
| `api/push.py` | `PushSubscribe`, `PushSubscribeNative`, `PushUnsubscribe` |
| `delete_me` | `AccountDeleted` |
| the server, time | `Crash`, `CounterExpires`, `CounterLapses` (the refreshes of live sockets failed), `SlotExpires` (of a closed socket, or of a live one whose refreshes failed) |

Every Redis call of a socket's handler has its `except` clause as a branch, the two
swallowed ones of `Ping` too. A live socket loses its counter or its slot to time only
when its refreshes have failed or were held up, which counts as a fault.
`trigger_push` is the predicate `Online`; what a provider does with a
notification is outside.

## Properties and runs

`CHECK_DEADLOCK FALSE` is set because the model's inputs are bounded (time, sends,
requests, rows, tokens): when they are used up the model stops, and the system
would not.

| Run | Instance | Result |
|---|---|---|
| `mailbox_mixed` | a group message and a DM to one inbox of depth 1, two handlers, one failed call or lost reply, two TTLs | `HardCap`, `ListedHasBlob` hold |
| `mailbox_group` | a group message to two members, three handlers, one fault, one crash, two TTLs | `TypeOK`, `QueuedIsDeliverable`, `WaitingIsTracked`, `RecallIsFinal` hold |
| `mailbox_reaper` | a sealed message and a group message with only remote members, full scan, one crash, fairness | `OrphansAreReaped` holds |
| `mailbox_resend` | one DM sent twice, three handlers, no failures | `DuplicateIsNotLost` holds |
| `mailbox_key_ttl` | two envelopes with TTLs 1 and 4, slack 1 | `KeyOutlivesContent` is violated |
| `federation_worker` | one worker, a message and its delete, batches of two, two attempts, a peer that answers late, twice, wrongly or not at all | `TypeOK`, `UnsentHasPayload`, `OutcomeIsEarned`, `AttemptsAreCounted`, `KeepsPromise` hold |
| `federation_settle` | two workers on one row, one failed call or death of a worker or of a handler of the peer, fairness | `EveryRowSettles` holds |
| `switch` | two switches of one owner, quota 1, two recipients, two handlers, one sign of life or cancellation, one delivery that raises or pass that dies at any call of the enqueue, fairness | `TypeOK`, `ActiveQuota`, `EachRecipientOnce`, `OnlySilentOwners`, `OnlyArmedSends`, `SilentSwitchFires` hold |
| `group_membership` | four users, a group of two, three tokens of which two may live, two handlers, three requests besides joins, fairness | `TypeOK`, `MemberCap`, `TokenIsSpentOnce`, `LiveTokensAreListed`, `RequestsEnd` hold |
| `group_replica` | two local users and a remote one, two membership changes, a message from either side, one delete, one fault, windows of one tick | `TypeOK`, `OnlyMembersTalk`, `NobodyIsForgotten`, `OnlyOwnersDelete`, `GoneIsToldOnce` hold |
| `sessions` | a new and an old-style token, two requests at a time, three in all, one socket, one ticket, one fault, fairness | `TypeOK`, `CeilingHolds`, `IndexCoversLive`, `RevokedStaysDead`, `SocketCloses` hold |
| `inbox` | two sockets, limit 1, two messages, catch-up of one, one fault, fairness | `TypeOK`, `SlotCap`, `OnlineIsEarned`, `OpenSocketHears`, `PushResumes` hold |

`mailbox_key_ttl` states what a comment says and TLC contradicts: `EXPIRE`
without `GT` lets a short-lived envelope pull the deadline of the whole inbox key
before the expiry of an older, longer-lived one. `findings` in `PROJECT.json`
quotes the line.

Several properties name their own exceptions, because the code has them: `MemberCap`
allows a join on a stale count to pass the cap by less than the requests in flight
(`join_via_token` takes no lock); `NobodyIsForgotten` excepts a message whose
fan-out was not committed; `GoneIsToldOnce` allows one repetition for each failed
commit and each time the replay guard was unavailable, and two more on the peer for
an event that was claimed before its ts had passed; `OutcomeIsEarned` excepts a
message whose handler on the peer ended between SET NX and the EVAL, by a death, a
full inbox or a failed call, since a retry in between is answered as a duplicate;
`SocketCloses` excepts a ticket socket whose user's index a failed login or
migration left without a TTL; `SlotCap` leaves out sockets let in while Redis failed
and live ones whose slot expired; `IndexCoversLive` and `RevokedStaysDead` except a
session that was being created or migrated while another request revoked;
`OpenSocketHears` excepts messages above the catch-up limit, in the gap before the
subscription, and those whose sender failed or died between the EVAL and the
PUBLISH; `PushResumes` excepts a failure between INCR and EXPIRE;
`EachRecipientOnce` allows one more copy per dead pass and per delivery that raised
after its own insert, and excepts a recipient whose metadata key such a failure left
without the envelope; `DuplicateIsNotLost` is about a recipient with no other mail,
which could fill the inbox or cut its key's TTL, and `ListedHasBlob` about a relay
without the full scan.

### Claims the code does not meet

The modules also define properties that say literally what a comment of the
repository says, and that TLC refutes when they are added to the configuration
named here (as an INVARIANT, or as a PROPERTY where the definition is temporal):

* `Mailbox.DedupMeansQueued` (`queue.py:139`, `queue.py:461`), in `mailbox_resend`
  with `MaxCrashes = 1`: the handler dies after SET NX and before the EVAL; the
  retry finds the key and the sender is told "already queued". The message is in no
  inbox. It is also violated without a crash, with `Envelopes = {d1, d2}`: the retry
  is answered between the claim and the EVAL, and the EVAL finds the inbox filled by
  other mail.
* `Mailbox.QueuedBlobUntouched` (`reaper.py:213`), one DM with `FullScan = TRUE`:
  the scan's EXISTS falls between the writer's rename and its SET.
* `FederationOutbox.FinalIsFinal` with two workers, against "safe to run multiple
  instances concurrently" (`federation_worker.py:17`), in `federation_settle`: a
  worker whose forward failed is held up past the in-flight timeout; a second one
  recovers, delivers and scrubs the row; the first writes its failure (PENDING, or
  DEAD_LETTER after the last attempt) over it.
* `FederationOutbox.DeleteIsEffective` (`messages.py:668`), in
  `federation_worker`: a forwarded delete overtakes its message, is accepted as
  "not found", and the message is queued afterwards.
* `GroupReplication.EventIsSpentOnce` (`federation.py:204`), in `group_replica`: the
  replay key lives one window from its claim, but a ts of up to one window ahead is
  accepted, so the signature outlives the key and the repeated row is spent again.
* `DeadManSwitch.ArmedIsNotReaped` (`cleanup.py:163`), in `switch`: ARMED is
  "never touched" by `reap_terminal_dms`, but `reap_anonymous_users` in the same
  file removes an inactive anonymous owner with armed switches.
* `GroupReplication.LatestSnapshotWins` (`groups.py:637`), in `group_replica`: the
  last snapshot to arrive wins, `snapshotted_at` is not looked at.
* `Sessions.EveryCeilingHolds` (`sessions.py:54`), in `sessions` with
  `Bare = {b1}`: a hashed session without `created_at` gets the current time as
  its age at every use, and slides for ever.
* `Sessions.EverySocketCloses` (`inbox.py:356`), in `sessions`: a ticket socket is open,
  its user logs out, and a login dies between SADD and EXPIRE. The index then counts one
  session for ever, `has_any_live_session` says yes, and the socket is never closed.
* `Inbox.OpenSocketHearsAll` (docstring of `inbox.py`), in `inbox`: a message that
  comes between the listing and the subscription is in no frame until the next
  connection.
* `Inbox.StaleCounterExpires` (`inbox.py:163`), in `inbox`: a crash between INCR
  and EXPIRE leaves a counter without a TTL, and no push is sent.

### Observations

Met while modelling, with no property of their own:

* The indexed reaper pass drops a due candidate from the index even when its
  metadata is still there, so that blob waits for the daily scan. A recipient who
  acknowledges between the EVAL and the closing MULTI finds no pending set, so
  metadata and blob stay until the TTL.
* Joins neither lock the group nor send a snapshot to peers, and the token is
  spent even when the group turns out to be full.
* The host claims a delete before it authorises it, so a refused delete that is
  repeated is answered as a replay. A deliver row repeated after the delete
  queues the message again. Group messages older than 300 s are refused, while
  the outbox keeps retrying for hours. A `group_gone` does not mark the shadow.
* `reap_anonymous_users` may remove the creator of a group and leave it without
  an admin.
* A dead pass of the switch reaper sends its deliveries again: all of them are in
  one commit, although its docstring says only the missing ones are redelivered.
* What `DedupMeansQueued` shows of one relay has consequences elsewhere. A handler of
  the peer that dies between SET NX and the EVAL makes the retry of the outbox row
  SUCCEED with nothing in any inbox (`OutcomeIsEarned` names the case), and a pass of
  the switch reaper that dies there makes the next one mark the recipient delivered,
  fire the switch and scrub the payload (`EachRecipientOnce`).
* A live socket that misses its refreshes for 90 s loses its slot to the next handshake
  and takes it back at its next ping, above the limit.
* A session created or migrated during `revoke_all_sessions` survives outside the
  index; `has_any_live_session` counts expired sessions; two requests racing to
  migrate one old token may get a spurious 401.
* Early returns of `inbox_socket` skip the decrement of the presence counter.
  `push_sender` deletes dead subscriptions in a session nobody commits.

### Bounds

Mailbox: depth 1 and two envelopes make a full inbox, a refusal and its clean-up
happen with two handlers; two members are enough for a first and a last ACK, and
a third handler for a send or delete beside both. TTL 1 and a window of 1 let an
envelope expire before, during and after its send, and TTL 2 beside it lets a
send prune an expired row and take its place; the ceiling of 2 can bind for
TTL 2. One fault reaches each `except` clause once. `MaxSends = 1` restricts most
passing invariants to envelopes that are sent once, and they say so themselves:
with a retry and a crash the first claim above already breaks them.

Outbox: two attempts stand for eleven (a first failure that is retried and a last
one that is not), every limit is one tick and the horizon two, so that each
comparison is reached on both sides; two rows are a message and its delete. With
several steps per message on the peer this is what fits, without faults: that the four
invariants and `KeepsPromise` also hold when database calls fail and workers and
handlers die is what the theorems add. `federation_settle` has a failure and two
workers, enough for a stale copy and a recovered row, on one row with one attempt.

Switches: a quota of 1 with two switches lets creations race for the last place;
two recipients let one delivery fail and the other succeed; a trigger of 2 and a
delay of 1 put each comparison on both sides, with a stale clock reading on
either; one sign of life at any moment is what can race with a pass.

Membership: a group of two with a creator and three others makes adds and joins
race for one place; three tokens of which two may live reach the refusal. A third
concurrent handler adds no new kind of pair.

Replication: two changes are an addition and a removal, or an addition beside it, so
that a shadow can be one and two changes behind; windows of one tick let an event be
claimed before, at and after its ts, and again after its key has expired; senders on
both relays take both paths to the host.

Sessions: TTL and ceiling of 2 days let a used session reach the ceiling and an
unused one expire; three requests are a use, a revocation and a use after it; one
old token covers the migration (a migrated session at its ceiling takes a fourth
request, and is left to the theorem). `delete_me` gives up its revocation after
three tries; the model lets it try once more after every fault. Inbox: a limit of 1
with two sockets is a full house; two messages with a catch-up of 1 put one above
the limit.

The mutants in `PROJECT.json` replace one definition each (the cap off by one, a
missing lock, an error path that keeps metadata, a plain SELECT for a locking one,
a GET for a GETDEL, and so on) and are defined beside the original as "faulty
variant". Each is caught by the property it is listed with.

### Fairness

* `Mailbox`: every running handler, the reaper, Redis expiry and the clock
  proceed: coroutines are run by the event loop, systemd timers restart the
  reaper after every pass and every death, and Redis expires keys actively.
* `FederationOutbox`: the worker's steps and the clock; the timer starts it every
  12 seconds and its HTTP calls time out. Nothing is assumed of the peer.
* `DeadManSwitch`: handlers end (with a commit or a roll-back), the hourly timer
  starts a pass and the pass goes on, time passes. Nobody has to check in.
* `GroupMembership`: the event loop runs every handler. No client has to ask.
* `Sessions`: requests and socket tasks are run by the event loop, the pinger
  fires, time passes.
* `Inbox`: a counter with a TTL that nobody refreshes expires.

Crashes and faults are bounded everywhere: liveness is claimed for a system that
stops failing.

## Proofs

Every safety property that a passing run checks, invariant or action property, is
also a theorem, for every value of the constants that the assumptions below admit; only
liveness is left to TLC. Few
of these properties are inductive; below, each theorem comes with the stronger
invariant it rests on.

### Mailbox

`MailboxProofs`, for every finite set of envelopes, every set of users and
handlers and every value of the numeric constants:

* `TypeCorrect`: `TypeOK` is inductive. The interesting part is `life \in Nat`: a
  handler never carries a negative TTL to Redis, because the expiry test and the
  clock reading are one step.
* `HardCapHolds`, from `CapHolds` (the cap for direct rows always, for all rows
  while no fault happened) and `LabelInv` (only a group send is at a fan-out
  label, and the fail-open label is reached only after a fault, which confines the
  overshoot). `InsertCap` is the core: the script counts exactly the rows it
  keeps, so the result is within the cap whatever time the caller passed and
  however stale it is; `ShrinkCap` covers every other step.
* `RecallIsFinalHolds` and `WaitingIsTrackedHolds`, from `OnceInv`: while no fault
  happened, `Once(e)` holds of every envelope sent at most once. `Once` ties the
  one send, the ACKs and the deletes of an envelope to its rows, its metadata and
  its pending set. There is one sender at most; before its claim nothing is in Redis;
  while it is undone there are no rows and no ACKs; while it inserts, rows have the
  score of the metadata and nobody can be the last to acknowledge; an ACK comes
  after its row is gone, the last one after all are; a live row expires with its
  metadata, and recalled metadata never comes back. Neither property is inductive
  alone: what a handler carries between two awaits may be out of date.
* `QueuedIsDeliverableHolds`, from `OnceInv` and `KeptInv`: with the full scan off,
  the blob is there while a send holds it or a row is live, and the reaper has
  picked only envelopes nobody sends or lists.
* `ListedHasBlobHolds`, from `BackedInv`: with the full scan off and at most one
  fault, in a handler or in the reaper, `Backed(e)` holds of every envelope sent at
  most once. `OnceInv` is of no use here, since it ends with the first fault. `Backed`
  is about fewer things and survives one: a send is alone, counts on its blob from
  the claim on, and its rows have one score; before the index entry is written the
  reaper cannot see the envelope; the last ACK deletes the metadata before the blob.
  The part that needs care is the clean-up of a refused send. It deletes metadata,
  then blob, and each of the two calls may fail: with no fault so far there are no
  rows (`undo`), and afterwards either the metadata is gone or there never were rows
  (`scrub`). A lost reply of the EVAL followed by a failed DEL would break it, and is
  two faults.
* `DuplicateIsNotLostHolds`, from `OrderInv` and `DupInv`, for any number of sends of
  one envelope, which is what `Once` leaves out. `OrderInv` ties handlers, rows and
  requests together: a handler serves an envelope that was sent and touches only the
  inboxes of its recipients, the expiry it carries follows from the sender's ttl or
  from the ceiling, and an ACK has left its tombstone before it releases anything.
  `DupInv` says where an envelope can be: settled (taken, being marked as taken, or
  out of time), unclaimed with nobody told anything, claimed by exactly one send that
  is about to insert it, or in the inbox with the score of its metadata, under a key
  that lives as long, and no send left that could undo it. `InsertPromised` is the
  core: the recipient has no other mail, so the insertion of the one owner has room.

Most of the thirty-odd steps only take something away from an envelope. `Fades(e)`
says so once (rows and keys go, handlers end, turn to the undoing or go on with an
ACK) and `OnceFades` shows that this keeps `Once(e)`. Five steps add something and
have a lemma each: `AcceptOnce`, `ClaimOnce`, `InsertOnce`, `PublishOnce`, `AckOnce`.
The two later proofs are built the same way: `OtherBacked` and `QuietPromised` take
the steps that add nothing, `EndingBacked`, `TowardsBacked` and `WritingBacked`, and
`ClaimPromised`, `InsertPromised` and `PublishPromised`, the others.

The proof of `DuplicateIsNotLost` has shaped its statement. An earlier form did not
mention other mail and took the ttl for the only deadline; it held in
`mailbox_resend`, whose instance has one envelope and a ceiling no shorter than the
ttl, and is false for other constants: other mail may fill the inbox between the
claim and the insertion, or cut the TTL of the inbox key, and a ceiling shorter
than the ttl ends the envelope's time first. `OnlyMail` and `Deadline` say so.
`ListedHasBlob` likewise names the full scan, which its run has switched off.

### FederationOutbox and its refinement

`FederationOutboxProofs`, for every finite set of rows, every set of workers,
handlers and messages, and every limit and back-off table:

* `FederationTypeCorrect`, which includes that a row never counts more than
  `MAX_ATTEMPTS` attempts;
* `OutcomeIsEarnedHolds`. The invariant adds `RowInv` (attempts never exceed the
  forwards made; unfinished rows are below the limit), `HeldInv` and `SettleInv`
  (the same for the copies in the memory of each worker, and a worker with good news
  has true news), `WireInv` and `KeyInv` (what the peer has claimed or keyed, it has
  begun) and `EndInv` (a message the peer has begun has arrived, was dropped, or has
  its winner on the wire). The argument is monotonicity: history only grows, so a
  stale copy is wrong about the row but never ahead of what happened; `Transfer`,
  `HeldKept`, `SettleKept` and `WireKept` say so once, and each action shows only
  what it adds.

`OutboxRefinementProofs`, under the hypothesis `OneWorker` (no two workers, as the
oneshot unit of systemd runs it), for any number of rows, crashes and faults:

* `KeepsPromiseHolds`: `FederationOutbox` implements `OutboxPromise`. The initial
  states are mapped to initial ones (`PromiseInit`) and every step to a step of the
  promise or to a stutter (`PromiseStep`);
* `UnsentHasPayloadHolds`, `AttemptsAreCountedHolds`, and `FinalIsFinalHolds`, which
  is what migration 005 says and what two workers that overlap break (see
  "Claims").

The invariant `SoloInv` says why one worker is enough: `WorkInv` (its copies are
current: what is in its batch is pending, what it works on is in flight, and the
attempts it remembers are those of the table), `CountInv` (forwards are counted but
for the one under way and those a failure lost) and `SentInv` (what is on the wire
was sent). `WorkInv` is what a second worker destroys.

### DeadManSwitch

`DeadManSwitchProofs`, for any finite set of switches and any handlers:

* `SwitchTypeCorrect`;
* `ActiveQuotaHolds`: `LockInv` (who is in a critical section holds its lock, and
  what it locked is as it found it) and `QuotaInv` (a creation past the count still
  has room);
* `OnlyArmedSendsHolds`: with `LockInv`, `TodoInv` (what a pass has to deliver
  belongs to switches it holds);
* `OnlySilentOwnersHolds`: `SilenceInv` relates the age of the row and the owner's
  last sign of life, which differ by the time a request may take, and keeps the
  silence of those the pass holds, whatever time the pass takes;
* `EachRecipientOnceHolds`: `CopyInv` counts the copies of each recipient before,
  during and after the pass that works on it, and says that a metadata key stands for a
  copy, for the delivery under way, or for one that was cut short. Only a dead pass, or
  a delivery that raised after its insert, loses the mark of a copy.

### GroupMembership

`GroupMembershipProofs`, for any finite sets of users, tokens and handlers:

* `MembershipTypeCorrect`;
* `TokensAreSpentOnce`: by `TokenInv` a token that was taken with GETDEL is held by one
  handler, and one that is alive or held was neither spent nor revoked;
* `LiveTokensStayListed`: by `ListInv` a handler that will drop entries from the
  set holds only tokens that are gone, so the creation script, which counts
  what is listed, counts all that lives;
* `MemberCapHolds`: `MemberInv` counts members and joins under way together,
  `members + joining < MaxMembers + handlers`. That is inductive where the cap is
  not: a join adds to one what it takes from the other.

### GroupReplication

`GroupReplicationProofs`, for any finite set of users and any messages:

* `ReplicationTypeCorrect`, with `SnapshotsListCreator`;
* `OnlyMembersTalkHolds`: by `TalkInv` a delivery row on its way names only members at
  the time of the fan-out;
* `NobodyIsForgottenHolds`: by `QueuedInv` the row of a message fanned out to the peer
  was queued with it, unless the commit failed, and is never queued anew;
* `OnlyOwnersDeleteHolds`, and `GoneIsToldOnceHolds` by `GoneInv`: each announcement
  is paid for by the deletion on the host, by a claim of the replay guard on the peer or
  by a failure. Claims lie a window apart; a `ts` that has passed leaves time for one of
  them, one still ahead for three.

### Sessions

`SessionsProofs`, for any finite set of tokens and any handlers:

* `SessionsTypeCorrect`, from `HandlerInv`: a token being made belongs to one request;
* `CeilingIsHeld`: by `CeilingInv` a request that is about to slide a session has
  seen it below the ceiling;
* `RevokedSessionsStayDead`: `EntryInv` (what the index or a running revoke_all lists
  was made, and never has both forms while the key is raw) and `DeadInv` (a killed
  session is neither stored nor about to be stored by a migration);
* `IndexCoversLiveHolds`: `RemovalInv` (whoever drops an entry has dropped the session
  first) and `CoverInv` (the entry of a live session is there, and the index lives
  until the ceiling of a new session, or as long as the session itself for an old
  one not in the middle of a slide).

### Inbox

`InboxProofs`, for any finite sets of sockets and messages:

* `InboxTypeCorrect` and `OnlineIsEarnedHolds`: `CountInv` bounds the counter from both
  sides: by the sockets past their increment, by those past their decrement (below
  zero), and by those still counted plus the lost decrements. The bounds survive
  DEL and expiry, which an equation would not;
* `SlotCapHolds`: `SlotInv`, whoever got in with a slot still has it or is among those
  that lost it. ZADD comes before ZCARD, so the last of several racing handshakes has
  counted them all;
* `OpenSocketHearsHolds`: by `HearInv` a socket accounts for every pending
  message from the catch-up frame on, before and after it subscribes, and a message is
  published, about to be, or will never be.

### Assumptions

They are the named `ASSUME`s of the modules, which TLC evaluates in every run.
`Mailbox`: finite envelopes, at least one envelope and user, one recipient per
direct message, natural numbers, a cap of at least one. `FederationOutbox`: at least
one message and row, finitely many rows, a back-off for each attempt, a horizon
beyond every limit. `DeadManSwitch`: finitely many switches and at least one, each
with an owner and a recipient; no handler is called "free" or "reaper", the two
other values of a lock. `GroupMembership`: finite users, tokens and handlers, at
least one handler, none called "free". `GroupReplication`: finite users, each on one
relay, the creator on the host, windows of at least one tick. `Sessions`: finitely
many tokens, of one kind each; a TTL within the ceiling. `Inbox`: finite sockets and
messages, a limit and a catch-up of at least one. `OneWorker` is not an `ASSUME` but
a hypothesis of the four theorems that need it, since `federation_settle` runs two
workers.

### Only model-checked

Liveness: `OrphansAreReaped`, `EveryRowSettles`, `SilentSwitchFires`, `RequestsEnd`,
`SocketCloses`, `PushResumes`. Fairness and ENABLED are outside the prover.

## Not modelled, and the plan

In this order:

1. Burner links (the creation script of the invite tokens and a second one that
   counts messages), the outbound mail queue (the shape of the federation
   outbox), usernames and their change limits, read receipts and delivery tokens.
2. An abstract mailbox (a set of waiting pairs of user and envelope) that
   `Mailbox` implements while nothing fails.

Not modelled within the modelled components: receipts, lookups and handshakes of the
federation; several peers of one group; several admins; the advisory lock that
switch, mail and push quotas share; concurrent applications of two snapshots.

Left out for good: cryptography (assumed perfect), SMTP and MIME conversion,
push providers, configuration, ORM declarations, and operator scripts that write
a single row.
