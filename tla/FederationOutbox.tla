-------------------------- MODULE FederationOutbox --------------------------
(***************************************************************************)
(* How a relay hands messages, and the deletion of messages, to another     *)
(* relay: the table federation_outbound_queue filled by api/messages.py,    *)
(* the worker processes of scripts/federation_worker.py that empty it, the  *)
(* daily clean-up of cleanup.py, and the peer's POST /federation/forward.   *)
(*                                                                          *)
(* Every commit of the worker is one action.  A forward is a request on the *)
(* wire: the worker may stop waiting for the answer while the peer still    *)
(* works on it.  Clock values are kept relative to the present, so that     *)
(* time is unbounded: due is next_attempt_at - now, cut off at -Horizon.    *)
(***************************************************************************)
EXTENDS Integers, FiniteSets

CONSTANTS
    Messages,           \* envelope ids of messages to users of the peer
    RowIds,             \* primary keys of the table
    Workers,            \* worker processes that may run at the same time
    Handlers,           \* request handlers of the sending relay
    BatchSize,          \* BATCH_SIZE
    MaxAttempts,        \* MAX_ATTEMPTS
    Backoff,            \* Backoff[n]: seconds to wait after n failures
    InFlightTimeout,    \* IN_FLIGHT_TIMEOUT_SECONDS
    SucceededRetention, \* FED_SUCCEEDED_RETENTION_SECONDS
    DeadRetention,      \* FED_DEAD_LETTER_RETENTION_SECONDS
    Window,             \* a forward is accepted up to this age
    Horizon,            \* how far back the clock is told apart
    MaxFaults           \* bound: database and Redis calls that fail, and workers
                        \* and peer handlers that die, taken together

ASSUME SetsAssumption == Messages # {} /\ RowIds # {} /\ IsFiniteSet(RowIds)
ASSUME TimesAssumption ==
    /\ BatchSize \in Nat \ {0} /\ MaxAttempts \in Nat \ {0}
    /\ Backoff \in [1 .. MaxAttempts -> Nat]
    /\ InFlightTimeout \in Nat /\ SucceededRetention \in Nat
    /\ DeadRetention \in Nat /\ Window \in Nat /\ Horizon \in Nat
    /\ Horizon > InFlightTimeout /\ Horizon > SucceededRetention
    /\ Horizon > DeadRetention /\ Horizon > Window
    /\ MaxFaults \in Nat

VARIABLES
    rows,       \* the table
    handler,    \* requests between their SELECT and their commit
    worker,     \* the worker processes
    wire,       \* forwards the peer has not answered
    tries,      \* history: calls of remote_forward for each row
    meta,       \* messages with a metadata key on the peer
    queued,     \* messages in the recipient's inbox on the peer
    seen,       \* delete events with a morok:fed_seen key on the peer
    begun,      \* history: messages a handler of the peer has won the key of
    arrived,    \* history: messages that have been in the inbox
    dropped,    \* history: messages whose winner ended without the insert
    heard,      \* history: delete events the peer has begun to execute
    faults, crashes

peerVars == <<meta, queued, seen, begun, arrived, dropped, heard>>
vars == <<rows, handler, worker, wire, tries, peerVars, faults, crashes>>

----------------------------------------------------------------------------
Kinds    == {"dm", "dm_delete"}
Statuses == {"pending", "in_flight", "succeeded", "dead_letter"}

(* A row, before it is inserted ("free") and after clean-up ("deleted").    *)
(* data: is envelope_data still the payload, or has it been scrubbed to {}? *)
RowType == [kind : Kinds, msg : Messages,
            status : Statuses \cup {"free", "deleted"},
            attempts : 0 .. MaxAttempts, due : Int, age : Nat,
            data : BOOLEAN]

(* What fetch_pending_batch keeps of a row in memory.                       *)
CopyType == [id : RowIds, attempts : 0 .. MaxAttempts - 1, due : Int, data : BOOLEAN]

WorkerType == [pc : {"idle", "fetch", "claim", "forward", "wait", "settle"},
               batch : SUBSET CopyType, cur : CopyType, n : Nat, ok : BOOLEAN]

RequestType == [id : RowIds, n : Nat, data : BOOLEAN, age : Nat,
                pc : {"sent", "claimed"}]

NoRow  == [kind |-> "dm", msg |-> CHOOSE m \in Messages : TRUE,
           status |-> "free", attempts |-> 0, due |-> 0, age |-> 0,
           data |-> FALSE]
NoCopy == [id |-> CHOOSE r \in RowIds : TRUE, attempts |-> 0, due |-> 0,
           data |-> FALSE]
Resting == [pc |-> "idle", batch |-> {}, cur |-> NoCopy, n |-> 0, ok |-> FALSE]
NoRequest == [pc |-> "idle", kind |-> "dm", msg |-> CHOOSE m \in Messages : TRUE]

Init ==
    /\ rows = [r \in RowIds |-> NoRow]
    /\ handler = [h \in Handlers |-> NoRequest]
    /\ worker = [w \in Workers |-> Resting]
    /\ wire = {}
    /\ tries = [r \in RowIds |-> 0]
    /\ meta = {} /\ queued = {} /\ seen = {}
    /\ begun = {} /\ arrived = {} /\ dropped = {} /\ heard = {}
    /\ faults = 0 /\ crashes = 0

----------------------------------------------------------------------------
(* api/messages.py: the row is looked up, then added and committed.         *)

Exists(kind, m) == \E r \in RowIds : /\ rows[r].status \in Statuses
                                     /\ rows[r].kind = kind /\ rows[r].msg = m

(* The SELECT of the dedup found nothing; otherwise the request changes     *)
(* nothing.                                                                 *)
Lookup(h, kind, m) ==
    /\ handler[h].pc = "idle"
    /\ ~Exists(kind, m)
    /\ handler' = [handler EXCEPT ![h] = [pc |-> "insert", kind |-> kind, msg |-> m]]
    /\ UNCHANGED <<rows, worker, wire, tries, peerVars, faults, crashes>>

SendFederated(h, m) == Lookup(h, "dm", m)

(* A client deletes a message; whether it was ever sent, only the peer      *)
(* can tell.                                                                *)
DeleteFederated(h, m) == Lookup(h, "dm_delete", m)

Insert(h, r) ==
    /\ handler[h].pc = "insert" /\ rows[r].status = "free"
    /\ rows' = [rows EXCEPT ![r] =
                  [NoRow EXCEPT !.kind = handler[h].kind, !.msg = handler[h].msg,
                                !.status = "pending", !.data = TRUE]]
    /\ handler' = [handler EXCEPT ![h] = NoRequest]
    /\ UNCHANGED <<worker, wire, tries, peerVars, faults, crashes>>

----------------------------------------------------------------------------
(* scripts/federation_worker.py: run_once.                                  *)

(* recover_stuck_in_flight.                                                 *)
StuckNever(row) == FALSE                \* faulty variant: no recovery
StuckAny(row) ==                        \* faulty variant: any old row
    row.status \in Statuses /\ row.due < - InFlightTimeout
Stuck(row) == row.status = "in_flight" /\ row.due < - InFlightTimeout
Recover(w) ==
    /\ worker[w].pc = "idle"
    /\ \E r \in RowIds : rows[r].status \in {"pending", "in_flight"}
    /\ rows' = [r \in RowIds |-> IF Stuck(rows[r])
                                 THEN [rows[r] EXCEPT !.status = "pending"]
                                 ELSE rows[r]]
    /\ worker' = [worker EXCEPT ![w].pc = "fetch"]
    /\ UNCHANGED <<handler, wire, tries, peerVars, faults, crashes>>

(* fetch_pending_batch: the oldest BATCH_SIZE rows that are due.            *)
Ready == {r \in RowIds : rows[r].status = "pending" /\ rows[r].due <= 0}
IsBatch(B) ==
    /\ B \subseteq Ready
    /\ Cardinality(B) <= BatchSize
    /\ B # Ready => Cardinality(B) = BatchSize
    /\ \A r \in B, s \in Ready \ B : rows[r].due <= rows[s].due
Copy(r) == [id |-> r, attempts |-> rows[r].attempts, due |-> rows[r].due,
            data |-> rows[r].data]
Later(batch) == IF batch = {} THEN "idle" ELSE "claim"

Fetch(w) ==
    /\ worker[w].pc = "fetch"
    /\ \E B \in SUBSET RowIds :
         /\ IsBatch(B)
         /\ worker' = [worker EXCEPT ![w] =
                         [Resting EXCEPT !.pc = Later(B),
                                         !.batch = {Copy(r) : r \in B}]]
    /\ UNCHANGED <<rows, handler, wire, tries, peerVars, faults, crashes>>

(* The next row of the batch, in the order of the SELECT.                   *)
First(batch) == {c \in batch : \A d \in batch : c.due <= d.due}
Skip(w, c) == worker' = [worker EXCEPT ![w] =
                  [Resting EXCEPT !.pc = Later(worker[w].batch \ {c}),
                                  !.batch = worker[w].batch \ {c}]]

(* mark_in_flight: UPDATE ... WHERE status = pending, and next_attempt_at   *)
(* becomes now.                                                             *)
MayClaim(row) == row.status = "pending"
Claim(w) ==
    /\ worker[w].pc = "claim"
    /\ \E c \in First(worker[w].batch) :
         /\ MayClaim(rows[c.id])
         /\ rows' = [rows EXCEPT ![c.id].status = "in_flight", ![c.id].due = 0]
         /\ worker' = [worker EXCEPT ![w].pc = "forward", ![w].cur = c,
                                     ![w].batch = @ \ {c}]
    /\ UNCHANGED <<handler, wire, tries, peerVars, faults, crashes>>

(* Another worker has it, or has finished it.                               *)
ClaimLost(w) ==
    /\ worker[w].pc = "claim"
    /\ \E c \in First(worker[w].batch) : ~MayClaim(rows[c.id]) /\ Skip(w, c)
    /\ UNCHANGED <<rows, handler, wire, tries, peerVars, faults, crashes>>

(* remote_forward posts the payload that was read with the batch.           *)
Forward(w) ==
    LET c == worker[w].cur IN
    /\ worker[w].pc = "forward"
    /\ tries' = [tries EXCEPT ![c.id] = @ + 1]
    /\ wire' = wire \cup {[id |-> c.id, n |-> tries[c.id] + 1, data |-> c.data,
                           age |-> 0, pc |-> "sent"]}
    /\ worker' = [worker EXCEPT ![w].pc = "wait", ![w].n = tries[c.id] + 1]
    /\ UNCHANGED <<rows, handler, peerVars, faults, crashes>>

(* It raises or returns None: unreachable, timed out, an HTTP error on the  *)
(* way.  The request may still be with the peer.                            *)
GiveUp(w) ==
    /\ worker[w].pc = "wait"
    /\ worker' = [worker EXCEPT ![w].pc = "settle", ![w].ok = FALSE]
    /\ UNCHANGED <<rows, handler, wire, tries, peerVars, faults, crashes>>

Proceed(w) == worker' = [worker EXCEPT ![w] =
                  [Resting EXCEPT !.pc = Later(worker[w].batch),
                                  !.batch = worker[w].batch]]

(* mark_succeeded: whatever the status is now; the payload is scrubbed.     *)
Succeed(w) ==
    LET r == worker[w].cur.id IN
    /\ worker[w].pc = "settle" /\ worker[w].ok
    /\ rows' = IF rows[r].status = "deleted" THEN rows
               ELSE [rows EXCEPT ![r].status = "succeeded", ![r].age = 0,
                                 ![r].data = FALSE]
    /\ Proceed(w)
    /\ UNCHANGED <<handler, wire, tries, peerVars, faults, crashes>>

(* mark_retry_or_dead: attempts comes from the copy, and again the status   *)
(* is not asked.                                                            *)
FailedEarly(row, n) ==                  \* faulty variant: off by one
    IF n + 1 >= MaxAttempts
    THEN [row EXCEPT !.status = "dead_letter", !.attempts = n]
    ELSE [row EXCEPT !.status = "pending", !.attempts = n, !.due = Backoff[n]]
FailedLate(row, n) ==                   \* faulty variant: off by one
    IF n > MaxAttempts
    THEN [row EXCEPT !.status = "dead_letter", !.attempts = n]
    ELSE [row EXCEPT !.status = "pending", !.attempts = n, !.due = Backoff[n]]
FailedUncounted(row, n) ==              \* faulty variant: attempts not written
    IF n >= MaxAttempts
    THEN [row EXCEPT !.status = "dead_letter"]
    ELSE [row EXCEPT !.status = "pending", !.due = Backoff[n]]
Failed(row, n) ==
    IF n >= MaxAttempts
    THEN [row EXCEPT !.status = "dead_letter", !.attempts = n]
    ELSE [row EXCEPT !.status = "pending", !.attempts = n, !.due = Backoff[n]]
RetryOrDead(w) ==
    LET r == worker[w].cur.id IN
    /\ worker[w].pc = "settle" /\ ~worker[w].ok
    /\ rows' = IF rows[r].status = "deleted" THEN rows
               ELSE [rows EXCEPT ![r] = Failed(@, worker[w].cur.attempts + 1)]
    /\ Proceed(w)
    /\ UNCHANGED <<handler, wire, tries, peerVars, faults, crashes>>

(* run_once logs an exception of process_row and goes on: the UPDATE of     *)
(* mark_in_flight, or the one that settles the row, did not happen.         *)
RowFails(w) ==
    /\ faults + crashes < MaxFaults
    /\ faults' = faults + 1
    /\ \/ /\ worker[w].pc = "claim"
          /\ \E c \in First(worker[w].batch) : Skip(w, c)
       \/ worker[w].pc = "settle" /\ Proceed(w)
    /\ UNCHANGED <<rows, handler, wire, tries, peerVars, crashes>>

Crash(w) ==
    /\ worker[w].pc # "idle" /\ faults + crashes < MaxFaults
    /\ crashes' = crashes + 1
    /\ worker' = [worker EXCEPT ![w] = Resting]
    /\ UNCHANGED <<rows, handler, wire, tries, peerVars, faults>>

----------------------------------------------------------------------------
(* The peer: api/federation.py, _forward_impl.                              *)

(* The answer reaches the worker that still waits for this very request.    *)
Answer(q, ok) ==
    /\ wire' = wire \ {q}
    /\ worker' = [w \in Workers |->
         IF /\ worker[w].pc = "wait" /\ worker[w].cur.id = q.id
            /\ worker[w].n = q.n
         THEN [worker[w] EXCEPT !.pc = "settle", !.ok = ok]
         ELSE worker[w]]

Valid(q) == q.pc = "sent" /\ q.data /\ q.age <= Window
MsgOf(q) == rows[q.id].msg

(* Too old, scrubbed to {} (no valid inner signature), recipient gone,      *)
(* inbox full, envelope expired, Redis down: an HTTP error.                 *)
PeerRefuses(q) ==
    /\ q.pc = "sent"
    /\ Answer(q, FALSE)
    /\ UNCHANGED <<rows, handler, tries, peerVars, faults, crashes>>

(* A DM whose metadata key exists is a duplicate, for envelope_exists or    *)
(* for SET NX: accepted, and nothing is queued.                             *)
PeerKnows(q) ==
    /\ rows[q.id].kind = "dm" /\ Valid(q) /\ MsgOf(q) \in meta
    /\ Answer(q, TRUE)
    /\ UNCHANGED <<rows, handler, tries, peerVars, faults, crashes>>

(* enqueue_envelope: SET NX of the metadata key ...                         *)
PeerStarts(q) ==
    /\ rows[q.id].kind = "dm" /\ Valid(q) /\ MsgOf(q) \notin meta
    /\ meta' = meta \cup {MsgOf(q)}
    /\ begun' = begun \cup {MsgOf(q)}
    /\ wire' = (wire \ {q}) \cup {[q EXCEPT !.pc = "claimed"]}
    /\ UNCHANGED <<rows, handler, worker, tries, queued, seen, arrived, dropped,
                   heard, faults, crashes>>

(* ... the EVAL that inserts; the closing MULTI may still raise ...         *)
Storing(q) == rows[q.id].kind = "dm" /\ q.pc = "claimed"
PeerQueues(q) ==
    /\ Storing(q)
    /\ queued' = queued \cup {MsgOf(q)}
    /\ arrived' = arrived \cup {MsgOf(q)}
    /\ \E ok \in BOOLEAN : Answer(q, ok)
    /\ UNCHANGED <<rows, handler, tries, meta, seen, begun, dropped, heard,
                   faults, crashes>>

(* ... or the inbox is full or the EVAL raises, perhaps after the insert:   *)
(* the key is removed, unless the DEL fails too, and the answer is an error.*)
PeerBacksOut(q) ==
    /\ Storing(q)
    /\ \E in \in SUBSET {MsgOf(q)} :
         /\ queued' = queued \cup in /\ arrived' = arrived \cup in
         /\ dropped' = dropped \cup ({MsgOf(q)} \ in)
    /\ meta' \in {meta, meta \ {MsgOf(q)}}
    /\ Answer(q, FALSE)
    /\ UNCHANGED <<rows, handler, tries, seen, begun, heard, faults, crashes>>

(* _handle_dm_delete_forward: the event is claimed once ...                 *)
PeerClaims(q) ==
    /\ rows[q.id].kind = "dm_delete" /\ Valid(q) /\ MsgOf(q) \notin seen
    /\ seen' = seen \cup {MsgOf(q)}
    /\ heard' = heard \cup {MsgOf(q)}
    /\ wire' = (wire \ {q}) \cup {[q EXCEPT !.pc = "claimed"]}
    /\ UNCHANGED <<rows, handler, worker, tries, meta, queued, begun, arrived,
                   dropped, faults, crashes>>

(* ... a replay is accepted and does nothing ...                            *)
PeerReplay(q) ==
    /\ rows[q.id].kind = "dm_delete" /\ Valid(q) /\ MsgOf(q) \in seen
    /\ Answer(q, TRUE)
    /\ UNCHANGED <<rows, handler, tries, peerVars, faults, crashes>>

(* ... and when Redis fails the claim, the handler goes on without it.      *)
PeerClaimOpen(q) ==
    /\ rows[q.id].kind = "dm_delete" /\ Valid(q) /\ faults + crashes < MaxFaults
    /\ faults' = faults + 1
    /\ heard' = heard \cup {MsgOf(q)}
    /\ wire' = (wire \ {q}) \cup {[q EXCEPT !.pc = "claimed"]}
    /\ UNCHANGED <<rows, handler, worker, tries, meta, queued, seen, begun,
                   arrived, dropped, crashes>>

(* delete_envelope_by_sender; "not_found" is accepted as well.              *)
PeerDeletes(q) ==
    /\ rows[q.id].kind = "dm_delete" /\ q.pc = "claimed"
    /\ queued' = queued \ {MsgOf(q)} /\ meta' = meta \ {MsgOf(q)}
    /\ Answer(q, TRUE)
    /\ UNCHANGED <<rows, handler, tries, seen, begun, arrived, dropped, heard,
                   faults, crashes>>

(* The handler dies; the worker will see a broken connection.  What it has  *)
(* written to Redis stays.                                                  *)
PeerDies(q) ==
    /\ faults + crashes < MaxFaults
    /\ crashes' = crashes + 1
    /\ wire' = wire \ {q}
    /\ dropped' = IF Storing(q) THEN dropped \cup {MsgOf(q)} ELSE dropped
    /\ UNCHANGED <<rows, handler, worker, tries, meta, queued, seen, begun, arrived,
                   heard, faults>>

(* acknowledge_envelope: the recipient takes the message.  The metadata     *)
(* stays if the pending set is not written yet or its EVAL fails.           *)
PeerTakes(m) ==
    /\ m \in queued
    /\ queued' = queued \ {m} /\ meta' \in {meta, meta \ {m}}
    /\ UNCHANGED <<rows, handler, worker, wire, tries, seen, begun, arrived,
                   dropped, heard, faults, crashes>>

(* The TTL of the metadata and the score in the inbox are the same moment.  *)
PeerExpires(m) ==
    /\ m \in meta
    /\ queued' = queued \ {m} /\ meta' = meta \ {m}
    /\ UNCHANGED <<rows, handler, worker, wire, tries, seen, begun, arrived,
                   dropped, heard, faults, crashes>>

----------------------------------------------------------------------------
(* cleanup.py: reap_federation_queue.                                       *)
ReapableAny(row) ==                     \* faulty variant: no WHERE status
    row.status \in Statuses /\ row.due < - DeadRetention
Reapable(row) == \/ row.status = "succeeded" /\ row.age > SucceededRetention
                 \/ row.status = "dead_letter" /\ row.due < - DeadRetention
Cleanup ==
    /\ \E r \in RowIds : Reapable(rows[r])
    /\ rows' = [r \in RowIds |-> IF Reapable(rows[r])
                                 THEN [rows[r] EXCEPT !.status = "deleted",
                                                      !.data = FALSE]
                                 ELSE rows[r]]
    /\ UNCHANGED <<handler, worker, wire, tries, peerVars, faults, crashes>>

(* A second passes.  Beyond the horizon two ages are the same.  age is      *)
(* now - delivered_at; the next_attempt_at of a succeeded row is not read.  *)
OlderRow(row) ==
    IF row.status = "succeeded"
    THEN [row EXCEPT !.age = IF row.age < Horizon THEN row.age + 1 ELSE row.age]
    ELSE [row EXCEPT !.due = IF row.due > - Horizon THEN row.due - 1 ELSE row.due]
Older(q) == [q EXCEPT !.age = IF q.age < Horizon THEN q.age + 1 ELSE q.age]
Tick ==
    /\ rows' = [r \in RowIds |-> IF rows[r].status \in Statuses
                                 THEN OlderRow(rows[r]) ELSE rows[r]]
    /\ wire' = {Older(q) : q \in wire}
    /\ UNCHANGED <<handler, worker, tries, peerVars, faults, crashes>>

----------------------------------------------------------------------------
(* run_once, without failures.                                              *)
Work(w) == \/ Recover(w) \/ Fetch(w) \/ Claim(w) \/ ClaimLost(w) \/ Forward(w)
           \/ GiveUp(w) \/ Succeed(w) \/ RetryOrDead(w)

Request(h) == \/ \E m \in Messages : SendFederated(h, m) \/ DeleteFederated(h, m)
              \/ \E r \in RowIds : Insert(h, r)

Peer == \/ \E q \in wire : \/ PeerRefuses(q) \/ PeerKnows(q) \/ PeerStarts(q)
                           \/ PeerQueues(q) \/ PeerBacksOut(q) \/ PeerClaims(q)
                           \/ PeerReplay(q) \/ PeerClaimOpen(q) \/ PeerDeletes(q)
                           \/ PeerDies(q)
        \/ \E m \in Messages : PeerTakes(m) \/ PeerExpires(m)

Next == \/ \E w \in Workers : Work(w) \/ RowFails(w) \/ Crash(w)
        \/ \E h \in Handlers : Request(h)
        \/ Peer \/ Cleanup \/ Tick

Spec == Init /\ [][Next]_vars

(* A systemd timer starts the worker every 12 s, its calls return or time   *)
(* out, and time passes.  The peer need not answer anything.                *)
FairSpec == Spec /\ (\A w \in Workers : WF_vars(Work(w))) /\ WF_vars(Tick)

----------------------------------------------------------------------------
(* Properties.                                                              *)

(* The shape of the table, the workers and the requests on the wire.        *)
TypeOK ==
    /\ rows \in [RowIds -> RowType]
    /\ handler \in [Handlers -> [pc : {"idle", "insert"}, kind : Kinds,
                                 msg : Messages]]
    /\ worker \in [Workers -> WorkerType]
    /\ wire \subseteq RequestType
    /\ tries \in [RowIds -> Nat]
    /\ meta \subseteq Messages /\ queued \subseteq Messages
    /\ seen \subseteq Messages /\ begun \subseteq Messages
    /\ arrived \subseteq Messages /\ dropped \subseteq Messages
    /\ heard \subseteq Messages
    /\ faults \in Nat /\ crashes \in Nat

(* Has the peer begun to store, or to execute, what the row carries?        *)
Taken(row) == IF row.kind = "dm" THEN row.msg \in begun ELSE row.msg \in heard

(* What became of it: a DM has been in the inbox, or the handler that won   *)
(* the metadata key is still at work, or it died or failed before its EVAL. *)
Earned(row) ==
    IF row.kind = "dm"
    THEN \/ row.msg \in arrived \/ row.msg \in dropped
         \/ \E q \in wire : Storing(q) /\ MsgOf(q) = row.msg
    ELSE row.msg \in heard

(* No row is given up early, however many workers run, die and overtake     *)
(* each other and however late the peer answers.  A succeeded message was   *)
(* in the recipient's inbox, except when the handler that won its metadata  *)
(* key on the peer ended, or has yet to end, without the insert: a retry in *)
(* between is answered "duplicate_already_queued".  A succeeded delete was  *)
(* begun, a dead letter was really tried MAX_ATTEMPTS times, and clean-up   *)
(* removes only rows of which one of these is true (process_row,            *)
(* mark_retry_or_dead, reap_federation_queue, _forward_impl).               *)
OutcomeIsEarned ==
    \A r \in RowIds :
        /\ rows[r].status = "succeeded" => Earned(rows[r])
        /\ rows[r].status = "dead_letter" => tries[r] >= MaxAttempts
        /\ rows[r].status = "deleted" => \/ Earned(rows[r])
                                         \/ tries[r] >= MaxAttempts

(* A row that may still be sent has its payload: mark_succeeded never       *)
(* scrubs a row that is sent again.                                         *)
UnsentHasPayload ==
    \A r \in RowIds : rows[r].status \in {"pending", "in_flight"} => rows[r].data

(* The peer is not flooded: a row is forwarded once for each counted        *)
(* attempt, once more for each failure that lost the count, and once for    *)
(* the attempt that is under way or has succeeded (BACKOFF_SCHEDULE,        *)
(* MAX_ATTEMPTS).                                                           *)
AttemptsAreCounted ==
    \A r \in RowIds :
        tries[r] <= rows[r].attempts + crashes + faults
                    + IF rows[r].status \in {"in_flight", "succeeded", "deleted"}
                      THEN 1 ELSE 0

(* A finished row stays finished until clean-up: alembic 005 says "pending  *)
(* -> in_flight -> succeeded | dead_letter", and the worker "is designed to *)
(* be safe to run multiple instances concurrently".                         *)
FinalIsFinal ==
    [][\A r \in RowIds :
         rows[r].status \in {"succeeded", "dead_letter"} =>
             rows'[r].status \in {rows[r].status, "deleted"}]_vars

(* Every row is delivered or becomes a dead letter, although workers and    *)
(* peer handlers die and calls fail (recover_stuck_in_flight).              *)
EveryRowSettles ==
    \A r \in RowIds :
        rows[r].status = "pending" ~>
            rows[r].status \in {"succeeded", "dead_letter", "deleted"}

(* What api/messages.py says of a forwarded delete: the peer "also drops    *)
(* the message".  Once the row of the delete has succeeded, the message is  *)
(* not in the peer's queue.                                                 *)
DeleteIsEffective ==
    \A r \in RowIds :
        rows[r].kind = "dm_delete" /\ rows[r].status = "succeeded" =>
            rows[r].msg \notin queued
=============================================================================
