----------------------- MODULE OutboxRefinementProofs -----------------------
(* With one worker process at a time, as the systemd timer starts it, the    *)
(* federation queue keeps its promise.  Proved for any number of rows,       *)
(* messages, request handlers, faults and crashes and for any time limits.   *)
EXTENDS OutboxRefinement, FederationOutboxProofs

(* The unit of the worker is a oneshot service: two never overlap.           *)
OneWorker == \A v, w \in Workers : v = w

Busy == {"forward", "wait", "settle"}
Waits(w, r) == worker[w].pc \in {"wait", "settle"} /\ worker[w].cur.id = r

(* What the worker has in memory is what the table says: the copies of its   *)
(* batch are of pending rows, one of each, the row it works on is in flight, *)
(* and the counts of attempts are current.                                   *)
WorkInv ==
    \A w \in Workers :
        /\ worker[w].pc \in {"idle", "fetch"} => worker[w].batch = {}
        /\ \A c \in worker[w].batch : /\ rows[c.id].status = "pending"
                                      /\ c.attempts = rows[c.id].attempts
        /\ \A c, d \in worker[w].batch : c.id = d.id => c = d
        /\ worker[w].pc \in Busy =>
               /\ rows[worker[w].cur.id].status = "in_flight"
               /\ worker[w].cur.attempts = rows[worker[w].cur.id].attempts

(* Every forward is counted, but for the one under way and those whose count *)
(* a failure has lost.                                                       *)
Lost == crashes + faults
CountInv ==
    \A r \in RowIds :
        /\ rows[r].status = "free" => tries[r] = 0
        /\ tries[r] <= rows[r].attempts + Lost + 1
        /\ \/ rows[r].status \in {"pending", "dead_letter"}
           \/ rows[r].status = "in_flight" /\ \A w \in Workers : ~Waits(w, r)
           => tries[r] <= rows[r].attempts + Lost

(* What is on the wire was sent.                                             *)
SentInv == \A q \in wire : tries[q.id] > 0

SoloInv == WorkInv /\ UnsentHasPayload /\ CountInv /\ SentInv

----------------------------------------------------------------------------
(* A row of which only the clock values may change.                          *)
Same(r) == /\ rows'[r].kind = rows[r].kind /\ rows'[r].msg = rows[r].msg
           /\ rows'[r].status = rows[r].status /\ rows'[r].data = rows[r].data
           /\ rows'[r].attempts = rows[r].attempts

(* Steps that leave the rows and their attempts alone: no wait for an answer *)
(* ends without a settled row, unless a failure is counted.                  *)
LEMMA CountKept ==
    ASSUME Inv, TypeOK', CountInv, UnsentHasPayload,
           \A r \in RowIds : Same(r), tries' = tries, NEW k \in Nat,
           Lost' = Lost + k,
           k > 0 \/ \A w \in Workers, r \in RowIds : Waits(w, r) => Waits(w, r)'
    PROVE  CountInv' /\ UnsentHasPayload'
<1>1. Lost \in Nat /\ Lost' \in Nat
  <2>1. Lost \in Nat
    BY DEF Lost, Inv, TypeOK
  <2>2. QED
    BY <2>1
<1>2. UnsentHasPayload'
  BY DEF UnsentHasPayload, Same
<1>3. ASSUME NEW r \in RowIds
      PROVE  /\ rows'[r].status = "free" => tries'[r] = 0
             /\ tries'[r] <= rows'[r].attempts + Lost' + 1
             /\ \/ rows'[r].status \in {"pending", "dead_letter"}
                \/ rows'[r].status = "in_flight" /\ \A w \in Workers : ~Waits(w, r)'
                => tries'[r] <= rows'[r].attempts + Lost'
  <2>1. tries[r] \in Nat /\ rows[r].attempts \in Nat
    BY TimesAssumption DEF Inv, TypeOK, RowType
  <2>2. tries[r] <= rows[r].attempts + Lost + 1
    BY DEF CountInv
  <2>3. \/ rows[r].status \in {"pending", "dead_letter"}
        \/ rows[r].status = "in_flight" /\ \A w \in Workers : ~Waits(w, r)
        => tries[r] <= rows[r].attempts + Lost
    BY DEF CountInv
  <2>4. Same(r)
    OBVIOUS
  <2>5. rows'[r].status = "free" => tries'[r] = 0
    BY <2>4 DEF Same, CountInv
  <2>6. tries'[r] <= rows'[r].attempts + Lost' + 1
    BY <1>1, <2>1, <2>2, <2>4 DEF Same
  <2>7. CASE k > 0
    <3>1. tries'[r] <= rows'[r].attempts + Lost'
      BY <1>1, <2>1, <2>2, <2>4, <2>7 DEF Same
    <3>2. QED
      BY <2>5, <2>6, <3>1
  <2>8. CASE \A w \in Workers : Waits(w, r) => Waits(w, r)'
    <3>1. tries[r] <= rows[r].attempts + Lost => tries'[r] <= rows'[r].attempts + Lost'
      BY <1>1, <2>1, <2>4 DEF Same
    <3>2. QED
      BY <2>3, <2>4, <2>5, <2>6, <2>8, <3>1 DEF Same
  <2>9. QED
    BY <2>7, <2>8
<1>4. QED
  BY <1>2, <1>3 DEF CountInv

(* A worker that holds no more than before, of rows that did not change.     *)
WorkStep(w) ==
    /\ worker'[w].batch \subseteq worker[w].batch
    /\ worker'[w].pc \in {"idle", "fetch"} => worker'[w].batch = {}
    /\ worker'[w].pc \in Busy => /\ worker[w].pc \in Busy
                                 /\ worker'[w].cur = worker[w].cur
                                 /\ Same(worker[w].cur.id)
    /\ \A c \in worker'[w].batch : Same(c.id)

(* Memory and table agree when they do for each worker.                     *)
LEMMA WorkKept == ASSUME WorkInv, \A w \in Workers : WorkStep(w) PROVE WorkInv'
<1> SUFFICES ASSUME NEW w \in Workers
             PROVE  /\ worker'[w].pc \in {"idle", "fetch"} => worker'[w].batch = {}
                    /\ \A c \in worker'[w].batch :
                           /\ rows'[c.id].status = "pending"
                           /\ c.attempts = rows'[c.id].attempts
                    /\ \A c, d \in worker'[w].batch : c.id = d.id => c = d
                    /\ worker'[w].pc \in Busy =>
                         /\ rows'[worker'[w].cur.id].status = "in_flight"
                         /\ worker'[w].cur.attempts = rows'[worker'[w].cur.id].attempts
  BY DEF WorkInv
<1>1. WorkStep(w)
  OBVIOUS
<1>2. \A c \in worker'[w].batch : /\ rows'[c.id].status = "pending"
                                  /\ c.attempts = rows'[c.id].attempts
  BY <1>1 DEF WorkStep, WorkInv, Same
<1>3. worker'[w].pc \in Busy =>
         /\ rows'[worker'[w].cur.id].status = "in_flight"
         /\ worker'[w].cur.attempts = rows'[worker'[w].cur.id].attempts
  BY <1>1 DEF WorkStep, WorkInv, Same
<1>4. QED
  BY <1>1, <1>2, <1>3 DEF WorkStep, WorkInv

(* A worker that does not move, while its rows do not.                       *)
LEMMA WorkRests ==
    ASSUME Inv, WorkInv, worker' = worker,
           \A r \in RowIds : rows[r].status \in {"pending", "in_flight"} => Same(r)
    PROVE  WorkInv'
<1> SUFFICES ASSUME NEW w \in Workers PROVE WorkStep(w)
  BY WorkKept
<1>1. /\ worker[w].cur.id \in RowIds
      /\ \A c \in worker[w].batch : c.id \in RowIds
  BY DEF Inv, TypeOK, WorkerType, CopyType
<1>2. QED
  BY <1>1 DEF WorkStep, WorkInv

(* Requests that were there before were sent before.                         *)
LEMMA SentKept ==
    ASSUME Inv, TypeOK', SentInv, \A r \in RowIds : tries[r] <= tries'[r],
           \A q \in wire' : \E p \in wire : p.id = q.id
    PROVE  SentInv'
<1> SUFFICES ASSUME NEW q \in wire' PROVE tries'[q.id] > 0
  BY DEF SentInv
<1>1. PICK p \in wire : p.id = q.id
  OBVIOUS
<1>2. p.id \in RowIds
  BY DEF Inv, TypeOK, RequestType
<1>3. tries[p.id] > 0 /\ tries[p.id] \in Nat /\ tries'[p.id] \in Nat
      /\ tries[p.id] <= tries'[p.id]
  BY <1>2 DEF SentInv, Inv, TypeOK
<1>4. QED
  BY <1>1, <1>3

(* No failure, or some.                                                      *)
LEMMA LostCounts ==
    ASSUME Inv
    PROVE  /\ Lost \in Nat
           /\ crashes' = crashes /\ faults' = faults => Lost' = Lost + 0
           /\ crashes' = crashes + 1 /\ faults' = faults => Lost' = Lost + 1
           /\ crashes' = crashes /\ faults' = faults + 1 => Lost' = Lost + 1
<1>1. crashes \in Nat /\ faults \in Nat
  BY DEF Inv, TypeOK
<1>2. Lost = crashes + faults /\ Lost' = crashes' + faults'
  BY DEF Lost
<1>3. QED
  BY <1>1, <1>2

(* What the counting argument adds up are numbers.                          *)
LEMMA Numbers ==
    ASSUME Inv, NEW r \in RowIds
    PROVE  tries[r] \in Nat /\ rows[r].attempts \in Nat /\ Lost \in Nat
<1>1. tries[r] \in Nat /\ rows[r].attempts \in 0 .. MaxAttempts
  BY DEF Inv, TypeOK, RowType
<1>2. QED
  BY <1>1, LostCounts, TimesAssumption

----------------------------------------------------------------------------
(* The invariant, action by action.                                          *)

(* Steps that neither the worker nor the table feels.                        *)
LEMMA StillStep ==
    ASSUME Inv, TypeOK', SoloInv, worker' = worker, tries' = tries,
           \A r \in RowIds : Same(r), NEW k \in Nat, Lost' = Lost + k,
           \A q \in wire' : \E p \in wire : p.id = q.id
    PROVE  SoloInv'
<1>1. WorkInv'
  BY WorkRests DEF SoloInv
<1>2. \A w \in Workers, r \in RowIds : Waits(w, r) => Waits(w, r)'
  BY DEF Waits
<1>3. CountInv' /\ UnsentHasPayload'
  BY <1>2, CountKept DEF SoloInv
<1>4. \A r \in RowIds : tries[r] <= tries'[r]
  BY DEF Inv, TypeOK
<1>5. SentInv'
  BY <1>4, SentKept DEF SoloInv
<1>6. QED
  BY <1>1, <1>3, <1>5 DEF SoloInv

(* An untouched table is the same row by row.                               *)
LEMMA UnchangedRows == rows' = rows => \A r \in RowIds : Same(r)
BY DEF Same

(* The clock changes due times and ages only.                               *)
LEMMA TickSolo == ASSUME Inv, TypeOK', SoloInv, Tick PROVE SoloInv'
<1>1. /\ worker' = worker /\ tries' = tries /\ faults' = faults /\ crashes' = crashes
  BY DEF Tick
<1>2. \A r \in RowIds : Same(r)
  <2> SUFFICES ASSUME NEW r \in RowIds PROVE Same(r)
    OBVIOUS
  <2>1. rows[r] \in RowType
    BY DEF Inv, TypeOK
  <2>2. OlderRow(rows[r]).data = rows[r].data
    BY <2>1 DEF OlderRow, RowType
  <2>3. rows'[r] = rows[r] \/ rows'[r] = OlderRow(rows[r])
    BY DEF Tick
  <2>4. QED
    BY <2>1, <2>2, <2>3, OlderRowKeeps DEF Same
<1>3. \A q \in wire' : \E p \in wire : p.id = q.id
  BY OlderKeeps DEF Tick, Inv, TypeOK
<1>4. QED
  BY <1>1, <1>2, <1>3, LostCounts, StillStep

(* Requests that only look, and the peer's side of the wire.                 *)
LEMMA ElsewhereSolo ==
    ASSUME Inv, TypeOK', SoloInv,
           \/ \E h \in Handlers, m \in Messages :
                  SendFederated(h, m) \/ DeleteFederated(h, m)
           \/ \E q \in wire : \/ PeerStarts(q) \/ PeerClaims(q) \/ PeerClaimOpen(q)
                              \/ PeerDies(q)
           \/ \E m \in Messages : PeerTakes(m) \/ PeerExpires(m)
           \/ UNCHANGED vars
    PROVE  SoloInv'
<1>1. rows' = rows /\ worker' = worker /\ tries' = tries
  BY DEF SendFederated, DeleteFederated, Lookup, PeerStarts, PeerClaims,
         PeerClaimOpen, PeerDies, PeerTakes, PeerExpires, vars
<1>2. \E k \in Nat : Lost' = Lost + k
  <2>1. \/ crashes' = crashes /\ faults' = faults
        \/ crashes' = crashes + 1 /\ faults' = faults
        \/ crashes' = crashes /\ faults' = faults + 1
    BY DEF SendFederated, DeleteFederated, Lookup, PeerStarts, PeerClaims,
           PeerClaimOpen, PeerDies, PeerTakes, PeerExpires, vars
  <2>2. QED
    BY <2>1, LostCounts
<1>3. \A q \in wire' : \E p \in wire : p.id = q.id
  <2>1. ASSUME NEW q \in wire, PeerStarts(q) \/ PeerClaims(q) \/ PeerClaimOpen(q)
        PROVE  \A x \in wire' : \E p \in wire : p.id = x.id
    <3>1. q \in RequestType
      BY DEF Inv, TypeOK
    <3>2. [q EXCEPT !.pc = "claimed"].id = q.id
      BY <3>1 DEF RequestType
    <3>3. wire' = (wire \ {q}) \cup {[q EXCEPT !.pc = "claimed"]}
      BY <2>1 DEF PeerStarts, PeerClaims, PeerClaimOpen
    <3>4. QED
      BY <3>2, <3>3
  <2>2. CASE wire' \subseteq wire
    BY <2>2
  <2>3. QED
    BY <2>1, <2>2 DEF SendFederated, DeleteFederated, Lookup, PeerDies, PeerTakes,
       PeerExpires, vars
<1>4. QED
  BY <1>1, <1>2, <1>3, UnchangedRows, StillStep

(* Steps of a worker that do not write: only a counted failure ends a wait.  *)
LEMMA WorkerSolo ==
    ASSUME Inv, TypeOK', SoloInv, rows' = rows, tries' = tries,
           wire' \subseteq wire, NEW k \in Nat, Lost' = Lost + k,
           k > 0 \/ \A w \in Workers, r \in RowIds : Waits(w, r) => Waits(w, r)',
           \A w \in Workers : WorkStep(w)
    PROVE  SoloInv'
<1>1. \A r \in RowIds : Same(r)
  BY UnchangedRows
<1>2. CountInv' /\ UnsentHasPayload'
  BY <1>1, CountKept DEF SoloInv
<1>3. \A r \in RowIds : tries[r] <= tries'[r]
  BY DEF Inv, TypeOK
<1>4. \A q \in wire' : \E p \in wire : p.id = q.id
  OBVIOUS
<1>5. SentInv'
  BY <1>3, <1>4, SentKept DEF SoloInv
<1>6. WorkInv'
  BY WorkKept DEF SoloInv
<1>7. QED
  BY <1>2, <1>5, <1>6 DEF SoloInv

(* A worker that turns to the rest of its batch, or rests.                   *)
LEMMA TurnsTo ==
    ASSUME Inv, NEW w \in Workers, NEW b \in SUBSET worker[w].batch,
           worker' = [worker EXCEPT ![w] = [Resting EXCEPT !.pc = Later(b),
                                                           !.batch = b]]
    PROVE  /\ worker'[w].pc \in {"idle", "claim"} /\ worker'[w].batch = b
           /\ worker'[w].pc = "idle" => b = {}
           /\ \A v \in Workers : v # w => worker'[v] = worker[v]
<1>1. Later(b) \in {"idle", "claim"} /\ (Later(b) = "idle" => b = {})
  BY DEF Later
<1>2. worker'[w].pc = Later(b) /\ worker'[w].batch = b
  BY Constants DEF Inv, TypeOK, WorkerType
<1>3. \A v \in Workers : v # w => worker'[v] = worker[v]
  BY DEF Inv, TypeOK
<1>4. QED
  BY <1>1, <1>2, <1>3

(* A row that is dropped, by a lost claim, an exception or a death, costs   *)
(* at most one forward that is not counted.                                 *)
LEMMA TurnsSolo ==
    ASSUME Inv, TypeOK', SoloInv, NEW w \in Workers,
           ClaimLost(w) \/ RowFails(w) \/ Crash(w)
    PROVE  SoloInv'
<1>1. rows' = rows /\ tries' = tries /\ wire' = wire
  BY DEF ClaimLost, RowFails, Crash
<1>2. /\ worker'[w].pc \in {"idle", "claim"} /\ worker'[w].batch \subseteq worker[w].batch
      /\ worker'[w].pc = "idle" => worker'[w].batch = {}
      /\ \A v \in Workers : v # w => worker'[v] = worker[v]
  <2>1. ASSUME NEW b \in SUBSET worker[w].batch,
               worker' = [worker EXCEPT ![w] = [Resting EXCEPT !.pc = Later(b),
                                                               !.batch = b]]
        PROVE  <1>2!:
    <3>1. /\ worker'[w].pc \in {"idle", "claim"} /\ worker'[w].batch = b
          /\ worker'[w].pc = "idle" => b = {}
          /\ \A v \in Workers : v # w => worker'[v] = worker[v]
      BY <2>1, TurnsTo
    <3>2. QED
      BY <3>1
  <2>2. ASSUME NEW c, Skip(w, c) PROVE <1>2!:
    <3>1. worker[w].batch \ {c} \in SUBSET worker[w].batch
      OBVIOUS
    <3>2. QED
      BY <2>1, <2>2, <3>1 DEF Skip
  <2>3. ASSUME Proceed(w) PROVE <1>2!:
    BY <2>1, <2>3 DEF Proceed
  <2>4. CASE Crash(w)
    BY <2>4 DEF Crash, Resting, Inv, TypeOK
  <2>5. QED
    BY <2>2, <2>3, <2>4 DEF ClaimLost, RowFails
<1>3. \A v \in Workers : WorkStep(v)
  <2>1. \A r \in RowIds : Same(r)
    BY <1>1, UnchangedRows
  <2>2. \A v \in Workers : /\ worker[v].cur.id \in RowIds
                           /\ \A c \in worker[v].batch : c.id \in RowIds
    BY DEF Inv, TypeOK, WorkerType, CopyType
  <2>3. QED
    BY <1>2, <2>1, <2>2 DEF WorkStep, Busy, SoloInv, WorkInv
<1>4. CASE ClaimLost(w)
  <2>1. worker[w].pc = "claim" /\ Lost' = Lost + 0
    BY <1>4, LostCounts DEF ClaimLost
  <2>2. \A v \in Workers, r \in RowIds : Waits(v, r) => Waits(v, r)'
    BY <1>2, <2>1 DEF Waits
  <2>3. QED
    BY <1>1, <1>3, <2>1, <2>2, WorkerSolo
<1>5. CASE RowFails(w) \/ Crash(w)
  <2>1. Lost' = Lost + 1
    BY <1>5, LostCounts DEF RowFails, Crash
  <2>2. QED
    BY <1>1, <1>3, <2>1, WorkerSolo
<1>6. QED
  BY <1>4, <1>5

(* The wait ends, by a time-out or by an answer.                             *)
LEMMA AnswerSolo ==
    ASSUME Inv, TypeOK', SoloInv,
           \/ \E w \in Workers : GiveUp(w)
           \/ \E q \in wire : \/ PeerRefuses(q) \/ PeerKnows(q) \/ PeerQueues(q)
                              \/ PeerBacksOut(q) \/ PeerReplay(q) \/ PeerDeletes(q)
    PROVE  SoloInv'
<1>1. /\ rows' = rows /\ tries' = tries /\ wire' \subseteq wire
      /\ crashes' = crashes /\ faults' = faults
  BY DEF GiveUp, PeerRefuses, PeerKnows, PeerQueues, PeerBacksOut, PeerReplay,
         PeerDeletes, Answer
<1>2. ASSUME NEW w \in Workers
      PROVE  \/ worker'[w] = worker[w]
             \/ /\ worker[w].pc = "wait" /\ worker'[w].pc = "settle"
                /\ worker'[w].cur = worker[w].cur
                /\ worker'[w].batch = worker[w].batch
  <2>1. worker[w] \in WorkerType
    BY DEF Inv, TypeOK
  <2>2. \/ worker'[w] = worker[w]
        \/ /\ worker[w].pc = "wait"
           /\ \E ok : worker'[w] = [worker[w] EXCEPT !.pc = "settle", !.ok = ok]
    <3>1. ASSUME NEW q \in wire, NEW ok, Answer(q, ok) PROVE <2>2!:
      BY <3>1 DEF Answer
    <3>2. ASSUME NEW v \in Workers, GiveUp(v) PROVE <2>2!:
      BY <3>2 DEF GiveUp, Inv, TypeOK
    <3>3. QED
      BY <3>1, <3>2 DEF PeerRefuses, PeerKnows, PeerQueues, PeerBacksOut,
         PeerReplay, PeerDeletes
  <2>3. QED
    BY <2>1, <2>2 DEF WorkerType
<1>3. \A w \in Workers, r \in RowIds : Waits(w, r) => Waits(w, r)'
  BY <1>2 DEF Waits
<1>4. \A w \in Workers : WorkStep(w)
  <2>1. \A r \in RowIds : Same(r)
    BY <1>1, UnchangedRows
  <2>2. \A v \in Workers : /\ worker[v].cur.id \in RowIds
                           /\ \A c \in worker[v].batch : c.id \in RowIds
    BY DEF Inv, TypeOK, WorkerType, CopyType
  <2>3. QED
    BY <1>2, <2>1, <2>2 DEF WorkStep, Busy, SoloInv, WorkInv
<1>5. QED
  BY <1>1, <1>3, <1>4, LostCounts, WorkerSolo

(* Steps that write rows: each row changed keeps its payload while it is     *)
(* owed, and no attempt goes uncounted.                                      *)
RowCounts(r) ==
    /\ rows'[r].status \in {"pending", "in_flight"} => rows'[r].data
    /\ rows'[r].status = "free" => tries'[r] = 0
    /\ tries'[r] <= rows'[r].attempts + Lost' + 1
    /\ \/ rows'[r].status \in {"pending", "dead_letter"}
       \/ rows'[r].status = "in_flight" /\ \A w \in Workers : ~Waits(w, r)'
       => tries'[r] <= rows'[r].attempts + Lost'

(* The counts hold when they do for each row.                               *)
LEMMA CountsKept ==
    ASSUME \A r \in RowIds : RowCounts(r) PROVE CountInv' /\ UnsentHasPayload'
BY DEF RowCounts, CountInv, UnsentHasPayload

(* A row nobody touched keeps its count.                                    *)
LEMMA SameCounts ==
    ASSUME SoloInv, NEW r \in RowIds, Same(r), tries'[r] = tries[r], Lost' = Lost,
           \A w \in Workers : Waits(w, r) => Waits(w, r)'
    PROVE  RowCounts(r)
BY DEF RowCounts, Same, SoloInv, CountInv, UnsentHasPayload

(* A new row has its payload and no attempts.                               *)
LEMMA InsertSolo ==
    ASSUME Inv, TypeOK', SoloInv, NEW h \in Handlers, NEW r \in RowIds, Insert(h, r)
    PROVE  SoloInv'
<1>1. /\ worker' = worker /\ wire' = wire /\ tries' = tries /\ Lost' = Lost
      /\ rows[r].status = "free"
  BY DEF Insert, Lost
<1>2. \A s \in RowIds : s # r => Same(s)
  BY DEF Insert, Same, Inv, TypeOK
<1>3. rows'[r].status = "pending" /\ rows'[r].data /\ rows'[r].attempts = 0
  BY DEF Insert, NoRow, Inv, TypeOK
<1>4. \A s \in RowIds : RowCounts(s)
  <2> SUFFICES ASSUME NEW s \in RowIds PROVE RowCounts(s)
    OBVIOUS
  <2>1. CASE s # r
    BY <1>1, <1>2, <2>1, SameCounts DEF Waits
  <2>2. CASE s = r
    <3>1. tries'[s] = 0 /\ Lost' \in Nat
      BY <1>1, <2>2, LostCounts DEF SoloInv, CountInv
    <3>2. QED
      BY <1>3, <2>2, <3>1 DEF RowCounts
  <2>3. QED
    BY <2>1, <2>2
<1>5. WorkInv'
  BY <1>1, <1>2, WorkRests DEF SoloInv
<1>6. QED
  BY <1>1, <1>4, <1>5, CountsKept DEF SoloInv, SentInv

(* A deleted row was settled.                                               *)
LEMMA CleanupSolo == ASSUME Inv, TypeOK', SoloInv, Cleanup PROVE SoloInv'
<1>1. worker' = worker /\ wire' = wire /\ tries' = tries /\ Lost' = Lost
  BY DEF Cleanup, Lost
<1>2. \A r \in RowIds : ~Reapable(rows[r]) => Same(r)
  BY DEF Cleanup, Same
<1>3. ASSUME NEW r \in RowIds, Reapable(rows[r])
      PROVE  /\ rows[r].status \in {"succeeded", "dead_letter"}
             /\ rows'[r].status = "deleted" /\ rows'[r].attempts = rows[r].attempts
  BY <1>3 DEF Cleanup, Reapable, Inv, TypeOK, RowType
<1>4. \A r \in RowIds : RowCounts(r)
  <2> SUFFICES ASSUME NEW r \in RowIds PROVE RowCounts(r)
    OBVIOUS
  <2>1. CASE ~Reapable(rows[r])
    BY <1>1, <1>2, <2>1, SameCounts DEF Waits
  <2>2. CASE Reapable(rows[r])
    BY <1>1, <1>3, <2>2 DEF RowCounts, SoloInv, CountInv
  <2>3. QED
    BY <2>1, <2>2
<1>5. WorkInv'
  BY <1>1, <1>2, <1>3, WorkRests DEF SoloInv
<1>6. QED
  BY <1>1, <1>4, <1>5, CountsKept DEF SoloInv, SentInv

(* recover_stuck_in_flight runs while nobody works on a row.                 *)
LEMMA RecoverSolo ==
    ASSUME OneWorker, Inv, TypeOK', SoloInv, NEW w \in Workers, Recover(w)
    PROVE  SoloInv'
<1>1. wire' = wire /\ tries' = tries /\ Lost' = Lost /\ worker[w].pc = "idle"
  BY DEF Recover, Lost
<1>2. \A v \in Workers : v = w
  BY DEF OneWorker
<1>3. worker'[w].pc = "fetch" /\ worker'[w].batch = {}
  BY <1>1 DEF Recover, Inv, TypeOK, WorkerType, SoloInv, WorkInv
<1>4. WorkInv'
  BY <1>2, <1>3, WorkKept DEF WorkStep, Busy, SoloInv
<1>5. \A v \in Workers, r \in RowIds : ~Waits(v, r) /\ ~Waits(v, r)'
  BY <1>1, <1>2, <1>3 DEF Waits
<1>6. \A r \in RowIds : RowCounts(r)
  <2> SUFFICES ASSUME NEW r \in RowIds PROVE RowCounts(r)
    OBVIOUS
  <2>1. CASE ~Stuck(rows[r])
    <3>1. Same(r)
      BY <2>1 DEF Recover, Same
    <3>2. QED
      BY <1>1, <1>5, <3>1, SameCounts
  <2>2. CASE Stuck(rows[r])
    <3>1. /\ rows[r].status = "in_flight" /\ rows'[r].status = "pending"
          /\ rows'[r].attempts = rows[r].attempts /\ rows'[r].data = rows[r].data
      BY <2>2 DEF Recover, Stuck, Inv, TypeOK, RowType
    <3>2. QED
      BY <1>1, <1>5, <3>1 DEF RowCounts, SoloInv, CountInv, UnsentHasPayload
  <2>3. QED
    BY <2>1, <2>2
<1>7. QED
  BY <1>1, <1>4, <1>6, CountsKept DEF SoloInv, SentInv

(* fetch_pending_batch copies pending rows, each once.                       *)
LEMMA FetchSolo ==
    ASSUME Inv, TypeOK', SoloInv, NEW w \in Workers, Fetch(w) PROVE SoloInv'
<1>1. /\ rows' = rows /\ wire' = wire /\ tries' = tries /\ Lost' = Lost
      /\ worker[w].pc = "fetch"
  BY DEF Fetch, Lost
<1>2. PICK B \in SUBSET RowIds :
        /\ IsBatch(B)
        /\ worker' = [worker EXCEPT ![w] =
                        [Resting EXCEPT !.pc = Later(B),
                                        !.batch = {Copy(r) : r \in B}]]
  BY DEF Fetch
<1>3. /\ worker'[w].pc = Later(B) /\ worker'[w].batch = {Copy(r) : r \in B}
      /\ \A v \in Workers : v # w => worker'[v] = worker[v]
  BY <1>2, Constants DEF Inv, TypeOK, WorkerType
<1>4. \A r \in B : /\ r \in RowIds /\ rows[r].status = "pending"
                   /\ Copy(r).id = r /\ Copy(r).attempts = rows[r].attempts
  BY <1>2 DEF IsBatch, Ready, Copy
<1>5. WorkInv'
  <2> SUFFICES ASSUME NEW v \in Workers
               PROVE  /\ worker'[v].pc \in {"idle", "fetch"} => worker'[v].batch = {}
                      /\ \A c \in worker'[v].batch :
                             /\ rows[c.id].status = "pending"
                             /\ c.attempts = rows[c.id].attempts
                      /\ \A c, d \in worker'[v].batch : c.id = d.id => c = d
                      /\ worker'[v].pc \in Busy =>
                           /\ rows[worker'[v].cur.id].status = "in_flight"
                           /\ worker'[v].cur.attempts = rows[worker'[v].cur.id].attempts
    BY <1>1 DEF WorkInv
  <2>1. CASE v # w
    BY <1>3, <2>1 DEF SoloInv, WorkInv
  <2>2. CASE v = w
    <3>1. worker'[w].pc \in {"idle", "fetch"} => worker'[w].batch = {}
      BY <1>3 DEF Later
    <3>2. worker'[w].pc \notin Busy
      BY <1>3 DEF Later, Busy
    <3>3. QED
      BY <1>3, <1>4, <2>2, <3>1, <3>2
  <2>3. QED
    BY <2>1, <2>2
<1>6. \A r \in RowIds : RowCounts(r)
  <2>1. \A v \in Workers, r \in RowIds : Waits(v, r) => Waits(v, r)'
    BY <1>1, <1>3 DEF Waits
  <2>2. QED
    BY <1>1, <2>1, UnchangedRows, SameCounts
<1>7. QED
  BY <1>1, <1>5, <1>6, CountsKept DEF SoloInv, SentInv

(* mark_in_flight.                                                           *)
LEMMA ClaimSolo ==
    ASSUME OneWorker, Inv, TypeOK', SoloInv, NEW w \in Workers, Claim(w)
    PROVE  SoloInv'
<1>1. /\ wire' = wire /\ tries' = tries /\ Lost' = Lost /\ worker[w].pc = "claim"
      /\ \A v \in Workers : v = w
  BY DEF Claim, Lost, OneWorker
<1>2. PICK c \in worker[w].batch :
        /\ rows[c.id].status = "pending"
        /\ rows' = [rows EXCEPT ![c.id].status = "in_flight", ![c.id].due = 0]
        /\ worker' = [worker EXCEPT ![w].pc = "forward", ![w].cur = c,
                                    ![w].batch = @ \ {c}]
  BY DEF Claim, First, MayClaim
<1>3. /\ worker'[w].pc = "forward" /\ worker'[w].cur = c
      /\ worker'[w].batch = worker[w].batch \ {c}
  BY <1>2 DEF Inv, TypeOK, WorkerType
<1>4. c.id \in RowIds /\ \A d \in worker[w].batch : d.id \in RowIds
  BY DEF Inv, TypeOK, WorkerType, CopyType
<1>5. \A r \in RowIds : r # c.id => Same(r)
  BY <1>2, <1>4 DEF Same, Inv, TypeOK
<1>6. /\ rows'[c.id].status = "in_flight"
      /\ rows'[c.id].attempts = rows[c.id].attempts
      /\ rows'[c.id].data = rows[c.id].data
  <2>1. rows[c.id] \in RowType
    BY <1>4 DEF Inv, TypeOK
  <2>2. rows'[c.id] = [rows[c.id] EXCEPT !.status = "in_flight", !.due = 0]
    BY <1>2, <1>4 DEF Inv, TypeOK
  <2>3. QED
    BY <2>1, <2>2 DEF RowType
<1>7. WorkInv'
  <2>1. \A d \in worker'[w].batch : /\ d \in worker[w].batch /\ d.id \in RowIds
                                    /\ d.id # c.id /\ Same(d.id)
    BY <1>3, <1>4, <1>5 DEF SoloInv, WorkInv
  <2>2. \A d \in worker'[w].batch : /\ rows'[d.id].status = "pending"
                                    /\ d.attempts = rows'[d.id].attempts
    BY <2>1 DEF SoloInv, WorkInv, Same
  <2>3. c.attempts = rows[c.id].attempts
    BY DEF SoloInv, WorkInv
  <2>4. \A d, e \in worker'[w].batch : d.id = e.id => d = e
    BY <2>1 DEF SoloInv, WorkInv
  <2>5. QED
    BY <1>1, <1>3, <1>6, <2>2, <2>3, <2>4 DEF WorkInv
<1>8. \A r \in RowIds : RowCounts(r)
  <2> SUFFICES ASSUME NEW r \in RowIds PROVE RowCounts(r)
    OBVIOUS
  <2>1. CASE r # c.id
    <3>1. \A v \in Workers : Waits(v, r) => Waits(v, r)'
      BY <1>1 DEF Waits
    <3>2. QED
      BY <1>1, <1>5, <2>1, <3>1, SameCounts
  <2>2. CASE r = c.id
    BY <1>1, <1>2, <1>6, <2>2 DEF RowCounts, SoloInv, CountInv, UnsentHasPayload
  <2>3. QED
    BY <2>1, <2>2
<1>9. QED
  BY <1>1, <1>7, <1>8, CountsKept DEF SoloInv, SentInv

(* remote_forward: the attempt that is under way.                            *)
LEMMA ForwardSolo ==
    ASSUME OneWorker, Inv, TypeOK', SoloInv, NEW w \in Workers, Forward(w)
    PROVE  SoloInv'
<1>1. /\ rows' = rows /\ Lost' = Lost /\ worker[w].pc = "forward"
      /\ \A v \in Workers : v = w
  BY DEF Forward, Lost, OneWorker
<1>2. PICK id \in RowIds : id = worker[w].cur.id
  BY DEF Inv, TypeOK, WorkerType, CopyType
<1>3. /\ worker'[w].pc = "wait" /\ worker'[w].cur = worker[w].cur
      /\ worker'[w].batch = worker[w].batch
  BY DEF Forward, Inv, TypeOK, WorkerType
<1>4. tries'[id] = tries[id] + 1 /\ \A r \in RowIds : r # id => tries'[r] = tries[r]
  BY <1>2 DEF Forward, Inv, TypeOK
<1>5. \A r \in RowIds : Same(r)
  BY <1>1, UnchangedRows
<1>6. WorkInv'
  <2>1. \A c \in worker[w].batch : c.id \in RowIds
    BY DEF Inv, TypeOK, WorkerType, CopyType
  <2>2. WorkStep(w)
    BY <1>1, <1>2, <1>3, <1>5, <2>1 DEF WorkStep, Busy
  <2>3. QED
    BY <1>1, <2>2, WorkKept DEF SoloInv
<1>7. \A r \in RowIds : RowCounts(r)
  <2> SUFFICES ASSUME NEW r \in RowIds PROVE RowCounts(r)
    OBVIOUS
  <2>1. CASE r # id
    <3>1. \A v \in Workers : Waits(v, r) => Waits(v, r)'
      BY <1>1 DEF Waits
    <3>2. QED
      BY <1>1, <1>4, <1>5, <2>1, <3>1, SameCounts
  <2>2. CASE r = id
    <3>1. rows[r].status = "in_flight"
      BY <1>1, <1>2, <2>2 DEF SoloInv, WorkInv, Busy
    <3>2. tries[r] <= rows[r].attempts + Lost
      <4>1. \A v \in Workers : ~Waits(v, r)
        BY <1>1 DEF Waits
      <4>2. QED
        BY <3>1, <4>1 DEF SoloInv, CountInv
    <3>3. tries[r] \in Nat /\ rows[r].attempts \in Nat /\ Lost \in Nat
      BY Numbers
    <3>4. tries'[r] <= rows[r].attempts + Lost + 1
      BY <1>4, <2>2, <3>2, <3>3
    <3>5. Waits(w, r)'
      BY <1>2, <1>3, <2>2 DEF Waits
    <3>6. rows[r].data
      BY <3>1 DEF SoloInv, UnsentHasPayload
    <3>7. QED
      BY <1>1, <3>1, <3>4, <3>5, <3>6 DEF RowCounts
  <2>3. QED
    BY <2>1, <2>2
<1>8. SentInv'
  <2> SUFFICES ASSUME NEW q \in wire' PROVE tries'[q.id] > 0
    BY DEF SentInv
  <2>1. tries[id] \in Nat
    BY DEF Inv, TypeOK
  <2>2. CASE q \in wire
    <3>1. q.id \in RowIds /\ tries[q.id] > 0
      BY <2>2 DEF Inv, TypeOK, RequestType, SoloInv, SentInv
    <3>2. QED
      BY <1>4, <2>1, <3>1
  <2>3. CASE q \notin wire
    <3>1. q.id = id
      BY <1>2, <2>3 DEF Forward
    <3>2. QED
      BY <1>4, <2>1, <3>1
  <2>4. QED
    BY <2>2, <2>3
<1>9. QED
  BY <1>6, <1>7, <1>8, CountsKept DEF SoloInv

(* What mark_succeeded and mark_retry_or_dead write: the row is in flight    *)
(* and is the only one to change.                                            *)
LEMMA SettleWrites ==
    ASSUME OneWorker, Inv, TypeOK', SoloInv, NEW w \in Workers,
           Succeed(w) \/ RetryOrDead(w), NEW id \in RowIds, id = worker[w].cur.id
    PROVE  /\ rows[id].status = "in_flight"
           /\ rows'[id].kind = rows[id].kind /\ rows'[id].msg = rows[id].msg
           /\ \/ /\ worker[w].ok /\ rows'[id].status = "succeeded"
                 /\ rows'[id].attempts = rows[id].attempts
              \/ /\ ~worker[w].ok /\ rows'[id].status = "pending"
                 /\ rows'[id].attempts = rows[id].attempts + 1
                 /\ rows'[id].data = rows[id].data
              \/ /\ ~worker[w].ok /\ rows'[id].status = "dead_letter"
                 /\ rows'[id].attempts = rows[id].attempts + 1
                 /\ rows'[id].attempts >= MaxAttempts
           /\ \A r \in RowIds : r # id => rows'[r] = rows[r]
<1>1. worker[w].pc = "settle"
  BY DEF Succeed, RetryOrDead
<1>2. /\ rows[id].status = "in_flight" /\ rows[id] \in RowType
      /\ worker[w].cur.attempts = rows[id].attempts
  BY <1>1 DEF SoloInv, WorkInv, Busy, Inv, TypeOK
<1>3. CASE Succeed(w)
  <2>1. rows' = [rows EXCEPT ![id].status = "succeeded", ![id].age = 0,
                             ![id].data = FALSE]
    BY <1>2, <1>3 DEF Succeed
  <2>2. rows'[id] = [rows[id] EXCEPT !.status = "succeeded", !.age = 0, !.data = FALSE]
    BY <2>1 DEF Inv, TypeOK
  <2>3. \A r \in RowIds : r # id => rows'[r] = rows[r]
    BY <2>1 DEF Inv, TypeOK
  <2>4. QED
    <3>1. /\ rows'[id].status = "succeeded" /\ rows'[id].attempts = rows[id].attempts
          /\ rows'[id].kind = rows[id].kind /\ rows'[id].msg = rows[id].msg
      BY <1>2, <2>2 DEF RowType
    <3>2. worker[w].ok
      BY <1>3 DEF Succeed
    <3>3. QED
      BY <1>2, <2>3, <3>1, <3>2
<1>4. CASE RetryOrDead(w)
  <2> DEFINE n == rows[id].attempts + 1
  <2>1. n \in 1 .. MaxAttempts
    <3>1. worker[w].cur \in CopyType
      BY DEF Inv, TypeOK, WorkerType
    <3>2. worker[w].cur.attempts \in 0 .. MaxAttempts - 1
      BY <3>1 DEF CopyType
    <3>3. rows[id].attempts \in 0 .. MaxAttempts - 1
      BY <1>2, <3>2
    <3>4. MaxAttempts \in Nat
      BY TimesAssumption
    <3>5. QED
      BY <3>3, <3>4
  <2>2. rows' = [rows EXCEPT ![id] = Failed(rows[id], n)]
    BY <1>2, <1>4 DEF RetryOrDead
  <2>3. rows'[id] = Failed(rows[id], n) /\ \A r \in RowIds : r # id => rows'[r] = rows[r]
    BY <2>2 DEF Inv, TypeOK
  <2>4. Failed(rows[id], n).data = rows[id].data
    BY <1>2 DEF Failed, RowType
  <2>5. /\ rows'[id].attempts = n
        /\ rows'[id].kind = rows[id].kind /\ rows'[id].msg = rows[id].msg
        /\ rows'[id].status \in {"pending", "dead_letter"}
        /\ rows'[id].status = "dead_letter" => n >= MaxAttempts
    BY <1>2, <2>1, <2>3, FailedRow
  <2>6. ~worker[w].ok
    BY <1>4 DEF RetryOrDead
  <2>7. QED
    BY <1>2, <2>3, <2>4, <2>5, <2>6
<1>5. QED
  BY <1>3, <1>4

(* The outcome is written to the row the worker holds.                      *)
LEMMA SettleSolo ==
    ASSUME OneWorker, Inv, TypeOK', SoloInv, NEW w \in Workers,
           Succeed(w) \/ RetryOrDead(w)
    PROVE  SoloInv'
<1>1. /\ wire' = wire /\ tries' = tries /\ Lost' = Lost /\ worker[w].pc = "settle"
      /\ Proceed(w) /\ \A v \in Workers : v = w
  BY DEF Succeed, RetryOrDead, Lost, OneWorker
<1>2. PICK id \in RowIds : id = worker[w].cur.id
  BY DEF Inv, TypeOK, WorkerType, CopyType
<1>3. \A r \in RowIds : r # id => Same(r)
  BY <1>2, SettleWrites DEF Same
<1>4. /\ worker'[w].pc \in {"idle", "claim"} /\ worker'[w].batch = worker[w].batch
      /\ worker'[w].pc = "idle" => worker'[w].batch = {}
  BY <1>1, TurnsTo DEF Proceed
<1>5. WorkInv'
  <2>1. \A c \in worker[w].batch : c.id \in RowIds /\ rows[c.id].status = "pending"
    BY DEF Inv, TypeOK, WorkerType, CopyType, SoloInv, WorkInv
  <2>2. rows[id].status = "in_flight"
    BY <1>2, SettleWrites
  <2>3. WorkStep(w)
    BY <1>3, <1>4, <2>1, <2>2 DEF WorkStep, Busy
  <2>4. QED
    BY <1>1, <2>3, WorkKept DEF SoloInv
<1>6. \A r \in RowIds : RowCounts(r)
  <2> SUFFICES ASSUME NEW r \in RowIds PROVE RowCounts(r)
    OBVIOUS
  <2>1. CASE r # id
    <3>1. \A v \in Workers : Waits(v, r) => Waits(v, r)'
      BY <1>1, <1>2, <2>1 DEF Waits
    <3>2. QED
      BY <1>1, <1>3, <2>1, <3>1, SameCounts
  <2>2. CASE r = id
    <3>1. tries[r] <= rows[r].attempts + Lost + 1
      BY DEF SoloInv, CountInv
    <3>2. tries[r] \in Nat /\ rows[r].attempts \in Nat /\ Lost \in Nat
      BY Numbers
    <3>3. rows[r].status = "in_flight" /\ rows[r].data
      BY <1>2, <2>2, SettleWrites DEF SoloInv, UnsentHasPayload
    <3>4. \/ /\ rows'[r].status = "succeeded" /\ rows'[r].attempts = rows[r].attempts
          \/ /\ rows'[r].status \in {"pending", "dead_letter"}
             /\ rows'[r].attempts = rows[r].attempts + 1
             /\ rows'[r].status = "pending" => rows'[r].data
      BY <1>2, <2>2, <3>3, SettleWrites
    <3>5. QED
      BY <1>1, <3>1, <3>2, <3>4 DEF RowCounts
  <2>3. QED
    BY <2>1, <2>2
<1>7. QED
  BY <1>1, <1>5, <1>6, CountsKept DEF SoloInv, SentInv

----------------------------------------------------------------------------
(* The invariant holds at first.                                            *)
LEMMA SoloInit == Init => SoloInv
<1> SUFFICES ASSUME Init PROVE SoloInv
  OBVIOUS
<1>1. \A r \in RowIds : /\ rows[r].status = "free" /\ rows[r].attempts = 0
                        /\ tries[r] = 0
  BY DEF Init, NoRow
<1>2. \A w \in Workers : worker[w].pc = "idle" /\ worker[w].batch = {}
  BY DEF Init, Resting
<1>3. WorkInv
  BY <1>2 DEF WorkInv, Busy
<1>4. UnsentHasPayload
  BY <1>1 DEF UnsentHasPayload
<1>5. CountInv
  <2>1. Lost \in Nat
    BY DEF Init, Lost
  <2>2. QED
    BY <1>1, <2>1 DEF CountInv
<1>6. SentInv
  BY DEF Init, SentInv
<1>7. QED
  BY <1>3, <1>4, <1>5, <1>6 DEF SoloInv

(* With one worker every step keeps it.                                     *)
LEMMA SoloStep == OneWorker /\ Inv /\ SoloInv /\ [Next]_vars => SoloInv'
<1> SUFFICES ASSUME OneWorker, Inv, SoloInv, [Next]_vars PROVE SoloInv'
  OBVIOUS
<1>1. TypeOK'
  BY TypeStep DEF Inv
<1>2. ASSUME NEW w \in Workers, Work(w) \/ RowFails(w) \/ Crash(w) PROVE SoloInv'
  BY <1>1, <1>2, RecoverSolo, FetchSolo, ClaimSolo, TurnsSolo, ForwardSolo,
     AnswerSolo, SettleSolo DEF Work
<1>3. ASSUME NEW h \in Handlers, Request(h) PROVE SoloInv'
  BY <1>1, <1>3, InsertSolo, ElsewhereSolo DEF Request
<1>4. CASE Peer
  BY <1>1, <1>4, AnswerSolo, ElsewhereSolo DEF Peer
<1>5. CASE Cleanup \/ Tick
  BY <1>1, <1>5, CleanupSolo, TickSolo
<1>6. CASE UNCHANGED vars
  BY <1>1, <1>6, ElsewhereSolo
<1>7. QED
  BY <1>2, <1>3, <1>4, <1>5, <1>6 DEF Next

(* A row that may still be sent has its payload: with one worker,            *)
(* mark_succeeded scrubs no row that is sent again.                          *)
THEOREM UnsentHasPayloadHolds ==
    ASSUME OneWorker PROVE Spec => []UnsentHasPayload
<1>1. SoloInv => UnsentHasPayload
  BY DEF SoloInv
<1>2. Inv /\ SoloInv /\ [Next]_vars => Inv' /\ SoloInv'
  BY InvStep, SoloStep
<1>3. QED
  BY InvInit, SoloInit, <1>1, <1>2, PTL DEF Spec

(* The peer is not flooded: with one worker a row is forwarded once for each *)
(* counted attempt, once more for each failure that lost the count, and once *)
(* for the attempt that is under way or has succeeded.                       *)
THEOREM AttemptsAreCountedHolds ==
    ASSUME OneWorker PROVE Spec => []AttemptsAreCounted
<1>1. Inv /\ SoloInv => AttemptsAreCounted
  <2> SUFFICES ASSUME Inv, SoloInv, NEW r \in RowIds
               PROVE  tries[r] <= rows[r].attempts + crashes + faults
                        + IF rows[r].status \in {"in_flight", "succeeded", "deleted"}
                          THEN 1 ELSE 0
    BY DEF AttemptsAreCounted
  <2>1. /\ tries[r] \in Nat /\ rows[r].attempts \in Nat
        /\ crashes \in Nat /\ faults \in Nat
    BY TimesAssumption DEF Inv, TypeOK, RowType
  <2>2. Lost = crashes + faults
    BY DEF Lost
  <2>3. CASE rows[r].status \in {"in_flight", "succeeded", "deleted"}
    BY <2>1, <2>2, <2>3 DEF SoloInv, CountInv
  <2>4. CASE rows[r].status = "free"
    BY <2>1, <2>2, <2>4 DEF SoloInv, CountInv
  <2>5. CASE rows[r].status \in {"pending", "dead_letter"}
    BY <2>1, <2>2, <2>5 DEF SoloInv, CountInv
  <2>6. rows[r].status \in {"pending", "in_flight", "succeeded", "dead_letter",
                            "free", "deleted"}
    BY DEF Inv, TypeOK, RowType, Statuses
  <2>7. QED
    BY <2>3, <2>4, <2>5, <2>6
<1>2. Inv /\ SoloInv /\ [Next]_vars => Inv' /\ SoloInv'
  BY InvStep, SoloStep
<1>3. QED
  BY InvInit, SoloInit, <1>1, <1>2, PTL DEF Spec

----------------------------------------------------------------------------
(* The refinement, action by action.                                         *)

(* What becomes of a row in the promise, status by status.                   *)
LEMMA Fates ==
    ASSUME NEW row
    PROVE  /\ row.status = "free" => Fate(row) = "unborn"
           /\ row.status \in {"pending", "in_flight"} => Fate(row) = "owed"
           /\ row.status = "succeeded" => Fate(row) = "delivered"
           /\ row.status = "dead_letter" => Fate(row) = "given_up"
           /\ row.status = "deleted" => Fate(row) = "forgotten"
BY DEF Fate

(* A row that is the same to the promise.                                    *)
SameFate(r) ==
    /\ rows'[r].kind = rows[r].kind /\ rows'[r].msg = rows[r].msg
    /\ \/ rows'[r].status = rows[r].status
       \/ {rows'[r].status, rows[r].status} \subseteq {"pending", "in_flight"}

FateMap  == [r \in RowIds |-> Fate(rows[r])]
TakenSet == {r \in RowIds : rows[r].status # "free" /\ Taken(rows[r])}

(* The fate of a row that is only moved between the owed states stays the   *)
(* same.                                                                    *)
LEMMA SameFateIs ==
    ASSUME NEW r \in RowIds, SameFate(r)
    PROVE  /\ Fate(rows'[r]) = Fate(rows[r])
           /\ (rows'[r].status = "free") <=> (rows[r].status = "free")
<1>1. CASE rows'[r].status = rows[r].status
  BY <1>1 DEF Fate
<1>2. CASE {rows'[r].status, rows[r].status} \subseteq {"pending", "in_flight"}
  BY <1>2, Fates
<1>3. QED
  BY <1>1, <1>2 DEF SameFate

(* So do the fates of all rows.                                             *)
LEMMA SameFates ==
    ASSUME \A r \in RowIds : SameFate(r)
    PROVE  FateMap' = FateMap
BY SameFateIs DEF FateMap

(* And what counts as taken by the peer.                                    *)
LEMMA SameTaken ==
    ASSUME \A r \in RowIds : SameFate(r), begun' = begun, heard' = heard
    PROVE  TakenSet' = TakenSet
<1>1. ASSUME NEW r \in RowIds
      PROVE  (rows'[r].status # "free" /\ Taken(rows[r])')
                <=> (rows[r].status # "free" /\ Taken(rows[r]))
  BY SameFateIs DEF SameFate, Taken
<1>2. QED
  BY <1>1 DEF TakenSet, Taken

(* Steps the promise does not see.                                           *)
LEMMA Unseen ==
    ASSUME \A r \in RowIds : SameFate(r), tries' = tries, begun' = begun,
           heard' = heard
    PROVE  UNCHANGED Promise!promise
<1>1. FateMap' = FateMap /\ TakenSet' = TakenSet
  BY SameFates, SameTaken
<1>2. QED
  BY <1>1 DEF Promise!promise, FateMap, TakenSet

(* Initial states of the queue are initial states of the promise.           *)
LEMMA PromiseInit == Init => Promise!Init
<1> SUFFICES ASSUME Init PROVE Promise!Init
  OBVIOUS
<1>1. \A r \in RowIds : rows[r].status = "free"
  BY DEF Init, NoRow
<1>2. FateMap = [r \in RowIds |-> "unborn"] /\ TakenSet = {}
  BY <1>1, Fates DEF FateMap, TakenSet
<1>3. QED
  BY <1>2 DEF Promise!Init, Promise!Unborn, Init, FateMap, TakenSet

(* An untouched table keeps every fate.                                     *)
LEMMA UnchangedFates ==
    rows' = rows => (\A r \in RowIds : SameFate(r)) /\ FateMap' = FateMap
BY DEF SameFate, FateMap

(* An inserted row is accepted.                                              *)
LEMMA InsertPromise ==
    ASSUME Inv, NEW h \in Handlers, NEW r \in RowIds, Insert(h, r)
    PROVE  Promise!Accept(r)
<1>1. /\ tries' = tries /\ begun' = begun /\ heard' = heard
      /\ rows[r].status = "free"
  BY DEF Insert, peerVars
<1>2. rows'[r].status = "pending" /\ \A s \in RowIds : s # r => rows'[s] = rows[s]
  BY DEF Insert, NoRow, Inv, TypeOK
<1>3. FateMap' = [FateMap EXCEPT ![r] = "owed"] /\ FateMap[r] = "unborn"
  BY <1>1, <1>2, Fates DEF FateMap
<1>4. TakenSet' \in {TakenSet, TakenSet \cup {r}}
  <2>1. \A s \in RowIds : s # r => (s \in TakenSet' <=> s \in TakenSet)
    BY <1>1, <1>2 DEF TakenSet, Taken
  <2>2. r \notin TakenSet
    BY <1>1 DEF TakenSet
  <2>3. TakenSet \subseteq RowIds /\ TakenSet' \subseteq RowIds
    BY DEF TakenSet
  <2>4. CASE r \in TakenSet'
    BY <2>1, <2>3, <2>4
  <2>5. CASE r \notin TakenSet'
    BY <2>1, <2>2, <2>3, <2>5
  <2>6. QED
    BY <2>4, <2>5
<1>5. QED
  BY <1>1, <1>3, <1>4
     DEF Promise!Accept, Promise!Becomes, Promise!Unborn, FateMap, TakenSet

(* A forward is an offer, of a row that is still owed.                       *)
LEMMA ForwardPromise ==
    ASSUME Inv, SoloInv, NEW w \in Workers, Forward(w), NEW id \in RowIds,
           id = worker[w].cur.id
    PROVE  Promise!Offer(id)
<1>1. /\ rows' = rows /\ begun' = begun /\ heard' = heard
      /\ tries' = [tries EXCEPT ![id] = @ + 1] /\ worker[w].pc = "forward"
  BY DEF Forward, peerVars
<1>2. rows[id].status = "in_flight"
  BY <1>1 DEF SoloInv, WorkInv, Busy
<1>3. FateMap[id] = "owed"
  BY <1>2, Fates DEF FateMap
<1>4. FateMap' = FateMap /\ TakenSet' = TakenSet
  BY <1>1, UnchangedFates, SameTaken
<1>5. QED
  BY <1>1, <1>3, <1>4 DEF Promise!Offer, FateMap, TakenSet

(* mark_succeeded delivers, mark_retry_or_dead gives up or changes nothing.  *)
LEMMA SettlePromise ==
    ASSUME OneWorker, Inv, TypeOK', SoloInv, NEW w \in Workers,
           Succeed(w) \/ RetryOrDead(w), NEW id \in RowIds, id = worker[w].cur.id
    PROVE  \/ Promise!Deliver(id) \/ Promise!GiveUp(id)
           \/ UNCHANGED Promise!promise
<1>1. /\ tries' = tries /\ begun' = begun /\ heard' = heard
      /\ worker[w].pc = "settle"
  BY DEF Succeed, RetryOrDead, peerVars
<1>2. /\ rows[id].status = "in_flight"
      /\ rows'[id].kind = rows[id].kind /\ rows'[id].msg = rows[id].msg
      /\ \A r \in RowIds : r # id => rows'[r] = rows[r]
  BY SettleWrites
<1>3. FateMap[id] = "owed"
  BY <1>2, Fates DEF FateMap
<1>4. rows'[id].status # "free"
  BY SettleWrites
<1>5. TakenSet' = TakenSet
  <2>1. \A r \in RowIds : r \in TakenSet' <=> r \in TakenSet
    BY <1>1, <1>2, <1>4 DEF TakenSet, Taken
  <2>2. QED
    BY <2>1 DEF TakenSet
<1>6. FateMap' = [FateMap EXCEPT ![id] = Fate(rows'[id])]
  BY <1>2 DEF FateMap
<1>7. CASE rows'[id].status = "succeeded"
  <2>1. worker[w].ok
    BY <1>7, SettleWrites
  <2>2. Taken(rows[id])
    BY <1>1, <2>1 DEF Inv, SettleInv
  <2>3. id \in TakenSet
    BY <1>2, <2>2 DEF TakenSet
  <2>4. FateMap' = [FateMap EXCEPT ![id] = "delivered"]
    BY <1>6, <1>7, Fates
  <2>5. QED
    BY <1>1, <1>3, <1>5, <2>3, <2>4
       DEF Promise!Deliver, Promise!Becomes, FateMap, TakenSet
<1>8. CASE rows'[id].status = "dead_letter"
  <2>1. rows'[id].attempts = rows[id].attempts + 1 /\ rows'[id].attempts >= MaxAttempts
    BY <1>8, SettleWrites
  <2>2. rows[id].attempts < tries[id]
    <3>1. worker[w].cur.attempts = rows[id].attempts
      BY <1>1 DEF SoloInv, WorkInv, Busy
    <3>2. QED
      BY <1>1, <3>1 DEF Inv, SettleInv
  <2>3. tries[id] >= MaxAttempts
    BY <2>1, <2>2, Numbers, TimesAssumption
  <2>4. FateMap' = [FateMap EXCEPT ![id] = "given_up"]
    BY <1>6, <1>8, Fates
  <2>5. QED
    BY <1>1, <1>3, <1>5, <2>3, <2>4
       DEF Promise!GiveUp, Promise!Becomes, FateMap, TakenSet
<1>9. CASE rows'[id].status = "pending"
  <2>1. \A r \in RowIds : SameFate(r)
    BY <1>2, <1>9 DEF SameFate
  <2>2. QED
    BY <1>1, <2>1, Unseen
<1>10. QED
  BY <1>7, <1>8, <1>9, SettleWrites

(* Clean-up forgets settled rows.                                            *)
LEMMA CleanupPromise ==
    ASSUME Inv, Cleanup
    PROVE  \E R \in SUBSET RowIds : Promise!Forget(R)
<1> DEFINE R == {r \in RowIds : Reapable(rows[r])}
<1>1. tries' = tries /\ begun' = begun /\ heard' = heard
  BY DEF Cleanup, peerVars
<1>2. \A r \in RowIds : r \notin R => rows'[r] = rows[r]
  BY DEF Cleanup
<1>3. ASSUME NEW r \in R
      PROVE  /\ rows[r].status \in {"succeeded", "dead_letter"}
             /\ rows'[r].status = "deleted"
             /\ rows'[r].kind = rows[r].kind /\ rows'[r].msg = rows[r].msg
  <2>1. rows[r] \in RowType /\ rows'[r] = [rows[r] EXCEPT !.status = "deleted",
                                                          !.data = FALSE]
    BY DEF Cleanup, Inv, TypeOK
  <2>2. QED
    BY <2>1 DEF Reapable, RowType
<1>4. \A r \in R : FateMap[r] \in {"delivered", "given_up", "forgotten"}
  BY <1>3, Fates DEF FateMap
<1>5. FateMap' = [r \in RowIds |-> IF r \in R THEN "forgotten" ELSE FateMap[r]]
  <2>1. ASSUME NEW r \in RowIds
        PROVE  Fate(rows'[r]) = IF r \in R THEN "forgotten" ELSE Fate(rows[r])
    BY <1>2, <1>3, Fates
  <2>2. QED
    BY <2>1 DEF FateMap
<1>6. TakenSet' = TakenSet
  <2>1. ASSUME NEW r \in RowIds PROVE r \in TakenSet' <=> r \in TakenSet
    <3>1. CASE r \in R
      BY <1>1, <1>3, <3>1 DEF TakenSet, Taken
    <3>2. CASE r \notin R
      BY <1>1, <1>2, <3>2 DEF TakenSet, Taken
    <3>3. QED
      BY <3>1, <3>2
  <2>2. QED
    BY <2>1 DEF TakenSet
<1>7. Promise!Forget(R)
  BY <1>1, <1>4, <1>5, <1>6 DEF Promise!Forget, Promise!Settled, FateMap, TakenSet
<1>8. QED
  BY <1>7

(* The peer takes what a request carries, and with it every row of the same  *)
(* content.                                                                  *)
LEMMA TakePromise ==
    ASSUME Inv, SoloInv, NEW q \in wire,
           PeerStarts(q) \/ PeerClaims(q) \/ PeerClaimOpen(q)
    PROVE  \E R \in SUBSET RowIds : Promise!Take(R)
<1>1. /\ rows' = rows /\ tries' = tries
      /\ begun \subseteq begun' /\ heard \subseteq heard'
  BY DEF PeerStarts, PeerClaims, PeerClaimOpen
<1>2. PICK id \in RowIds : id = q.id
  BY DEF Inv, TypeOK, RequestType
<1>3. rows[id].status # "free" /\ tries[id] > 0
  BY <1>2 DEF Inv, WireInv, SoloInv, SentInv
<1>4. IF rows[id].kind = "dm" THEN rows[id].msg \in begun'
                              ELSE rows[id].msg \in heard'
  BY <1>2 DEF PeerStarts, PeerClaims, PeerClaimOpen, MsgOf
<1>5. id \in TakenSet'
  BY <1>1, <1>3, <1>4 DEF TakenSet, Taken
<1>6. TakenSet \subseteq TakenSet'
  BY <1>1 DEF TakenSet, Taken
<1>7. \A r \in TakenSet' : FateMap[r] # "unborn"
  <2> SUFFICES ASSUME NEW r \in TakenSet' PROVE FateMap[r] # "unborn"
    OBVIOUS
  <2>1. r \in RowIds /\ rows[r].status # "free"
    BY <1>1 DEF TakenSet
  <2>2. rows[r].status \in {"pending", "in_flight", "succeeded", "dead_letter", "deleted"}
    BY <2>1 DEF Inv, TypeOK, RowType, Statuses
  <2>3. QED
    BY <2>1, <2>2, Fates DEF FateMap
<1>8. FateMap' = FateMap
  BY <1>1, UnchangedFates
<1>9. TakenSet' \in SUBSET RowIds
  BY DEF TakenSet
<1>10. PICK R \in SUBSET RowIds : R = TakenSet'
  BY <1>9
<1>11. TakenSet' = TakenSet \cup R
  BY <1>6, <1>10
<1>12. /\ \A r \in R : FateMap[r] # "unborn"
       /\ \E r \in R : tries[r] > 0
  BY <1>3, <1>5, <1>7, <1>10
<1>13. Promise!Take(R)
  BY <1>1, <1>8, <1>11, <1>12 DEF Promise!Take, Promise!Unborn, FateMap, TakenSet
<1>14. QED
  BY <1>13

(* Recovery, a claim and the clock change no row to the promise.             *)
LEMMA QuietRows ==
    ASSUME Inv, (\E w \in Workers : Recover(w) \/ Claim(w)) \/ Tick
    PROVE  \A r \in RowIds : SameFate(r)
<1>1. \A r \in RowIds : rows[r] \in RowType
  BY DEF Inv, TypeOK
<1>2. ASSUME NEW w \in Workers, Recover(w), NEW r \in RowIds PROVE SameFate(r)
  <2>1. \/ rows'[r] = rows[r]
        \/ /\ rows[r].status = "in_flight"
           /\ rows'[r] = [rows[r] EXCEPT !.status = "pending"]
    BY <1>2 DEF Recover, Stuck
  <2>2. QED
    BY <1>1, <2>1 DEF SameFate, RowType
<1>3. ASSUME NEW w \in Workers, Claim(w), NEW r \in RowIds PROVE SameFate(r)
  <2>1. PICK c \in worker[w].batch :
          /\ rows[c.id].status = "pending"
          /\ rows' = [rows EXCEPT ![c.id].status = "in_flight", ![c.id].due = 0]
    BY <1>3 DEF Claim, First, MayClaim
  <2>2. c.id \in RowIds
    BY DEF Inv, TypeOK, WorkerType, CopyType
  <2>3. \/ rows'[r] = rows[r]
        \/ /\ rows[r].status = "pending"
           /\ rows'[r] = [rows[r] EXCEPT !.status = "in_flight", !.due = 0]
    BY <2>1, <2>2 DEF Inv, TypeOK
  <2>4. QED
    BY <1>1, <2>3 DEF SameFate, RowType
<1>4. ASSUME Tick, NEW r \in RowIds PROVE SameFate(r)
  <2>1. rows'[r] = rows[r] \/ rows'[r] = OlderRow(rows[r])
    BY <1>4 DEF Tick
  <2>2. QED
    BY <1>1, <2>1, OlderRowKeeps DEF SameFate
<1>5. QED
  BY <1>2, <1>3, <1>4

Quiet == /\ \A r \in RowIds : SameFate(r)
         /\ tries' = tries /\ begun' = begun /\ heard' = heard

(* What a step may be: it writes the outcome of a row, puts one in or        *)
(* cleans up, or leaves every row as it is to the promise.                   *)
LEMMA Moves ==
    ASSUME Inv, [Next]_vars
    PROVE  \/ \E w \in Workers : Succeed(w) \/ RetryOrDead(w)
           \/ \E h \in Handlers, r \in RowIds : Insert(h, r)
           \/ Cleanup
           \/ \E w \in Workers : Forward(w)
           \/ \E q \in wire : PeerStarts(q) \/ PeerClaims(q) \/ PeerClaimOpen(q)
           \/ Quiet
<1>1. rows' = rows /\ tries' = tries /\ begun' = begun /\ heard' = heard => Quiet
  BY UnchangedFates DEF Quiet
<1>2. UNCHANGED vars => Quiet
  BY <1>1 DEF vars, peerVars
<1>3. ASSUME NEW w \in Workers,
             Fetch(w) \/ ClaimLost(w) \/ GiveUp(w) \/ RowFails(w) \/ Crash(w)
      PROVE  Quiet
  BY <1>1, <1>3 DEF Fetch, ClaimLost, GiveUp, RowFails, Crash, peerVars
<1>4. ASSUME (\E w \in Workers : Recover(w) \/ Claim(w)) \/ Tick PROVE Quiet
  BY <1>4, QuietRows DEF Quiet, Recover, Claim, Tick, peerVars
<1>5. ASSUME NEW h \in Handlers, NEW m \in Messages,
             SendFederated(h, m) \/ DeleteFederated(h, m)
      PROVE  Quiet
  BY <1>1, <1>5 DEF SendFederated, DeleteFederated, Lookup, peerVars
<1>6. ASSUME NEW q \in wire,
             \/ PeerRefuses(q) \/ PeerKnows(q) \/ PeerQueues(q) \/ PeerBacksOut(q)
             \/ PeerReplay(q) \/ PeerDeletes(q) \/ PeerDies(q)
      PROVE  Quiet
  BY <1>1, <1>6 DEF PeerRefuses, PeerKnows, PeerQueues, PeerBacksOut, PeerReplay,
     PeerDeletes, PeerDies, peerVars
<1>7. ASSUME NEW m \in Messages, PeerTakes(m) \/ PeerExpires(m) PROVE Quiet
  BY <1>1, <1>7 DEF PeerTakes, PeerExpires
<1>8. QED
  BY <1>2, <1>3, <1>4, <1>5, <1>6, <1>7 DEF Next, Work, Request, Peer

(* Every step of the queue is a step of the promise, or none.               *)
LEMMA PromiseStep ==
    OneWorker /\ Inv /\ SoloInv /\ [Next]_vars => [Promise!Next]_Promise!promise
<1> SUFFICES ASSUME OneWorker, Inv, SoloInv, [Next]_vars
             PROVE  Promise!Next \/ UNCHANGED Promise!promise
  OBVIOUS
<1>1. TypeOK' /\ \A w \in Workers : worker[w].cur.id \in RowIds
  BY TypeStep DEF Inv, TypeOK, WorkerType, CopyType
<1>2. ASSUME NEW w \in Workers, Succeed(w) \/ RetryOrDead(w)
      PROVE  Promise!Next \/ UNCHANGED Promise!promise
  BY <1>1, <1>2, SettlePromise DEF Promise!Next
<1>3. ASSUME NEW h \in Handlers, NEW r \in RowIds, Insert(h, r) PROVE Promise!Next
  BY <1>3, InsertPromise DEF Promise!Next
<1>4. CASE Cleanup
  BY <1>4, CleanupPromise DEF Promise!Next
<1>5. ASSUME NEW w \in Workers, Forward(w) PROVE Promise!Next
  BY <1>1, <1>5, ForwardPromise DEF Promise!Next
<1>6. ASSUME NEW q \in wire, PeerStarts(q) \/ PeerClaims(q) \/ PeerClaimOpen(q)
      PROVE  Promise!Next
  BY <1>6, TakePromise DEF Promise!Next
<1>7. QED
  BY <1>2, <1>3, <1>4, <1>5, <1>6, Moves, Unseen DEF Quiet

(* With one worker, the queue, its worker and its clean-up keep the promise  *)
(* of OutboxPromise: no row is settled without cause, settled twice or       *)
(* reopened, and none is offered again after it is settled.                  *)
THEOREM KeepsPromiseHolds == ASSUME OneWorker PROVE Spec => KeepsPromise
<1>1. Inv /\ SoloInv /\ [Next]_vars => Inv' /\ SoloInv'
  BY InvStep, SoloStep
<1>2. Inv /\ SoloInv /\ [Next]_vars => [Promise!Next]_Promise!promise
  BY PromiseStep
<1>3. QED
  BY InvInit, SoloInit, PromiseInit, <1>1, <1>2, PTL
     DEF Spec, KeepsPromise, Promise!Spec

(* With one worker a finished row stays finished until clean-up, as          *)
(* migration 005 has it; two workers that overlap break this.                *)
THEOREM FinalIsFinalHolds == ASSUME OneWorker PROVE Spec => FinalIsFinal
<1> DEFINE Final == \A r \in RowIds :
                      rows[r].status \in {"succeeded", "dead_letter"} =>
                          rows'[r].status \in {rows[r].status, "deleted"}
<1>1. Inv /\ SoloInv /\ [Next]_vars => Final
  <2> SUFFICES ASSUME Inv, SoloInv, [Next]_vars, NEW r \in RowIds,
                      rows[r].status \in {"succeeded", "dead_letter"}
               PROVE  rows'[r].status \in {rows[r].status, "deleted"}
    OBVIOUS
  <2>1. TypeOK' /\ \A w \in Workers : worker[w].cur.id \in RowIds
    BY TypeStep DEF Inv, TypeOK, WorkerType, CopyType
  <2>2. ASSUME NEW w \in Workers, Succeed(w) \/ RetryOrDead(w)
        PROVE  rows'[r] = rows[r]
    BY <2>1, <2>2, SettleWrites
  <2>3. ASSUME NEW h \in Handlers, NEW s \in RowIds, Insert(h, s)
        PROVE  rows'[r] = rows[r]
    BY <2>3 DEF Insert, Inv, TypeOK
  <2>4. CASE Cleanup
    <3>1. \/ rows'[r] = rows[r]
          \/ rows'[r] = [rows[r] EXCEPT !.status = "deleted", !.data = FALSE]
      BY <2>4 DEF Cleanup
    <3>2. QED
      BY <3>1 DEF Inv, TypeOK, RowType
  <2>5. CASE \A s \in RowIds : SameFate(s)
    BY <2>5 DEF SameFate
  <2>6. CASE rows' = rows
    BY <2>6
  <2>7. QED
    BY <2>2, <2>3, <2>4, <2>5, <2>6, Moves
       DEF Quiet, Forward, PeerStarts, PeerClaims, PeerClaimOpen
<1>2. Inv /\ SoloInv /\ [Next]_vars => Inv' /\ SoloInv'
  BY InvStep, SoloStep
<1>3. QED
  BY InvInit, SoloInit, <1>1, <1>2, PTL DEF Spec, FinalIsFinal
=============================================================================
