----------------------- MODULE FederationOutboxProofs -----------------------
(* Proofs about FederationOutbox, for any number of rows, workers, request  *)
(* handlers and messages, any schedule of back-offs and any time limits.    *)
EXTENDS FederationOutbox, TLAPS

(* What a worker holds in memory, and what is on the wire, never runs ahead *)
(* of the attempts really made and of what the peer has taken.              *)
Held(w) == IF worker[w].pc \in {"forward", "wait", "settle"}
           THEN worker[w].batch \cup {worker[w].cur} ELSE worker[w].batch

RowInv ==
    \A r \in RowIds :
        /\ rows[r].attempts <= tries[r]
        /\ rows[r].status \in {"pending", "in_flight"} =>
               rows[r].attempts < MaxAttempts

HeldInv ==
    \A w \in Workers : \A c \in Held(w) : /\ rows[c.id].status # "free"
                                          /\ c.attempts <= tries[c.id]

SettleInv ==
    \A w \in Workers :
        /\ worker[w].pc \in {"wait", "settle"} =>
               worker[w].cur.attempts < tries[worker[w].cur.id]
        /\ worker[w].pc = "settle" /\ worker[w].ok =>
               Taken(rows[worker[w].cur.id])

WireInv ==
    \A q \in wire :
        /\ rows[q.id].status # "free"
        /\ q.pc = "claimed" => Taken(rows[q.id])

KeyInv == seen \subseteq heard /\ meta \subseteq begun

OutcomeInv ==
    \A r \in RowIds :
        /\ rows[r].status = "succeeded" => Taken(rows[r])
        /\ rows[r].status = "dead_letter" => tries[r] >= MaxAttempts
        /\ rows[r].status = "deleted" => \/ Taken(rows[r])
                                         \/ tries[r] >= MaxAttempts

Inv == /\ TypeOK /\ RowInv /\ HeldInv /\ SettleInv /\ WireInv
       /\ KeyInv /\ OutcomeInv

(* What the peer has begun comes to an end that is written down.            *)
EndInv ==
    \A m \in begun :
        \/ m \in arrived \/ m \in dropped
        \/ \E q \in wire : Storing(q) /\ MsgOf(q) = m

----------------------------------------------------------------------------
(* The records that stand for "nothing" have their types.                   *)
LEMMA Constants ==
    /\ NoRow \in RowType /\ NoCopy \in CopyType /\ Resting \in WorkerType
    /\ NoRequest \in [pc : {"idle", "insert"}, kind : Kinds, msg : Messages]
<1>1. (CHOOSE m \in Messages : TRUE) \in Messages
  BY SetsAssumption
<1>2. (CHOOSE r \in RowIds : TRUE) \in RowIds
  BY SetsAssumption
<1>3. NoRow \in RowType
  BY <1>1, TimesAssumption DEF NoRow, RowType, Kinds
<1>4. NoCopy \in CopyType
  BY <1>2, TimesAssumption DEF NoCopy, CopyType
<1>5. Resting \in WorkerType
  BY <1>4 DEF Resting, WorkerType
<1>6. QED
  BY <1>1, <1>3, <1>4, <1>5 DEF NoRequest, Kinds

(* A row settled by mark_retry_or_dead is a row, and its new count of       *)
(* attempts is the one it was given.                                        *)
LEMMA FailedRow ==
    ASSUME NEW row \in RowType, NEW n \in 1 .. MaxAttempts
    PROVE  /\ Failed(row, n) \in RowType
           /\ Failed(row, n).attempts = n
           /\ Failed(row, n).kind = row.kind /\ Failed(row, n).msg = row.msg
           /\ Failed(row, n).status \in {"pending", "dead_letter"}
           /\ Failed(row, n).status = "pending" => n < MaxAttempts
           /\ Failed(row, n).status = "dead_letter" => n >= MaxAttempts
<1>1. n \in 0 .. MaxAttempts /\ Backoff[n] \in Int
  BY TimesAssumption
<1>2. CASE n >= MaxAttempts
  <2>1. Failed(row, n) = [row EXCEPT !.status = "dead_letter", !.attempts = n]
    BY <1>2 DEF Failed
  <2>2. QED
    BY <1>1, <1>2, <2>1 DEF RowType, Statuses
<1>3. CASE ~(n >= MaxAttempts)
  <2>1. Failed(row, n) = [row EXCEPT !.status = "pending", !.attempts = n,
                                     !.due = Backoff[n]]
    BY <1>3 DEF Failed
  <2>2. n < MaxAttempts
    BY <1>3, TimesAssumption
  <2>3. QED
    BY <1>1, <2>1, <2>2 DEF RowType, Statuses
<1>4. QED
  BY <1>2, <1>3

(* A row marked in flight.                                                  *)
LEMMA ClaimedRow ==
    ASSUME NEW row \in RowType
    PROVE  [row EXCEPT !.status = "in_flight", !.due = 0] \in RowType
<1>1. "in_flight" \in Statuses \cup {"free", "deleted"} /\ 0 \in Int
  BY DEF Statuses
<1>2. QED
  BY <1>1 DEF RowType

(* The passing of time changes neither what a row is nor how far it has     *)
(* come.                                                                    *)
LEMMA OlderRowKeeps ==
    ASSUME NEW row \in RowType
    PROVE  /\ OlderRow(row) \in RowType
           /\ OlderRow(row).kind = row.kind /\ OlderRow(row).msg = row.msg
           /\ OlderRow(row).status = row.status
           /\ OlderRow(row).attempts = row.attempts
<1>1. CASE row.status = "succeeded"
  <2>1. PICK a \in Nat : OlderRow(row) = [row EXCEPT !.age = a]
    BY <1>1 DEF OlderRow, RowType
  <2>2. QED
    BY <2>1 DEF RowType
<1>2. CASE row.status # "succeeded"
  <2>1. PICK d \in Int : OlderRow(row) = [row EXCEPT !.due = d]
    BY <1>2 DEF OlderRow, RowType
  <2>2. QED
    BY <2>1 DEF RowType
<1>3. QED
  BY <1>1, <1>2

(* A request keeps what it carries while it ages.                           *)
LEMMA OlderKeeps ==
    ASSUME NEW q \in RequestType
    PROVE  Older(q) \in RequestType /\ Older(q).id = q.id /\ Older(q).pc = q.pc
<1>1. PICK a \in Nat : Older(q) = [q EXCEPT !.age = a]
  BY DEF Older, RequestType
<1>2. QED
  BY <1>1 DEF RequestType

----------------------------------------------------------------------------
(* A step moves history only forward.                                       *)
Onward == /\ \A r \in RowIds : tries[r] <= tries'[r]
          /\ begun \subseteq begun' /\ heard \subseteq heard'

(* A row keeps what it is, is not un-inserted, and its new status is one    *)
(* that it has earned.                                                      *)
RowStep(r) ==
    /\ rows[r].status # "free" => /\ rows'[r].kind = rows[r].kind
                                  /\ rows'[r].msg = rows[r].msg
                                  /\ rows'[r].status # "free"
    /\ rows'[r].attempts <= tries'[r]
    /\ rows'[r].status \in {"pending", "in_flight"} =>
           rows'[r].attempts < MaxAttempts
    /\ rows'[r].status = "succeeded" => Taken(rows[r])'
    /\ rows'[r].status = "dead_letter" => tries'[r] >= MaxAttempts
    /\ rows'[r].status = "deleted" => \/ Taken(rows[r])'
                                      \/ tries'[r] >= MaxAttempts

(* A row that does not change has still earned its status.                  *)
LEMMA SameRow ==
    ASSUME Inv, TypeOK', Onward, NEW r \in RowIds, rows'[r] = rows[r]
    PROVE  RowStep(r)
<1>1. /\ tries[r] \in Nat /\ tries'[r] \in Nat /\ tries[r] <= tries'[r]
      /\ rows[r].attempts \in Nat /\ MaxAttempts \in Nat
  BY TimesAssumption DEF Inv, TypeOK, RowType, Onward
<1>2. Taken(rows[r]) => Taken(rows[r])'
  BY DEF Taken, Onward
<1>3. /\ rows[r].attempts <= tries[r]
      /\ rows[r].status \in {"pending", "in_flight"} => rows[r].attempts < MaxAttempts
      /\ rows[r].status = "succeeded" => Taken(rows[r])
      /\ rows[r].status = "dead_letter" => tries[r] >= MaxAttempts
      /\ rows[r].status = "deleted" => Taken(rows[r]) \/ tries[r] >= MaxAttempts
  BY DEF Inv, RowInv, OutcomeInv
<1>4. QED
  BY <1>1, <1>2, <1>3 DEF RowStep

(* What was true of the row of a copy or of a request stays true of it.     *)
LEMMA Transfer ==
    ASSUME Inv, TypeOK', Onward, NEW r \in RowIds, RowStep(r),
           rows[r].status # "free"
    PROVE  /\ rows'[r].status # "free"
           /\ rows'[r].kind = rows[r].kind /\ rows'[r].msg = rows[r].msg
           /\ Taken(rows[r]) => Taken(rows[r])'
           /\ \A n \in Nat : /\ n <= tries[r] => n <= tries'[r]
                             /\ n < tries[r] => n < tries'[r]
<1>1. tries[r] \in Nat /\ tries'[r] \in Nat /\ tries[r] <= tries'[r]
  BY DEF Inv, TypeOK, Onward
<1>2. QED
  BY <1>1 DEF RowStep, Onward, Taken

(* Sound(A) collects what the following lemmas assume of a step.            *)
Sound == Inv /\ TypeOK' /\ Onward /\ \A r \in RowIds : RowStep(r)

(* Workers that remember no more than before remember nothing wrong.        *)
LEMMA HeldKept ==
    ASSUME Sound, \A w \in Workers : Held(w)' \subseteq Held(w)
    PROVE  HeldInv'
<1> SUFFICES ASSUME NEW w \in Workers, NEW c \in Held(w)'
             PROVE  rows'[c.id].status # "free" /\ c.attempts <= tries'[c.id]
  BY DEF HeldInv
<1>1. c \in Held(w)
  OBVIOUS
<1>2. c \in CopyType
  BY <1>1 DEF Sound, Inv, TypeOK, WorkerType, Held
<1>3. c.id \in RowIds /\ c.attempts \in Nat
  BY <1>2, TimesAssumption DEF CopyType
<1>4. rows[c.id].status # "free" /\ c.attempts <= tries[c.id]
  BY <1>1 DEF Sound, Inv, HeldInv
<1>5. QED
  BY <1>3, <1>4, Transfer DEF Sound

(* A worker about to settle a row was already at work on it; if it has good *)
(* news, they are old or true.                                              *)
SettleStep(w) ==
    worker'[w].pc \in {"wait", "settle"} =>
        /\ worker[w].pc \in {"wait", "settle"} /\ worker'[w].cur = worker[w].cur
        /\ worker'[w].pc = "settle" /\ worker'[w].ok =>
               \/ worker[w].pc = "settle" /\ worker[w].ok
               \/ \A r \in RowIds : r = worker[w].cur.id => Taken(rows[r])'

(* Settling workers stay truthful when each of them does.                   *)
LEMMA SettleKept ==
    ASSUME Sound, \A w \in Workers : SettleStep(w)
    PROVE  SettleInv'
<1> SUFFICES ASSUME NEW w \in Workers, worker'[w].pc \in {"wait", "settle"},
                    NEW r \in RowIds, r = worker'[w].cur.id
             PROVE  /\ worker'[w].cur.attempts < tries'[r]
                    /\ worker'[w].pc = "settle" /\ worker'[w].ok => Taken(rows[r])'
  <2>1. \A w \in Workers : worker'[w].cur.id \in RowIds
    BY DEF Sound, TypeOK, WorkerType, CopyType
  <2>2. QED
    BY <2>1 DEF SettleInv, Taken
<1>1. worker[w].pc \in {"wait", "settle"} /\ worker'[w].cur = worker[w].cur
  BY DEF SettleStep
<1>2. worker[w].cur.attempts \in Nat
  BY TimesAssumption DEF Sound, Inv, TypeOK, WorkerType, CopyType
<1>3. rows[r].status # "free"
  BY <1>1 DEF Sound, Inv, HeldInv, Held
<1>4. /\ worker[w].cur.attempts < tries[r]
      /\ worker[w].pc = "settle" /\ worker[w].ok => Taken(rows[r])
  BY <1>1 DEF Sound, Inv, SettleInv
<1>5. /\ Taken(rows[r]) => Taken(rows[r])'
      /\ \A n \in Nat : n < tries[r] => n < tries'[r]
  BY <1>3, Transfer DEF Sound
<1>6. QED
  BY <1>1, <1>2, <1>4, <1>5 DEF SettleStep

(* Requests that were there before, with a claim made before, are no news.  *)
LEMMA WireKept ==
    ASSUME Sound,
           \A q \in wire' : \E p \in wire : /\ p.id = q.id
                                            /\ q.pc = "claimed" => p.pc = "claimed"
    PROVE  WireInv'
<1> SUFFICES ASSUME NEW q \in wire'
             PROVE  /\ rows'[q.id].status # "free"
                    /\ q.pc = "claimed" => Taken(rows[q.id])'
  BY DEF WireInv, Taken
<1>1. PICK p \in wire : p.id = q.id /\ (q.pc = "claimed" => p.pc = "claimed")
  OBVIOUS
<1>2. p.id \in RowIds
  BY DEF Sound, Inv, TypeOK, RequestType
<1>3. rows[p.id].status # "free"
  BY DEF Sound, Inv, WireInv
<1>4. /\ rows'[p.id].status # "free"
      /\ Taken(rows[p.id]) => Taken(rows[p.id])'
  BY <1>2, <1>3, Transfer DEF Sound
<1>5. p.pc = "claimed" => Taken(rows[p.id])'
  BY <1>4 DEF Sound, Inv, WireInv
<1>6. QED
  BY <1>1, <1>4, <1>5 DEF Taken

(* The rows themselves.                                                     *)
LEMMA RowsKept == ASSUME Sound PROVE RowInv' /\ OutcomeInv'
BY DEF Sound, RowStep, RowInv, OutcomeInv, Taken

(* A step that leaves the workers and the wire alone.                       *)
LEMMA Elsewhere ==
    ASSUME Sound, worker' = worker, wire' \subseteq wire, KeyInv'
    PROVE  Inv'
<1>1. HeldInv'
  BY HeldKept DEF Held
<1>2. SettleInv'
  BY SettleKept DEF SettleStep
<1>3. WireInv'
  BY WireKept
<1>4. QED
  BY <1>1, <1>2, <1>3, RowsKept DEF Sound, Inv

----------------------------------------------------------------------------
(* Type correctness, action by action.                                      *)
LEMMA TypeStep == TypeOK /\ RowInv /\ [Next]_vars => TypeOK'
<1> SUFFICES ASSUME TypeOK, RowInv, [Next]_vars PROVE TypeOK'
  OBVIOUS
<1>1. ASSUME NEW h \in Handlers, Request(h) PROVE TypeOK'
  <2>1. ASSUME NEW m \in Messages, SendFederated(h, m) \/ DeleteFederated(h, m)
        PROVE  TypeOK'
    BY <2>1 DEF SendFederated, DeleteFederated, Lookup, TypeOK, peerVars, Kinds
  <2>2. ASSUME NEW r \in RowIds, Insert(h, r) PROVE TypeOK'
    <3>1. rows' \in [RowIds -> RowType]
      BY <2>2, Constants DEF Insert, TypeOK, RowType, Statuses
    <3>2. QED
      BY <2>2, <3>1, Constants DEF Insert, TypeOK, peerVars
  <2>3. QED
    BY <1>1, <2>1, <2>2 DEF Request
<1>2. ASSUME NEW w \in Workers, Recover(w) PROVE TypeOK'
  <2>1. rows' \in [RowIds -> RowType]
    BY <1>2 DEF Recover, TypeOK, RowType, Statuses
  <2>2. worker' \in [Workers -> WorkerType]
    BY <1>2 DEF Recover, TypeOK, WorkerType
  <2>3. QED
    BY <1>2, <2>1, <2>2 DEF Recover, TypeOK, peerVars
<1>3. ASSUME NEW w \in Workers, Fetch(w) PROVE TypeOK'
  <2>1. PICK B \in SUBSET RowIds :
          /\ IsBatch(B)
          /\ worker' = [worker EXCEPT ![w] =
                          [Resting EXCEPT !.pc = Later(B),
                                          !.batch = {Copy(r) : r \in B}]]
    BY <1>3 DEF Fetch
  <2>2. \A r \in B : Copy(r) \in CopyType
    <3> SUFFICES ASSUME NEW r \in B PROVE Copy(r) \in CopyType
      OBVIOUS
    <3>1. r \in RowIds /\ rows[r].status = "pending"
      BY <2>1 DEF IsBatch, Ready
    <3>2. rows[r].attempts \in 0 .. MaxAttempts - 1
      BY <3>1, TimesAssumption DEF TypeOK, RowType, RowInv
    <3>3. QED
      BY <3>1, <3>2 DEF Copy, CopyType, TypeOK, RowType
  <2>3. Later(B) \in {"idle", "claim"}
    BY DEF Later
  <2>4. [Resting EXCEPT !.pc = Later(B), !.batch = {Copy(r) : r \in B}]
            \in WorkerType
    BY <2>2, <2>3, Constants DEF WorkerType
  <2>5. worker' \in [Workers -> WorkerType]
    BY <2>1, <2>4 DEF TypeOK
  <2>6. QED
    BY <1>3, <2>5 DEF Fetch, TypeOK, peerVars
<1>4. ASSUME NEW w \in Workers, Claim(w) PROVE TypeOK'
  <2>1. PICK c \in First(worker[w].batch) :
          /\ rows' = [rows EXCEPT ![c.id].status = "in_flight", ![c.id].due = 0]
          /\ worker' = [worker EXCEPT ![w].pc = "forward", ![w].cur = c,
                                      ![w].batch = @ \ {c}]
    BY <1>4 DEF Claim
  <2>2. c \in CopyType /\ c.id \in RowIds
    BY DEF First, TypeOK, WorkerType, CopyType
  <2>3. rows' \in [RowIds -> RowType]
    <3>1. rows' = [rows EXCEPT ![c.id] = [rows[c.id] EXCEPT !.status = "in_flight",
                                                            !.due = 0]]
      BY <2>1, <2>2 DEF TypeOK
    <3>2. [rows[c.id] EXCEPT !.status = "in_flight", !.due = 0] \in RowType
      BY <2>2, ClaimedRow DEF TypeOK
    <3>3. QED
      BY <3>1, <3>2 DEF TypeOK
  <2>4. worker' \in [Workers -> WorkerType]
    <3> DEFINE new == [worker[w] EXCEPT !.pc = "forward", !.cur = c,
                                        !.batch = worker[w].batch \ {c}]
    <3>1. worker' = [worker EXCEPT ![w] = new]
      BY <2>1 DEF TypeOK
    <3>2. new \in WorkerType
      BY <2>2 DEF TypeOK, WorkerType
    <3>3. QED
      BY <3>1, <3>2 DEF TypeOK
  <2>5. QED
    BY <1>4, <2>3, <2>4 DEF Claim, TypeOK, peerVars
<1>5. ASSUME NEW w \in Workers, NEW b \in SUBSET worker[w].batch,
             worker' = [worker EXCEPT ![w] = [Resting EXCEPT !.pc = Later(b),
                                                             !.batch = b]]
      PROVE  worker' \in [Workers -> WorkerType]
  <2>1. Later(b) \in {"idle", "claim"} /\ b \in SUBSET CopyType
    BY DEF Later, TypeOK, WorkerType
  <2>2. QED
    BY <1>5, <2>1, Constants DEF TypeOK, WorkerType
<1>6. ASSUME NEW w \in Workers, ClaimLost(w) PROVE TypeOK'
  <2>1. worker' \in [Workers -> WorkerType]
    <3>1. PICK c : Skip(w, c)
      BY <1>6 DEF ClaimLost
    <3>2. worker[w].batch \ {c} \in SUBSET worker[w].batch
      OBVIOUS
    <3>3. QED
      BY <3>1, <3>2, <1>5 DEF Skip
  <2>2. QED
    BY <1>6, <2>1 DEF ClaimLost, TypeOK, peerVars
<1>7. ASSUME NEW w \in Workers, Forward(w) PROVE TypeOK'
  <2>1. worker[w].cur \in CopyType
    BY DEF TypeOK, WorkerType
  <2>2. worker[w].cur.id \in RowIds /\ worker[w].cur.data \in BOOLEAN
    BY <2>1 DEF CopyType
  <2>3. tries' \in [RowIds -> Nat] /\ tries[worker[w].cur.id] + 1 \in Nat
    BY <1>7, <2>2 DEF Forward, TypeOK
  <2>4. wire' \subseteq RequestType
    BY <1>7, <2>2, <2>3 DEF Forward, TypeOK, RequestType
  <2>5. worker' \in [Workers -> WorkerType]
    BY <1>7, <2>3 DEF Forward, TypeOK, WorkerType
  <2>6. QED
    BY <1>7, <2>3, <2>4, <2>5 DEF Forward, TypeOK, peerVars
<1>8. ASSUME NEW w \in Workers, GiveUp(w) PROVE TypeOK'
  BY <1>8 DEF GiveUp, TypeOK, WorkerType, peerVars
<1>9. ASSUME NEW w \in Workers, Succeed(w) PROVE TypeOK'
  <2>1. worker' \in [Workers -> WorkerType]
    BY <1>9, <1>5 DEF Succeed, Proceed
  <2>2. rows' \in [RowIds -> RowType]
    <3> DEFINE r == worker[w].cur.id
               new == [rows[r] EXCEPT !.status = "succeeded", !.age = 0,
                                      !.data = FALSE]
    <3>1. r \in RowIds
      BY DEF TypeOK, WorkerType, CopyType
    <3>2. rows' = rows \/ rows' = [rows EXCEPT ![r] = new]
      BY <1>9, <3>1 DEF Succeed, TypeOK
    <3>3. new \in RowType
      <4>1. rows[r] \in RowType
        BY <3>1 DEF TypeOK
      <4>2. QED
        BY <4>1 DEF RowType, Statuses
    <3>4. QED
      BY <3>2, <3>3 DEF TypeOK
  <2>3. QED
    BY <1>9, <2>1, <2>2 DEF Succeed, TypeOK, peerVars
<1>10. ASSUME NEW w \in Workers, RetryOrDead(w) PROVE TypeOK'
  <2>1. worker' \in [Workers -> WorkerType]
    BY <1>10, <1>5 DEF RetryOrDead, Proceed
  <2>2. worker[w].cur.attempts + 1 \in 1 .. MaxAttempts /\ worker[w].cur.id \in RowIds
    BY TimesAssumption DEF TypeOK, WorkerType, CopyType
  <2>3. rows' \in [RowIds -> RowType]
    BY <1>10, <2>2, FailedRow DEF RetryOrDead, TypeOK
  <2>4. QED
    BY <1>10, <2>1, <2>3 DEF RetryOrDead, TypeOK, peerVars
<1>11. ASSUME NEW w \in Workers, RowFails(w) PROVE TypeOK'
  <2>1. worker' \in [Workers -> WorkerType]
    <3>1. CASE \E c : Skip(w, c)
      <4>1. PICK c : Skip(w, c)
        BY <3>1
      <4>2. worker[w].batch \ {c} \in SUBSET worker[w].batch
        OBVIOUS
      <4>3. QED
        BY <4>1, <4>2, <1>5 DEF Skip
    <3>2. CASE Proceed(w)
      BY <3>2, <1>5 DEF Proceed
    <3>3. QED
      BY <1>11, <3>1, <3>2 DEF RowFails
  <2>2. QED
    BY <1>11, <2>1 DEF RowFails, TypeOK, peerVars
<1>12. ASSUME NEW w \in Workers, Crash(w) PROVE TypeOK'
  BY <1>12, Constants DEF Crash, TypeOK, peerVars
<1>13. ASSUME NEW q \in wire, NEW ok \in BOOLEAN, Answer(q, ok)
       PROVE  worker' \in [Workers -> WorkerType] /\ wire' \subseteq RequestType
  BY <1>13 DEF Answer, TypeOK, WorkerType
<1>14. \A q \in wire : MsgOf(q) \in Messages
  BY DEF TypeOK, RequestType, RowType, MsgOf
<1>15. ASSUME NEW q \in wire,
              \/ PeerRefuses(q) \/ PeerKnows(q) \/ PeerQueues(q)
              \/ PeerBacksOut(q) \/ PeerReplay(q) \/ PeerDeletes(q)
       PROVE  TypeOK'
  <2>1. worker' \in [Workers -> WorkerType] /\ wire' \subseteq RequestType
    BY <1>13, <1>15 DEF PeerRefuses, PeerKnows, PeerQueues, PeerBacksOut,
       PeerReplay, PeerDeletes
  <2>2. UNCHANGED <<rows, handler, tries, seen, begun, heard, faults, crashes>>
    BY <1>15 DEF PeerRefuses, PeerKnows, PeerQueues, PeerBacksOut, PeerReplay,
       PeerDeletes, peerVars
  <2>3. CASE PeerRefuses(q) \/ PeerKnows(q) \/ PeerReplay(q)
    BY <2>1, <2>2, <2>3 DEF PeerRefuses, PeerKnows, PeerReplay, TypeOK, peerVars
  <2>4. CASE PeerQueues(q)
    BY <1>14, <2>1, <2>2, <2>4 DEF PeerQueues, TypeOK
  <2>5. CASE PeerBacksOut(q)
    <3>1. /\ queued' \subseteq Messages /\ arrived' \subseteq Messages
          /\ dropped' \subseteq Messages
      BY <1>14, <2>5 DEF PeerBacksOut, TypeOK
    <3>2. meta' \subseteq Messages
      BY <2>5 DEF PeerBacksOut, TypeOK
    <3>3. QED
      BY <2>1, <2>2, <3>1, <3>2 DEF TypeOK
  <2>6. CASE PeerDeletes(q)
    BY <2>1, <2>2, <2>6 DEF PeerDeletes, TypeOK
  <2>7. QED
    BY <1>15, <2>3, <2>4, <2>5, <2>6
<1>16. ASSUME NEW q \in wire,
              PeerStarts(q) \/ PeerClaims(q) \/ PeerClaimOpen(q)
       PROVE  TypeOK'
  <2>1. [q EXCEPT !.pc = "claimed"] \in RequestType
    BY DEF TypeOK, RequestType
  <2>2. QED
    BY <1>14, <1>16, <2>1 DEF PeerStarts, PeerClaims, PeerClaimOpen, TypeOK
<1>17. ASSUME NEW q \in wire, PeerDies(q) PROVE TypeOK'
  BY <1>14, <1>17 DEF PeerDies, TypeOK
<1>18. ASSUME NEW m \in Messages, PeerTakes(m) \/ PeerExpires(m)
       PROVE  TypeOK'
  BY <1>18 DEF PeerTakes, PeerExpires, TypeOK
<1>19. CASE Cleanup
  <2>1. rows' \in [RowIds -> RowType]
    <3>1. \A r \in RowIds : rows[r] \in RowType
      BY DEF TypeOK
    <3>2. \A r \in RowIds :
              [rows[r] EXCEPT !.status = "deleted", !.data = FALSE] \in RowType
      BY <3>1 DEF RowType
    <3>3. QED
      BY <1>19, <3>1, <3>2 DEF Cleanup
  <2>2. QED
    BY <1>19, <2>1 DEF Cleanup, TypeOK, peerVars
<1>20. CASE Tick
  <2>1. rows' \in [RowIds -> RowType]
    BY <1>20, OlderRowKeeps DEF Tick, TypeOK
  <2>2. wire' \subseteq RequestType
    BY <1>20, OlderKeeps DEF Tick, TypeOK
  <2>3. QED
    BY <1>20, <2>1, <2>2 DEF Tick, TypeOK, peerVars
<1>21. CASE UNCHANGED vars
  BY <1>21 DEF vars, peerVars, TypeOK
<1>22. QED
  BY <1>1, <1>2, <1>3, <1>4, <1>6, <1>7, <1>8, <1>9, <1>10, <1>11, <1>12, <1>15,
     <1>16, <1>17, <1>18, <1>19, <1>20, <1>21 DEF Next, Work, Peer

----------------------------------------------------------------------------
(* The inductive invariant, action by action.                               *)

(* Table steps of the handlers and of clean-up.                             *)
LEMMA HandlerStep ==
    ASSUME Inv, TypeOK', NEW h \in Handlers, Request(h)
    PROVE  Inv'
<1>1. /\ UNCHANGED <<worker, wire, tries, meta, seen, begun, heard>>
  BY DEF Request, SendFederated, DeleteFederated, Lookup, Insert, peerVars
<1>2. Onward
  BY <1>1 DEF Onward, Inv, TypeOK
<1>3. \A r \in RowIds : RowStep(r)
  <2> SUFFICES ASSUME NEW r \in RowIds PROVE RowStep(r)
    OBVIOUS
  <2>1. CASE rows'[r] = rows[r]
    BY <2>1, <1>2, SameRow
  <2>2. CASE rows'[r] # rows[r]
    <3>1. Insert(h, r)
      BY <2>2 DEF Request, SendFederated, DeleteFederated, Lookup, Insert, Inv,
                  TypeOK
    <3>2. /\ rows[r].status = "free" /\ rows'[r].status = "pending"
          /\ rows'[r].attempts = 0
      BY <3>1 DEF Insert, NoRow, Inv, TypeOK
    <3>3. tries'[r] \in Nat /\ MaxAttempts \in Nat \ {0}
      BY TimesAssumption DEF TypeOK
    <3>4. QED
      BY <3>2, <3>3 DEF RowStep
  <2>3. QED
    BY <2>1, <2>2
<1>4. QED
  BY <1>1, <1>2, <1>3, Elsewhere DEF Sound, Inv, KeyInv

(* The clean-up deletes settled rows only.                                  *)
LEMMA CleanupStep == ASSUME Inv, TypeOK', Cleanup PROVE Inv'
<1>1. UNCHANGED <<worker, wire, tries, meta, seen, begun, heard>>
  BY DEF Cleanup, peerVars
<1>2. Onward
  BY <1>1 DEF Onward, Inv, TypeOK
<1>3. \A r \in RowIds : RowStep(r)
  <2> SUFFICES ASSUME NEW r \in RowIds PROVE RowStep(r)
    OBVIOUS
  <2>1. CASE ~Reapable(rows[r])
    BY <2>1, <1>2, SameRow DEF Cleanup
  <2>2. CASE Reapable(rows[r])
    <3>1. rows[r] \in RowType
      BY DEF Inv, TypeOK
    <3>2. rows'[r] = [rows[r] EXCEPT !.status = "deleted", !.data = FALSE]
      BY <2>2 DEF Cleanup
    <3>3. /\ rows'[r].status = "deleted" /\ rows'[r].attempts = rows[r].attempts
          /\ rows'[r].kind = rows[r].kind /\ rows'[r].msg = rows[r].msg
      BY <3>1, <3>2 DEF RowType
    <3>4. rows[r].attempts <= tries'[r]
      BY <1>1 DEF Inv, RowInv
    <3>5. Taken(rows[r]) \/ tries[r] >= MaxAttempts
      BY <2>2 DEF Reapable, Inv, OutcomeInv
    <3>6. Taken(rows[r])' \/ tries'[r] >= MaxAttempts
      BY <1>1, <3>3, <3>5 DEF Taken
    <3>7. QED
      BY <3>3, <3>4, <3>6 DEF RowStep
  <2>3. QED
    BY <2>1, <2>2
<1>4. QED
  BY <1>1, <1>2, <1>3, Elsewhere DEF Sound, Inv, KeyInv

(* Time.                                                                    *)
LEMMA TickStep == ASSUME Inv, TypeOK', Tick PROVE Inv'
<1>1. UNCHANGED <<worker, tries, meta, seen, begun, heard>>
  BY DEF Tick, peerVars
<1>2. Onward
  BY <1>1 DEF Onward, Inv, TypeOK
<1>3. \A r \in RowIds : RowStep(r)
  <2> SUFFICES ASSUME NEW r \in RowIds PROVE RowStep(r)
    OBVIOUS
  <2>1. /\ rows'[r].kind = rows[r].kind /\ rows'[r].msg = rows[r].msg
        /\ rows'[r].status = rows[r].status
        /\ rows'[r].attempts = rows[r].attempts
    BY OlderRowKeeps DEF Tick, Inv, TypeOK
  <2>2. Taken(rows[r]) => Taken(rows[r])'
    BY <1>1, <2>1 DEF Taken
  <2>3. QED
    BY <1>1, <2>1, <2>2 DEF RowStep, Inv, RowInv, OutcomeInv
<1>4. HeldInv' /\ SettleInv'
  BY <1>1, <1>2, <1>3, HeldKept, SettleKept DEF Sound, Held, SettleStep
<1>5. WireInv'
  <2>1. \A q \in wire' : \E p \in wire : /\ p.id = q.id
                                         /\ q.pc = "claimed" => p.pc = "claimed"
    <3> SUFFICES ASSUME NEW q \in wire'
                 PROVE  \E p \in wire : p.id = q.id /\ p.pc = q.pc
      OBVIOUS
    <3>1. PICK p \in wire : q = Older(p)
      BY DEF Tick
    <3>2. QED
      BY <3>1, OlderKeeps DEF Inv, TypeOK
  <2>2. QED
    BY <1>2, <1>3, <2>1, WireKept DEF Sound
<1>6. QED
  BY <1>1, <1>2, <1>3, <1>4, <1>5, RowsKept DEF Sound, Inv, KeyInv

----------------------------------------------------------------------------
(* Steps of one worker.                                                     *)

(* A worker that rests, or turns to the rest of its batch.                  *)
LEMMA MovesOn ==
    ASSUME Inv, TypeOK', NEW w \in Workers, NEW b \in SUBSET worker[w].batch,
           worker' = [worker EXCEPT ![w] = [Resting EXCEPT !.pc = Later(b),
                                                           !.batch = b]]
    PROVE  /\ \A v \in Workers : Held(v)' \subseteq Held(v)
           /\ \A v \in Workers : SettleStep(v)
<1>1. worker'[w].pc \in {"idle", "claim"} /\ worker'[w].batch = b
  BY Constants DEF Later, Inv, TypeOK, WorkerType
<1>2. \A v \in Workers : v # w => worker'[v] = worker[v]
  BY DEF Inv, TypeOK
<1>3. QED
  BY <1>1, <1>2 DEF Held, SettleStep

(* fetch_pending_batch, a lost claim, giving up, a logged exception and the *)
(* death of the worker change nothing but the worker.                       *)
LEMMA WorkerOnly ==
    ASSUME Inv, TypeOK', NEW w \in Workers,
           Fetch(w) \/ ClaimLost(w) \/ GiveUp(w) \/ RowFails(w) \/ Crash(w)
    PROVE  Inv'
<1>1. UNCHANGED <<rows, wire, tries, meta, seen, begun, heard>>
  BY DEF Fetch, ClaimLost, GiveUp, RowFails, Crash, peerVars
<1>2. Onward
  BY <1>1 DEF Onward, Inv, TypeOK
<1>3. Sound
  BY <1>1, <1>2, SameRow DEF Sound
<1>4. WireInv'
  BY <1>1, <1>3, WireKept
<1>5. CASE Fetch(w)
  <2>1. PICK B \in SUBSET RowIds :
          /\ IsBatch(B)
          /\ worker' = [worker EXCEPT ![w] =
                          [Resting EXCEPT !.pc = Later(B),
                                          !.batch = {Copy(r) : r \in B}]]
    BY <1>5 DEF Fetch
  <2>2. /\ worker'[w].pc \in {"idle", "claim"}
        /\ worker'[w].batch = {Copy(r) : r \in B}
    BY <2>1, Constants DEF Later, Inv, TypeOK, WorkerType
  <2>3. \A v \in Workers : v # w => worker'[v] = worker[v]
    BY <2>1 DEF Inv, TypeOK
  <2>4. HeldInv'
    <3> SUFFICES ASSUME NEW v \in Workers, NEW c \in Held(v)'
                 PROVE  rows[c.id].status # "free" /\ c.attempts <= tries[c.id]
      BY <1>1 DEF HeldInv
    <3>1. CASE v = w
      <4>1. PICK r \in B : c = Copy(r)
        BY <2>2, <3>1 DEF Held
      <4>2. /\ r \in RowIds /\ rows[r].status = "pending"
            /\ c.id = r /\ c.attempts = rows[r].attempts
        BY <2>1, <4>1 DEF IsBatch, Ready, Copy
      <4>3. QED
        BY <4>2 DEF Inv, RowInv
    <3>2. CASE v # w
      BY <2>3, <3>2 DEF Held, Inv, HeldInv
    <3>3. QED
      BY <3>1, <3>2
  <2>5. \A v \in Workers : SettleStep(v)
    BY <2>2, <2>3 DEF SettleStep
  <2>6. QED
    BY <1>1, <1>3, <1>4, <2>4, <2>5, SettleKept, RowsKept DEF Sound, Inv, KeyInv
<1>6. ASSUME \A v \in Workers : Held(v)' \subseteq Held(v),
             \A v \in Workers : SettleStep(v)
      PROVE  Inv'
  BY <1>1, <1>3, <1>4, <1>6, HeldKept, SettleKept, RowsKept DEF Sound, Inv, KeyInv
<1>7. ASSUME NEW c, Skip(w, c) PROVE Inv'
  <2>1. worker[w].batch \ {c} \in SUBSET worker[w].batch
    OBVIOUS
  <2>2. QED
    BY <1>6, <1>7, <2>1, MovesOn DEF Skip
<1>8. ASSUME Proceed(w) PROVE Inv'
  BY <1>6, <1>8, MovesOn DEF Proceed
<1>9. CASE GiveUp(w)
  <2>1. /\ worker[w].pc = "wait" /\ worker'[w].pc = "settle" /\ ~worker'[w].ok
        /\ worker'[w].cur = worker[w].cur /\ worker'[w].batch = worker[w].batch
        /\ \A v \in Workers : v # w => worker'[v] = worker[v]
    BY <1>9 DEF GiveUp, Inv, TypeOK, WorkerType
  <2>2. QED
    BY <1>6, <2>1 DEF Held, SettleStep
<1>10. CASE Crash(w)
  <2>1. /\ worker'[w] = Resting
        /\ \A v \in Workers : v # w => worker'[v] = worker[v]
    BY <1>10 DEF Crash, Inv, TypeOK
  <2>2. QED
    BY <1>6, <2>1 DEF Held, SettleStep, Resting
<1>11. QED
  BY <1>5, <1>7, <1>8, <1>9, <1>10 DEF ClaimLost, RowFails

(* recover_stuck_in_flight.                                                 *)
LEMMA RecoverStep == ASSUME Inv, TypeOK', NEW w \in Workers, Recover(w) PROVE Inv'
<1>1. UNCHANGED <<wire, tries, meta, seen, begun, heard>>
  BY DEF Recover, peerVars
<1>2. Onward
  BY <1>1 DEF Onward, Inv, TypeOK
<1>3. \A r \in RowIds : RowStep(r)
  <2> SUFFICES ASSUME NEW r \in RowIds PROVE RowStep(r)
    OBVIOUS
  <2>1. CASE ~Stuck(rows[r])
    BY <2>1, <1>2, SameRow DEF Recover
  <2>2. CASE Stuck(rows[r])
    <3>1. rows[r] \in RowType /\ rows[r].status = "in_flight"
      BY <2>2 DEF Inv, TypeOK, Stuck
    <3>2. rows'[r] = [rows[r] EXCEPT !.status = "pending"]
      BY <2>2 DEF Recover
    <3>3. /\ rows'[r].status = "pending" /\ rows'[r].attempts = rows[r].attempts
          /\ rows'[r].kind = rows[r].kind /\ rows'[r].msg = rows[r].msg
      BY <3>1, <3>2 DEF RowType
    <3>4. QED
      BY <1>1, <3>1, <3>3 DEF RowStep, Inv, RowInv
  <2>3. QED
    BY <2>1, <2>2
<1>4. Sound
  BY <1>2, <1>3 DEF Sound
<1>5. /\ worker[w].pc = "idle" /\ worker'[w].pc = "fetch"
      /\ worker'[w].batch = worker[w].batch
      /\ \A v \in Workers : v # w => worker'[v] = worker[v]
  BY DEF Recover, Inv, TypeOK, WorkerType
<1>6. HeldInv'
  BY <1>4, <1>5, HeldKept DEF Held
<1>7. SettleInv'
  BY <1>4, <1>5, SettleKept DEF SettleStep
<1>8. WireInv'
  BY <1>1, <1>4, WireKept
<1>9. QED
  BY <1>1, <1>4, <1>6, <1>7, <1>8, RowsKept DEF Sound, Inv, KeyInv

(* mark_in_flight.                                                          *)
LEMMA ClaimStep == ASSUME Inv, TypeOK', NEW w \in Workers, Claim(w) PROVE Inv'
<1>1. UNCHANGED <<wire, tries, meta, seen, begun, heard>>
  BY DEF Claim, peerVars
<1>2. Onward
  BY <1>1 DEF Onward, Inv, TypeOK
<1>3. PICK c \in worker[w].batch :
        /\ rows[c.id].status = "pending"
        /\ rows' = [rows EXCEPT ![c.id].status = "in_flight", ![c.id].due = 0]
        /\ worker' = [worker EXCEPT ![w].pc = "forward", ![w].cur = c,
                                    ![w].batch = @ \ {c}]
  BY DEF Claim, First, MayClaim
<1>4. c \in CopyType /\ c.id \in RowIds
  BY DEF Inv, TypeOK, WorkerType, CopyType
<1>5. \A r \in RowIds : RowStep(r)
  <2> SUFFICES ASSUME NEW r \in RowIds PROVE RowStep(r)
    OBVIOUS
  <2>1. CASE r # c.id
    BY <2>1, <1>2, <1>3, SameRow DEF Inv, TypeOK
  <2>2. CASE r = c.id
    <3>1. rows[r] \in RowType /\ rows[r].status = "pending"
      BY <1>3, <2>2 DEF Inv, TypeOK
    <3>2. rows'[r] = [rows[r] EXCEPT !.status = "in_flight", !.due = 0]
      BY <1>3, <2>2 DEF Inv, TypeOK
    <3>3. /\ rows'[r].status = "in_flight" /\ rows'[r].attempts = rows[r].attempts
          /\ rows'[r].kind = rows[r].kind /\ rows'[r].msg = rows[r].msg
      BY <3>1, <3>2 DEF RowType
    <3>4. QED
      BY <1>1, <3>1, <3>3 DEF RowStep, Inv, RowInv
  <2>3. QED
    BY <2>1, <2>2
<1>6. Sound
  BY <1>2, <1>5 DEF Sound
<1>7. /\ worker'[w].pc = "forward" /\ worker'[w].cur = c
      /\ worker'[w].batch = worker[w].batch \ {c}
      /\ \A v \in Workers : v # w => worker'[v] = worker[v]
  BY <1>3 DEF Inv, TypeOK, WorkerType
<1>8. HeldInv'
  BY <1>6, <1>7, HeldKept DEF Held
<1>9. SettleInv'
  BY <1>6, <1>7, SettleKept DEF SettleStep
<1>10. WireInv'
  BY <1>1, <1>6, WireKept
<1>11. QED
  BY <1>1, <1>6, <1>8, <1>9, <1>10, RowsKept DEF Sound, Inv, KeyInv

(* remote_forward: one attempt more.                                        *)
LEMMA ForwardStep == ASSUME Inv, TypeOK', NEW w \in Workers, Forward(w) PROVE Inv'
<1> DEFINE c == worker[w].cur
<1>1. UNCHANGED <<rows, meta, seen, begun, heard>>
  BY DEF Forward, peerVars
<1>2. PICK id \in RowIds : id = c.id
  BY DEF Inv, TypeOK, WorkerType, CopyType
<1>3. c.attempts \in Nat /\ tries[id] \in Nat
  BY TimesAssumption DEF Inv, TypeOK, WorkerType, CopyType
<1>4. tries' = [tries EXCEPT ![id] = tries[id] + 1]
  BY <1>2 DEF Forward
<1>5. Onward
  BY <1>1, <1>3, <1>4 DEF Onward, Inv, TypeOK
<1>6. Sound
  BY <1>1, <1>5, SameRow DEF Sound
<1>7. /\ worker[w].pc = "forward" /\ worker'[w].pc = "wait"
      /\ worker'[w].cur = c /\ worker'[w].batch = worker[w].batch
      /\ \A v \in Workers : v # w => worker'[v] = worker[v]
  BY DEF Forward, Inv, TypeOK, WorkerType
<1>8. HeldInv'
  BY <1>6, <1>7, HeldKept DEF Held
<1>9. rows[id].status # "free" /\ c.attempts <= tries[id]
  BY <1>2, <1>7 DEF Inv, HeldInv, Held
<1>10. SettleInv'
  <2> SUFFICES ASSUME NEW v \in Workers
               PROVE  /\ worker'[v].pc \in {"wait", "settle"} =>
                            worker'[v].cur.attempts < tries'[worker'[v].cur.id]
                      /\ worker'[v].pc = "settle" /\ worker'[v].ok =>
                            Taken(rows[worker[v].cur.id])'
    BY DEF SettleInv
  <2>1. CASE v = w
    <3>1. tries'[id] = tries[id] + 1
      BY <1>4 DEF Inv, TypeOK
    <3>2. c.attempts < tries'[id]
      BY <1>3, <1>9, <3>1
    <3>3. QED
      BY <1>2, <1>7, <2>1, <3>2
  <2>2. CASE v # w
    <3>1. PICK r \in RowIds : r = worker[v].cur.id
      BY DEF Inv, TypeOK, WorkerType, CopyType
    <3>2. worker[v].cur.attempts \in Nat /\ tries[r] \in Nat /\ tries'[r] \in Nat
      <4>1. worker[v].cur \in CopyType
        BY DEF Inv, TypeOK, WorkerType
      <4>2. QED
        BY <4>1, TimesAssumption DEF Inv, TypeOK, CopyType
    <3>3. tries[r] <= tries'[r]
      BY <1>5 DEF Onward
    <3>4. /\ worker[v].pc \in {"wait", "settle"} => worker[v].cur.attempts < tries[r]
          /\ worker[v].pc = "settle" /\ worker[v].ok => Taken(rows[r])
      BY <3>1 DEF Inv, SettleInv
    <3>5. worker[v].pc \in {"wait", "settle"} => worker[v].cur.attempts < tries'[r]
      BY <3>2, <3>3, <3>4
    <3>6. worker'[v] = worker[v]
      BY <1>7, <2>2
    <3>7. QED
      BY <1>1, <3>1, <3>4, <3>5, <3>6 DEF Taken
  <2>3. QED
    BY <2>1, <2>2
<1>11. WireInv'
  <2> SUFFICES ASSUME NEW q \in wire'
               PROVE  /\ rows[q.id].status # "free"
                      /\ q.pc = "claimed" => Taken(rows[q.id])
    BY <1>1 DEF WireInv, Taken
  <2>1. CASE q \in wire
    BY <2>1 DEF Inv, WireInv
  <2>2. CASE q \notin wire
    <3>1. q.id = id /\ q.pc = "sent"
      BY <1>2, <2>2 DEF Forward
    <3>2. QED
      BY <1>9, <3>1
  <2>3. QED
    BY <2>1, <2>2
<1>12. QED
  BY <1>1, <1>6, <1>8, <1>10, <1>11, RowsKept DEF Sound, Inv, KeyInv

(* mark_succeeded and mark_retry_or_dead.                                   *)
LEMMA SettlingStep ==
    ASSUME Inv, TypeOK', NEW w \in Workers, Succeed(w) \/ RetryOrDead(w)
    PROVE  Inv'
<1> DEFINE c == worker[w].cur
<1>1. UNCHANGED <<wire, tries, meta, seen, begun, heard>> /\ Proceed(w)
  BY DEF Succeed, RetryOrDead, peerVars
<1>2. Onward
  BY <1>1 DEF Onward, Inv, TypeOK
<1>3. PICK id \in RowIds : id = c.id
  BY DEF Inv, TypeOK, WorkerType, CopyType
<1>4. /\ rows[id] \in RowType /\ rows[id].status # "free"
      /\ worker[w].pc = "settle" /\ c.attempts < tries[id]
      /\ worker[w].ok => Taken(rows[id])
  BY <1>3 DEF Succeed, RetryOrDead, Inv, TypeOK, HeldInv, Held, SettleInv
<1>5. RowStep(id)
  <2>1. CASE rows' = rows
    BY <2>1, <1>2, SameRow
  <2>2. CASE rows' # rows /\ Succeed(w)
    <3>1. rows'[id] = [rows[id] EXCEPT !.status = "succeeded", !.age = 0,
                                       !.data = FALSE]
      BY <1>3, <2>2 DEF Succeed, Inv, TypeOK
    <3>2. /\ rows'[id].status = "succeeded" /\ rows'[id].attempts = rows[id].attempts
          /\ rows'[id].kind = rows[id].kind /\ rows'[id].msg = rows[id].msg
      BY <1>4, <3>1 DEF RowType
    <3>3. Taken(rows[id])'
      <4>1. Taken(rows[id])
        BY <1>4, <2>2 DEF Succeed
      <4>2. QED
        BY <1>1, <3>2, <4>1 DEF Taken
    <3>4. QED
      BY <1>1, <3>2, <3>3 DEF RowStep, Inv, RowInv
  <2>3. CASE rows' # rows /\ RetryOrDead(w)
    <3> DEFINE n == c.attempts + 1
    <3>1. c.attempts \in Nat /\ n \in 1 .. MaxAttempts /\ tries[id] \in Nat
      <4>1. c \in CopyType
        BY DEF Inv, TypeOK, WorkerType
      <4>2. c.attempts \in 0 .. MaxAttempts - 1
        BY <4>1 DEF CopyType
      <4>3. tries[id] \in Nat
        BY DEF Inv, TypeOK
      <4>4. QED
        BY <4>2, <4>3, TimesAssumption
    <3>2. rows'[id] = Failed(rows[id], n)
      BY <1>3, <2>3 DEF RetryOrDead, Inv, TypeOK
    <3>3. n <= tries[id]
      BY <1>4, <3>1
    <3>4. /\ rows'[id].attempts = n
          /\ rows'[id].kind = rows[id].kind /\ rows'[id].msg = rows[id].msg
          /\ rows'[id].status \in {"pending", "dead_letter"}
          /\ rows'[id].status = "pending" => n < MaxAttempts
          /\ rows'[id].status = "dead_letter" => n >= MaxAttempts
      BY <1>4, <3>1, <3>2, FailedRow
    <3>5. rows'[id].status = "dead_letter" => tries[id] >= MaxAttempts
      BY <3>1, <3>3, <3>4, TimesAssumption
    <3>6. QED
      BY <1>1, <3>3, <3>4, <3>5 DEF RowStep
  <2>4. QED
    BY <2>1, <2>2, <2>3
<1>6. \A r \in RowIds : RowStep(r)
  <2> SUFFICES ASSUME NEW r \in RowIds, r # id PROVE RowStep(r)
    BY <1>5
  <2>1. rows'[r] = rows[r]
    BY <1>3 DEF Succeed, RetryOrDead, Inv, TypeOK
  <2>2. QED
    BY <1>2, <2>1, SameRow
<1>7. Sound
  BY <1>2, <1>6 DEF Sound
<1>8. /\ \A v \in Workers : Held(v)' \subseteq Held(v)
      /\ \A v \in Workers : SettleStep(v)
  BY <1>1, MovesOn DEF Proceed
<1>9. WireInv'
  BY <1>1, <1>7, WireKept
<1>10. QED
  BY <1>1, <1>7, <1>8, <1>9, HeldKept, SettleKept, RowsKept DEF Sound, Inv, KeyInv

----------------------------------------------------------------------------
(* Steps of the peer.                                                       *)

(* An answer, good only if the peer has taken what the row carries.         *)
LEMMA AnswerStep ==
    ASSUME Inv, TypeOK', NEW q \in wire, NEW ok \in BOOLEAN, Answer(q, ok),
           rows' = rows, tries' = tries, begun \subseteq begun',
           heard' = heard, KeyInv', ok => Taken(rows[q.id])'
    PROVE  Inv'
<1>1. Onward
  BY DEF Onward, Inv, TypeOK
<1>2. Sound
  BY <1>1, SameRow DEF Sound
<1>3. PICK id \in RowIds : id = q.id
  BY DEF Inv, TypeOK, RequestType
<1>4. ok => Taken(rows[id])'
  BY <1>3 DEF Taken
<1>5. ASSUME NEW w \in Workers
      PROVE  \/ worker'[w] = worker[w]
             \/ /\ worker[w].pc = "wait" /\ worker[w].cur.id = id
                /\ worker'[w].pc = "settle" /\ worker'[w].ok = ok
                /\ worker'[w].cur = worker[w].cur
                /\ worker'[w].batch = worker[w].batch
  <2>1. worker[w] \in WorkerType
    BY DEF Inv, TypeOK
  <2>2. \/ worker'[w] = worker[w]
        \/ /\ worker[w].pc = "wait" /\ worker[w].cur.id = id
           /\ worker'[w] = [worker[w] EXCEPT !.pc = "settle", !.ok = ok]
    BY <1>3 DEF Answer
  <2>3. QED
    BY <2>1, <2>2 DEF WorkerType
<1>6. \A w \in Workers : Held(w)' \subseteq Held(w)
  BY <1>5 DEF Held
<1>7. \A w \in Workers : SettleStep(w)
  BY <1>4, <1>5 DEF SettleStep
<1>8. WireInv'
  BY <1>2, WireKept DEF Answer
<1>9. QED
  BY <1>2, <1>6, <1>7, <1>8, HeldKept, SettleKept, RowsKept DEF Sound, Inv

(* A message or a delete event is claimed.                                  *)
LEMMA PeerClaimStep ==
    ASSUME Inv, TypeOK', NEW q \in wire,
           PeerStarts(q) \/ PeerClaims(q) \/ PeerClaimOpen(q)
    PROVE  Inv'
<1>1. /\ UNCHANGED <<rows, worker, tries>>
      /\ begun \subseteq begun' /\ heard \subseteq heard'
      /\ wire' = (wire \ {q}) \cup {[q EXCEPT !.pc = "claimed"]}
  BY DEF PeerStarts, PeerClaims, PeerClaimOpen
<1>2. Taken(rows[q.id])'
  BY DEF PeerStarts, PeerClaims, PeerClaimOpen, MsgOf, Taken
<1>3. Onward
  BY <1>1 DEF Onward, Inv, TypeOK
<1>4. Sound
  BY <1>1, <1>3, SameRow DEF Sound
<1>5. HeldInv' /\ SettleInv'
  BY <1>1, <1>4, HeldKept, SettleKept DEF Held, SettleStep
<1>6. WireInv'
  <2> SUFFICES ASSUME NEW p \in wire'
               PROVE  /\ rows[p.id].status # "free"
                      /\ p.pc = "claimed" => Taken(rows[p.id])'
    BY <1>1 DEF WireInv, Taken
  <2>1. CASE p \in wire
    <3>1. /\ rows[p.id].status # "free"
          /\ p.pc = "claimed" => Taken(rows[p.id])
      BY <2>1 DEF Inv, WireInv
    <3>2. QED
      BY <1>1, <3>1 DEF Taken
  <2>2. CASE p \notin wire
    <3>1. p.id = q.id
      BY <1>1, <2>2 DEF Inv, TypeOK, RequestType
    <3>2. QED
      BY <1>2, <3>1 DEF Inv, WireInv, Taken
  <2>3. QED
    BY <2>1, <2>2
<1>7. KeyInv'
  BY DEF PeerStarts, PeerClaims, PeerClaimOpen, Inv, KeyInv
<1>8. QED
  BY <1>4, <1>5, <1>6, <1>7, RowsKept DEF Sound, Inv

(* The peer's steps only add to history.                                    *)
LEMMA PeerStep == ASSUME Inv, TypeOK', Peer PROVE Inv'
<1>1. ASSUME NEW q \in wire, PeerRefuses(q) PROVE Inv'
  BY <1>1, AnswerStep DEF PeerRefuses, peerVars, Inv, KeyInv
<1>2. ASSUME NEW q \in wire, PeerKnows(q) PROVE Inv'
  <2>1. Taken(rows[q.id])'
    BY <1>2 DEF PeerKnows, MsgOf, Taken, Inv, KeyInv, peerVars
  <2>2. KeyInv'
    BY <1>2 DEF PeerKnows, peerVars, Inv, KeyInv
  <2>3. QED
    BY <1>2, <2>1, <2>2, AnswerStep DEF PeerKnows, peerVars
<1>3. ASSUME NEW q \in wire, PeerQueues(q) PROVE Inv'
  <2>1. Taken(rows[q.id])'
    BY <1>3 DEF PeerQueues, Storing, Taken, Inv, WireInv
  <2>2. KeyInv'
    BY <1>3 DEF PeerQueues, Inv, KeyInv
  <2>3. PICK ok \in BOOLEAN : Answer(q, ok)
    BY <1>3 DEF PeerQueues
  <2>4. QED
    BY <1>3, <2>1, <2>2, <2>3, AnswerStep DEF PeerQueues
<1>4. ASSUME NEW q \in wire, PeerBacksOut(q) PROVE Inv'
  <2>1. KeyInv'
    BY <1>4 DEF PeerBacksOut, Inv, KeyInv
  <2>2. QED
    BY <1>4, <2>1, AnswerStep DEF PeerBacksOut
<1>5. ASSUME NEW q \in wire, PeerReplay(q) PROVE Inv'
  <2>1. Taken(rows[q.id])'
    BY <1>5 DEF PeerReplay, MsgOf, Taken, Inv, KeyInv, peerVars
  <2>2. KeyInv'
    BY <1>5 DEF PeerReplay, peerVars, Inv, KeyInv
  <2>3. QED
    BY <1>5, <2>1, <2>2, AnswerStep DEF PeerReplay, peerVars
<1>6. ASSUME NEW q \in wire, PeerDeletes(q) PROVE Inv'
  <2>1. Taken(rows[q.id])'
    BY <1>6 DEF PeerDeletes, Taken, Inv, WireInv
  <2>2. KeyInv'
    BY <1>6 DEF PeerDeletes, Inv, KeyInv
  <2>3. QED
    BY <1>6, <2>1, <2>2, AnswerStep DEF PeerDeletes
<1>7. ASSUME NEW q \in wire, PeerDies(q) PROVE Inv'
  <2>1. /\ UNCHANGED <<rows, worker, tries, meta, seen, begun, heard>>
        /\ wire' \subseteq wire
    BY <1>7 DEF PeerDies
  <2>2. Onward
    BY <2>1 DEF Onward, Inv, TypeOK
  <2>3. Sound
    BY <2>1, <2>2, SameRow DEF Sound
  <2>4. QED
    BY <2>1, <2>3, Elsewhere DEF Inv, KeyInv
<1>8. ASSUME NEW m \in Messages, PeerTakes(m) \/ PeerExpires(m) PROVE Inv'
  <2>1. UNCHANGED <<rows, worker, wire, tries, seen, begun, heard>>
    BY <1>8 DEF PeerTakes, PeerExpires
  <2>2. Onward
    BY <2>1 DEF Onward, Inv, TypeOK
  <2>3. Sound
    BY <2>1, <2>2, SameRow DEF Sound
  <2>4. KeyInv'
    BY <1>8 DEF PeerTakes, PeerExpires, Inv, KeyInv
  <2>5. QED
    BY <2>1, <2>3, <2>4, Elsewhere
<1>9. QED
  BY <1>1, <1>2, <1>3, <1>4, <1>5, <1>6, <1>7, <1>8, PeerClaimStep DEF Peer

----------------------------------------------------------------------------
(* The invariant holds at first.                                            *)
LEMMA InvInit == Init => Inv
<1> SUFFICES ASSUME Init PROVE Inv
  OBVIOUS
<1>1. TypeOK
  BY Constants DEF Init, TypeOK
<1>2. RowInv
  BY TimesAssumption DEF Init, RowInv, NoRow
<1>3. HeldInv /\ SettleInv /\ WireInv /\ KeyInv
  BY DEF Init, HeldInv, SettleInv, WireInv, KeyInv, Held, Resting
<1>4. OutcomeInv
  BY DEF Init, OutcomeInv, NoRow
<1>5. QED
  BY <1>1, <1>2, <1>3, <1>4 DEF Inv

(* Every step keeps the invariant.                                          *)
LEMMA InvStep == Inv /\ [Next]_vars => Inv'
<1> SUFFICES ASSUME Inv, [Next]_vars PROVE Inv'
  OBVIOUS
<1>1. TypeOK'
  BY TypeStep DEF Inv
<1>2. CASE UNCHANGED vars
  BY <1>2 DEF vars, peerVars, Inv, TypeOK, RowInv, HeldInv, Held, SettleInv,
              WireInv, KeyInv, OutcomeInv, Taken
<1>3. CASE Next
  BY <1>1, <1>3, HandlerStep, CleanupStep, TickStep, WorkerOnly, RecoverStep,
     ClaimStep, ForwardStep, SettlingStep, PeerStep DEF Next, Work
<1>4. QED
  BY <1>2, <1>3

(* The table, the workers and the requests keep their types; in particular  *)
(* no row ever counts more than MAX_ATTEMPTS attempts, although the workers *)
(* write the count from a copy that may be out of date.                     *)
THEOREM FederationTypeCorrect == Spec => []TypeOK
<1>1. Inv => TypeOK
  BY DEF Inv
<1>2. QED
  BY InvInit, InvStep, <1>1, PTL DEF Spec

----------------------------------------------------------------------------
(* What the peer has begun.                                                 *)

(* A step that keeps the rows of the requests, loses no end of a message    *)
(* and no request that is storing one, keeps every beginning accounted for. *)
LEMMA EndKept ==
    ASSUME EndInv, begun' \subseteq begun, arrived \subseteq arrived',
           dropped \subseteq dropped',
           \A q \in wire : Storing(q) =>
               \/ MsgOf(q) \in arrived' \/ MsgOf(q) \in dropped'
               \/ \E p \in wire' : Storing(p)' /\ MsgOf(p)' = MsgOf(q)
    PROVE  EndInv'
<1> SUFFICES ASSUME NEW m \in begun'
             PROVE  \/ m \in arrived' \/ m \in dropped'
                    \/ \E q \in wire' : Storing(q)' /\ MsgOf(q)' = m
  BY DEF EndInv
<1>1. \/ m \in arrived \/ m \in dropped
      \/ \E q \in wire : Storing(q) /\ MsgOf(q) = m
  BY DEF EndInv
<1>2. QED
  BY <1>1

(* A row that was inserted keeps its kind and its message.                  *)
LEMMA RowContent ==
    ASSUME TypeOK, [Next]_vars, NEW r \in RowIds, rows[r].status # "free"
    PROVE  rows'[r].kind = rows[r].kind /\ rows'[r].msg = rows[r].msg
<1>0. rows[r] \in RowType /\ rows \in [RowIds -> RowType]
  BY DEF TypeOK
<1>1. CASE rows' = rows
  BY <1>1
<1>2. ASSUME NEW h \in Handlers, NEW s \in RowIds, Insert(h, s)
      PROVE  rows'[r] = rows[r]
  BY <1>0, <1>2 DEF Insert
<1>3. ASSUME NEW w \in Workers, Recover(w)
      PROVE  rows'[r] \in {rows[r], [rows[r] EXCEPT !.status = "pending"]}
  BY <1>3 DEF Recover
<1>4. ASSUME NEW w \in Workers, Claim(w)
      PROVE  rows'[r] \in {rows[r],
                           [rows[r] EXCEPT !.status = "in_flight", !.due = 0]}
  BY <1>0, <1>4 DEF Claim
<1>5. ASSUME NEW w \in Workers, Succeed(w)
      PROVE  rows'[r] \in {rows[r], [rows[r] EXCEPT !.status = "succeeded", !.age = 0,
                                                    !.data = FALSE]}
  BY <1>0, <1>5 DEF Succeed
<1>6. ASSUME NEW w \in Workers, RetryOrDead(w)
      PROVE  rows'[r] \in {rows[r], Failed(rows[r], worker[w].cur.attempts + 1)}
  BY <1>0, <1>6 DEF RetryOrDead
<1>7. \A n : /\ Failed(rows[r], n).kind = rows[r].kind
             /\ Failed(rows[r], n).msg = rows[r].msg
  BY <1>0 DEF Failed, RowType
<1>8. CASE Cleanup
  <2>1. rows'[r] \in {rows[r], [rows[r] EXCEPT !.status = "deleted", !.data = FALSE]}
    BY <1>8 DEF Cleanup
  <2>2. QED
    BY <1>0, <2>1 DEF RowType
<1>9. CASE Tick
  <2>1. rows'[r] \in {rows[r], OlderRow(rows[r])}
    BY <1>9 DEF Tick
  <2>2. QED
    BY <1>0, <2>1, OlderRowKeeps
<1>10. \/ rows' = rows \/ Cleanup \/ Tick
       \/ \E h \in Handlers : \E s \in RowIds : Insert(h, s)
       \/ \E w \in Workers : Recover(w) \/ Claim(w) \/ Succeed(w) \/ RetryOrDead(w)
  BY DEF Next, Work, Request, Peer, SendFederated, DeleteFederated, Lookup, Fetch,
     ClaimLost, Forward, GiveUp, RowFails, Crash, PeerRefuses, PeerKnows, PeerStarts,
     PeerQueues, PeerBacksOut, PeerClaims, PeerReplay, PeerClaimOpen, PeerDeletes,
     PeerDies, PeerTakes, PeerExpires, vars
<1>11. CASE \E w \in Workers : Recover(w) \/ Claim(w) \/ Succeed(w) \/ RetryOrDead(w)
  BY <1>0, <1>3, <1>4, <1>5, <1>6, <1>7, <1>11 DEF RowType
<1>12. QED
  BY <1>1, <1>2, <1>8, <1>9, <1>10, <1>11

(* Every step keeps the beginnings accounted for.                           *)
LEMMA EndStep == Inv /\ EndInv /\ [Next]_vars => EndInv'
<1> SUFFICES ASSUME Inv, EndInv, [Next]_vars PROVE EndInv'
  OBVIOUS
<1>1. ASSUME NEW q \in wire
      PROVE  rows'[q.id].kind = rows[q.id].kind /\ rows'[q.id].msg = rows[q.id].msg
  BY RowContent DEF Inv, TypeOK, RequestType, WireInv
<1>2. ASSUME UNCHANGED <<begun, arrived, dropped>>,
             \A q \in wire : Storing(q) => q \in wire'
      PROVE  EndInv'
  BY <1>1, <1>2, EndKept DEF Storing, MsgOf
<1>3. CASE \E h \in Handlers : Request(h)
  BY <1>2, <1>3 DEF Request, SendFederated, DeleteFederated, Lookup, Insert, peerVars
<1>4. CASE \E w \in Workers : Work(w) \/ RowFails(w) \/ Crash(w)
  BY <1>2, <1>4 DEF Work, Recover, Fetch, Claim, ClaimLost, Forward, GiveUp, Succeed,
     RetryOrDead, RowFails, Crash, peerVars
<1>5. CASE Cleanup \/ UNCHANGED vars
  BY <1>2, <1>5 DEF Cleanup, vars, peerVars
<1>6. CASE Tick
  <2>1. ASSUME NEW q \in wire, Storing(q)
        PROVE  \E p \in wire' : Storing(p)' /\ MsgOf(p)' = MsgOf(q)
    <3>1. q \in RequestType
      BY DEF Inv, TypeOK
    <3>2. Older(q) \in wire' /\ Older(q).id = q.id /\ Older(q).pc = q.pc
      BY <1>6, <3>1, OlderKeeps DEF Tick
    <3>3. Storing(Older(q))' /\ MsgOf(Older(q))' = MsgOf(q)
      BY <1>1, <2>1, <3>2 DEF Storing, MsgOf
    <3>4. QED
      BY <3>2, <3>3
  <2>2. UNCHANGED <<begun, arrived, dropped>>
    BY <1>6 DEF Tick, peerVars
  <2>3. QED
    BY <2>1, <2>2, EndKept
<1>7. ASSUME NEW q \in wire,
             \/ PeerRefuses(q) \/ PeerKnows(q) \/ PeerReplay(q) \/ PeerDeletes(q)
      PROVE  EndInv'
  <2>1. ~Storing(q)
    BY <1>7 DEF PeerRefuses, PeerKnows, PeerReplay, PeerDeletes, Storing, Valid
  <2>2. wire' = wire \ {q} /\ UNCHANGED <<begun, arrived, dropped>>
    BY <1>7 DEF PeerRefuses, PeerKnows, PeerReplay, PeerDeletes, Answer, peerVars
  <2>3. QED
    BY <1>2, <2>1, <2>2
<1>8. ASSUME NEW q \in wire, PeerClaims(q) \/ PeerClaimOpen(q) PROVE EndInv'
  <2>1. ~Storing(q)
    BY <1>8 DEF PeerClaims, PeerClaimOpen, Storing
  <2>2. /\ wire' = (wire \ {q}) \cup {[q EXCEPT !.pc = "claimed"]}
        /\ UNCHANGED <<begun, arrived, dropped>>
    BY <1>8 DEF PeerClaims, PeerClaimOpen
  <2>3. QED
    BY <1>2, <2>1, <2>2
<1>9. ASSUME NEW q \in wire, PeerStarts(q) PROVE EndInv'
  <2> DEFINE p == [q EXCEPT !.pc = "claimed"]
  <2>1. /\ wire' = (wire \ {q}) \cup {p} /\ rows' = rows
        /\ begun' = begun \cup {MsgOf(q)} /\ UNCHANGED <<arrived, dropped>>
        /\ ~Storing(q) /\ rows[q.id].kind = "dm"
    BY <1>9 DEF PeerStarts, Storing, Valid
  <2>2. p.id = q.id /\ p.pc = "claimed"
    BY DEF Inv, TypeOK, RequestType
  <2>3. p \in wire' /\ Storing(p)' /\ MsgOf(p)' = MsgOf(q)
    BY <2>1, <2>2 DEF Storing, MsgOf
  <2>4. ASSUME NEW m \in begun'
        PROVE  \/ m \in arrived' \/ m \in dropped'
               \/ \E s \in wire' : Storing(s)' /\ MsgOf(s)' = m
    <3>1. CASE m = MsgOf(q)
      BY <2>3, <3>1
    <3>2. CASE m # MsgOf(q)
      <4>1. \/ m \in arrived \/ m \in dropped
            \/ \E s \in wire : Storing(s) /\ MsgOf(s) = m
        BY <2>1, <3>2 DEF EndInv
      <4>2. ASSUME NEW s \in wire, Storing(s), MsgOf(s) = m
            PROVE  s \in wire' /\ Storing(s)' /\ MsgOf(s)' = m
        BY <2>1, <4>2 DEF Storing, MsgOf
      <4>3. QED
        BY <2>1, <4>1, <4>2
    <3>3. QED
      BY <3>1, <3>2
  <2>5. QED
    BY <2>4 DEF EndInv
<1>10. ASSUME NEW q \in wire, PeerQueues(q) \/ PeerBacksOut(q) \/ PeerDies(q)
       PROVE  EndInv'
  <2>1. /\ wire' = wire \ {q} /\ begun' = begun
        /\ arrived \subseteq arrived' /\ dropped \subseteq dropped'
    BY <1>10 DEF PeerQueues, PeerBacksOut, PeerDies, Answer
  <2>2. Storing(q) => MsgOf(q) \in arrived' \/ MsgOf(q) \in dropped'
    BY <1>10 DEF PeerQueues, PeerBacksOut, PeerDies
  <2>3. ASSUME NEW s \in wire, Storing(s), s # q
        PROVE  s \in wire' /\ Storing(s)' /\ MsgOf(s)' = MsgOf(s)
    BY <1>1, <2>1, <2>3 DEF Storing, MsgOf
  <2>4. QED
    BY <2>1, <2>2, <2>3, EndKept
<1>11. ASSUME NEW m \in Messages, PeerTakes(m) \/ PeerExpires(m) PROVE EndInv'
  BY <1>2, <1>11 DEF PeerTakes, PeerExpires
<1>12. QED
  BY <1>3, <1>4, <1>5, <1>6, <1>7, <1>8, <1>9, <1>10, <1>11 DEF Next, Peer

(* However many workers run, die and overtake each other, a succeeded row   *)
(* was begun by the peer, and a message among them was in the inbox unless  *)
(* the handler that won its key ended, or has yet to end, without the       *)
(* insert; a dead letter was tried MAX_ATTEMPTS times, and clean-up removes *)
(* no other row.                                                            *)
THEOREM OutcomeIsEarnedHolds == Spec => []OutcomeIsEarned
<1>1. Init => EndInv
  BY DEF Init, EndInv
<1>2. Inv /\ EndInv => OutcomeIsEarned
  <2> SUFFICES ASSUME Inv, EndInv, NEW r \in RowIds, Taken(rows[r])
               PROVE  Earned(rows[r])
    BY DEF Inv, OutcomeInv, OutcomeIsEarned
  <2>1. QED
    BY DEF Taken, Earned, EndInv
<1>3. QED
  BY InvInit, InvStep, EndStep, <1>1, <1>2, PTL DEF Spec
=============================================================================
