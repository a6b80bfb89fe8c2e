--------------------------- MODULE MailboxProofs ---------------------------
(* Theorems about Mailbox, for any envelopes, users, handlers and bounds.   *)
EXTENDS Mailbox, FiniteSetTheorems, TLAPS

----------------------------------------------------------------------------
(* Records that handlers and the reaper start from.                         *)

(* The idle handler and the resting reaper are of their types.              *)
LEMMA IdleType == Idle \in TaskType /\ Resting \in ReaperType
<1>1. (CHOOSE e \in Envelopes : TRUE) \in Envelopes
  BY EnvelopesAssumption
<1>2. (CHOOSE u \in Users : TRUE) \in Users
  BY EnvelopesAssumption
<1> QED
  BY <1>1, <1>2 DEF Idle, TaskType, Labels, Resting, ReaperType

(* Moving one handler to another label, or ending it, keeps the type of the *)
(* handlers.                                                                *)
LEMMA GotoType ==
  ASSUME task \in [Tasks -> TaskType], NEW p \in Tasks, NEW l \in Labels,
         Goto(p, l) \/ Finish(p)
  PROVE  task' \in [Tasks -> TaskType]
BY IdleType DEF Goto, Finish, TaskType

(* Pruning an inbox yields scores.                                          *)
LEMMA PrunedType ==
  ASSUME TypeOK, NEW u \in Users, NEW t \in Int
  PROVE  Pruned(u, t) \in [Envelopes -> Nat] /\ TtlOf(u, Pruned(u, t)) \in Nat
BY DEF TypeOK, Pruned, TtlOf

(* The atomic insertion keeps the type of inboxes.                          *)
LEMMA LuaInsertType ==
  ASSUME TypeOK, NEW u \in Users, NEW e \in Envelopes, NEW x \in Nat,
         NEW t \in Int, LuaInsert(u, e, x, t)
  PROVE  /\ inbox' \in [Users -> [Envelopes -> Nat]]
         /\ inboxTtl' \in [Users -> Nat]
         /\ enqueued' \subseteq Envelopes
<1>1. Pruned(u, t) \in [Envelopes -> Nat] /\ TtlOf(u, Pruned(u, t)) \in Nat
  BY PrunedType
<1>2. [Pruned(u, t) EXCEPT ![e] = x] \in [Envelopes -> Nat]
  BY <1>1
<1> QED
  BY <1>1, <1>2 DEF TypeOK, LuaInsert

(* ZREM keeps the type of inboxes.                                          *)
LEMMA ZremType ==
  ASSUME TypeOK, NEW us, NEW e \in Envelopes, Zrem(us, e)
  PROVE  /\ inbox' \in [Users -> [Envelopes -> Nat]]
         /\ inboxTtl' \in [Users -> Nat]
BY DEF TypeOK, Zrem, TtlOf

(* The expiry time a handler computes is a time.                            *)
LEMMA ExpiresAtType ==
  ASSUME TypeOK, NEW p \in Tasks
  PROVE  ExpiresAt(p) \in Nat
BY NumbersAssumption DEF TypeOK, TaskType, ExpiresAt, MinOf

----------------------------------------------------------------------------
(* Type correctness.                                                        *)

(* A step of a handler that no call fails keeps the types.                  *)
LEMMA StepType ==
  ASSUME TypeOK, NEW p \in Tasks, Step(p)
  PROVE  TypeOK'
<1> USE NumbersAssumption, AddressAssumption
<1>e. task[p] \in TaskType /\ task[p].e \in Envelopes /\ ExpiresAt(p) \in Nat
  BY ExpiresAtType DEF TypeOK, TaskType
<1>t. \A l \in Labels : Goto(p, l) \/ Finish(p) => task' \in [Tasks -> TaskType]
  BY GotoType DEF TypeOK
<1>l. /\ SendLabels \subseteq Labels /\ GroupLabels \subseteq Labels
      /\ AckLabels \subseteq Labels /\ "idle" \in Labels
  BY DEF Labels
<1>1. CASE WriteBlob(p)
  BY <1>1, <1>e, <1>t DEF TypeOK, WriteBlob, redisVars, history, Labels,
     SendLabels, GroupLabels
<1>2. CASE EnqueueExpired(p)
  BY <1>2, <1>t DEF TypeOK, EnqueueExpired, redisVars, history, Labels, SendLabels
<1>3. CASE EnqueueDedup(p)
  BY <1>3, <1>e, <1>t, <1>l DEF TypeOK, EnqueueDedup, redisVars
<1>4. CASE EnqueueClaim(p)
  <2>1. ExpiresAt(p) - now \in Nat
    BY <1>4, <1>e DEF TypeOK, EnqueueClaim, Expired
  <2>2. task' \in [Tasks -> TaskType]
    BY <1>4, <1>e, <2>1 DEF TypeOK, EnqueueClaim, TaskType, Labels, SendLabels
  <2> QED
    BY <1>4, <1>e, <2>2 DEF TypeOK, EnqueueClaim, history
<1>5. CASE EnqueueInsert(p)
  <2>1. PICK u \in To[task[p].e] :
          /\ LuaInsert(u, task[p].e, task[p].exp, task[p].exp - task[p].life)
          /\ Goto(p, IF HasRoom(u, task[p].exp - task[p].life)
                     THEN "publish" ELSE "undo")
    BY <1>5 DEF EnqueueInsert
  <2>2. u \in Users /\ task[p].exp \in Nat /\ task[p].exp - task[p].life \in Int
    BY <1>e DEF TaskType
  <2>3. /\ inbox' \in [Users -> [Envelopes -> Nat]]
        /\ inboxTtl' \in [Users -> Nat]
        /\ enqueued' \subseteq Envelopes
    BY <1>e, <2>1, <2>2, LuaInsertType
  <2>4. task' \in [Tasks -> TaskType]
    BY <2>1, <1>t DEF Labels, SendLabels
  <2> QED
    BY <1>5, <2>3, <2>4 DEF TypeOK, EnqueueInsert
<1>6. CASE EnqueueUndo(p)
  BY <1>6, <1>e, <1>t DEF TypeOK, EnqueueUndo, history, Labels, SendLabels
<1>7. CASE EnqueueScrub(p)
  BY <1>7, <1>e, <1>t, <1>l DEF TypeOK, EnqueueScrub, redisVars, history
<1>8. ASSUME NEW us \in SUBSET Users, Track(p, us), TouchInboxes(p, us)
      PROVE  /\ inboxTtl' \in [Users -> Nat]
             /\ pending' \in [Envelopes -> SUBSET Users]
             /\ pendingTtl' \in [Envelopes -> Nat]
             /\ index' \in [Envelopes -> Nat]
  BY <1>8, <1>e DEF TypeOK, Track, TouchInboxes, TaskType, MaxOf
<1>9. CASE EnqueuePublish(p)
  <2>1. To[task[p].e] \in SUBSET Users
    BY <1>e
  <2> QED
    BY <1>9, <1>8, <2>1, <1>e, <1>t, <1>l DEF TypeOK, EnqueuePublish, history
<1>10. CASE GroupAllRemote(p) \/ GroupExpired(p)
  BY <1>10, <1>t, <1>l DEF TypeOK, GroupAllRemote, GroupExpired, redisVars,
     history
<1>11. CASE GroupMeta(p)
  <2>1. ExpiresAt(p) - now \in Nat
    BY <1>11, <1>e DEF TypeOK, GroupMeta, Expired
  <2>2. task' \in [Tasks -> TaskType]
    BY <1>11, <1>e, <2>1 DEF TypeOK, GroupMeta, TaskType, Labels, GroupLabels
  <2> QED
    BY <1>11, <1>e, <2>2 DEF TypeOK, GroupMeta, history
<1>12. CASE GroupInsert(p)
  <2> DEFINE t == task[p].exp - task[p].life
  <2>1. PICK u \in task[p].todo :
          /\ LuaInsert(u, task[p].e, task[p].exp, t)
          /\ task' = [task EXCEPT ![p] = AfterInsert(p, u, HasRoom(u, t))]
    BY <1>12 DEF GroupInsert
  <2>2. u \in Users /\ task[p].exp \in Nat /\ t \in Int
    BY <1>e DEF TaskType
  <2>3. /\ inbox' \in [Users -> [Envelopes -> Nat]]
        /\ inboxTtl' \in [Users -> Nat]
        /\ enqueued' \subseteq Envelopes
    BY <1>e, <2>1, <2>2, LuaInsertType
  <2>4. AfterInsert(p, u, HasRoom(u, t)) \in TaskType
    BY <2>2, <1>e DEF TaskType, AfterInsert, Labels, GroupLabels
  <2>5. task' \in [Tasks -> TaskType]
    BY <2>1, <2>4 DEF TypeOK
  <2> QED
    BY <1>12, <2>3, <2>5 DEF TypeOK, GroupInsert
<1>13. CASE GroupFailOpen(p)
  <2>1. task' \in [Tasks -> TaskType]
    BY <1>13, <1>e DEF TypeOK, GroupFailOpen, TaskType, Labels, GroupLabels
  <2> QED
    BY <1>13, <1>e, <2>1 DEF TypeOK, GroupFailOpen, TaskType
<1>14. CASE GroupPublish(p)
  <2>1. task[p].eligible \in SUBSET Users
    BY <1>e DEF TaskType
  <2> QED
    BY <1>14, <1>8, <2>1, <1>t, <1>l DEF TypeOK, GroupPublish, history
<1>15. CASE AckMark(p)
  BY <1>15, <1>e, <1>t DEF TypeOK, AckMark, TaskType, history, Labels, AckLabels
<1>16. CASE AckRelease(p)
  BY <1>16, <1>e, <1>t, <1>l DEF TypeOK, AckRelease, LuaAck, history, AckLabels
<1>17. CASE AckUnlink(p)
  BY <1>17, <1>t, <1>l DEF TypeOK, AckUnlink, redisVars, history
<1>18. CASE Recall(p)
  <2>1. /\ inbox' \in [Users -> [Envelopes -> Nat]]
        /\ inboxTtl' \in [Users -> Nat]
    BY <1>18, <1>e, ZremType DEF Recall
  <2> QED
    BY <1>18, <1>e, <1>t, <1>l, <2>1 DEF TypeOK, Recall
<1> QED
  BY <1>1, <1>2, <1>3, <1>4, <1>5, <1>6, <1>7, <1>9, <1>10, <1>11, <1>12,
     <1>13, <1>14, <1>15, <1>16, <1>17, <1>18 DEF Step

(* A new request keeps the types.                                           *)
LEMMA RequestType ==
  ASSUME TypeOK, NEW p \in Tasks, Request(p)
  PROVE  TypeOK'
<1> USE NumbersAssumption, AddressAssumption
<1>1. PICK e \in Envelopes :
        \/ SendDuplicate(p, e)
        \/ \E ttl \in Ttls, l \in {"gwrite", "write"} : Accept(p, e, l, ttl)
        \/ \E u \in Users : AckStart(p, u, e)
        \/ Authorised(p, e)
  BY DEF Request, SendDirect, SendSealed, SendGroup, RecallDirect, RecallSealed,
     RecallGroup
<1>2. CASE SendDuplicate(p, e)
  BY <1>2 DEF TypeOK, SendDuplicate, redisVars
<1>3. CASE \E ttl \in Ttls, l \in {"gwrite", "write"} : Accept(p, e, l, ttl)
  <2>1. PICK ttl \in Ttls, lbl \in {"gwrite", "write"} : Accept(p, e, lbl, ttl)
    BY <1>3
  <2>2. ASSUME NEW l \in {"gwrite", "write"}, NEW x \in Nat
        PROVE  [Idle EXCEPT !.pc = l, !.e = e, !.exp = x, !.todo = To[e]]
                 \in TaskType
    BY IdleType DEF TaskType, Labels, SendLabels, GroupLabels
  <2>3. Ts[e] + ttl \in Nat
    OBVIOUS
  <2>4. task' \in [Tasks -> TaskType]
    BY <2>1, <2>2, <2>3 DEF TypeOK, Accept
  <2> QED
    BY <2>1, <2>4 DEF TypeOK, Accept, redisVars, history
<1>4. CASE \E u \in Users : AckStart(p, u, e)
  <2>1. PICK u \in Users : AckStart(p, u, e)
    BY <1>4
  <2>2. [Idle EXCEPT !.pc = "mark", !.e = e, !.u = u] \in TaskType
    BY IdleType DEF TaskType, Labels, AckLabels
  <2>3. task' \in [Tasks -> TaskType]
    BY <2>1, <2>2 DEF TypeOK, AckStart
  <2>4. /\ inbox' \in [Users -> [Envelopes -> Nat]]
        /\ inboxTtl' \in [Users -> Nat]
    BY <2>1, ZremType DEF AckStart
  <2> QED
    BY <2>1, <2>3, <2>4 DEF TypeOK, AckStart, history
<1>5. CASE Authorised(p, e)
  <2>1. [Idle EXCEPT !.pc = "recall", !.e = e] \in TaskType
    BY IdleType DEF TaskType, Labels
  <2>2. task' \in [Tasks -> TaskType]
    BY <1>5, <2>1 DEF TypeOK, Authorised
  <2> QED
    BY <1>5, <2>2 DEF TypeOK, Authorised, redisVars, history
<1> QED
  BY <1>1, <1>2, <1>3, <1>4, <1>5

(* A failed call, a lost reply or a crash keeps the types.                  *)
LEMMA FailureType ==
  ASSUME TypeOK, NEW p \in Tasks, Failure(p)
  PROVE  TypeOK'
<1> USE NumbersAssumption, AddressAssumption
<1>e. task[p] \in TaskType /\ task[p].e \in Envelopes /\ ExpiresAt(p) \in Nat
  BY ExpiresAtType DEF TypeOK, TaskType
<1>t. \A l \in Labels : Goto(p, l) \/ Finish(p) => task' \in [Tasks -> TaskType]
  BY GotoType DEF TypeOK
<1>l. "idle" \in Labels /\ \A l \in Labels : OnError(l) \in Labels
  BY DEF Labels, OnError, SendLabels, GroupLabels, AckLabels
<1>1. CASE CallFails(p)
  <2>1. CASE /\ At(p, "gmeta")
             /\ task' = [task EXCEPT ![p].pc = "gopen", ![p].exp = ExpiresAt(p),
                                     ![p].life = ExpiresAt(p) - now]
    <3>1. ExpiresAt(p) - now \in Nat
      BY <1>1, <2>1, <1>e DEF TypeOK, CallFails, Expired, At
    <3>2. task' \in [Tasks -> TaskType]
      BY <2>1, <3>1, <1>e DEF TypeOK, TaskType, Labels, GroupLabels
    <3> QED
      BY <1>1, <3>2 DEF TypeOK, CallFails, redisVars, history
  <2>2. CASE Goto(p, OnError(task[p].pc)) \/ Finish(p)
    <3>1. task' \in [Tasks -> TaskType]
      BY <2>2, <1>t, <1>l, <1>e DEF TaskType
    <3> QED
      BY <1>1, <3>1 DEF TypeOK, CallFails, redisVars, history
  <2> QED
    BY <1>1, <2>1, <2>2 DEF CallFails
<1>2. CASE Crash(p)
  BY <1>2, <1>t, <1>l DEF TypeOK, Crash, redisVars, history
<1>3. CASE InsertReplyLost(p)
  <2>1. PICK u \in To[task[p].e] :
          LuaInsert(u, task[p].e, task[p].exp, task[p].exp - task[p].life)
    BY <1>3 DEF InsertReplyLost
  <2>2. u \in Users /\ task[p].exp \in Nat /\ task[p].exp - task[p].life \in Int
    BY <1>e DEF TaskType
  <2>3. /\ inbox' \in [Users -> [Envelopes -> Nat]]
        /\ inboxTtl' \in [Users -> Nat]
        /\ enqueued' \subseteq Envelopes
    BY <1>e, <2>1, <2>2, LuaInsertType
  <2>4. "insert" \in Labels
    BY DEF Labels, SendLabels
  <2>5. task' \in [Tasks -> TaskType]
    BY <1>3, <2>4, <1>t, <1>l DEF InsertReplyLost
  <2> QED
    BY <1>3, <2>3, <2>5 DEF TypeOK, InsertReplyLost
<1>4. CASE ClaimReplyLost(p)
  BY <1>4, <1>e, <1>t, <1>l DEF TypeOK, ClaimReplyLost, history
<1>5. CASE ReleaseReplyLost(p)
  BY <1>5, <1>e, <1>t, <1>l DEF TypeOK, ReleaseReplyLost, LuaAck, history
<1>6. CASE BatchReplyLost(p)
  <2>1. "gopen" \in Labels
    BY DEF Labels, GroupLabels
  <2> QED
    BY <1>6, <2>1, <1>t DEF TypeOK, BatchReplyLost, redisVars, history
<1> QED
  BY <1>1, <1>2, <1>3, <1>4, <1>5, <1>6 DEF Failure

(* The reaper, list_inbox, Redis and the clock keep the types.              *)
LEMMA EnvironmentType ==
  ASSUME TypeOK,
         \/ \E u \in Users : ListInbox(u)
         \/ Reap \/ ReapFails \/ ReapCrash
         \/ Redis \/ Tick
  PROVE  TypeOK'
<1>1. CASE \E u \in Users : ListInbox(u)
  <2>1. PICK u \in Users : ListInbox(u)
    BY <1>1
  <2>2. now \in Int
    BY DEF TypeOK
  <2>3. Pruned(u, now) \in [Envelopes -> Nat] /\ TtlOf(u, Pruned(u, now)) \in Nat
    BY PrunedType, <2>2
  <2> QED
    BY <2>1, <2>3 DEF TypeOK, ListInbox, history
<1>2. CASE Reap
  <2>1. CASE ReapStart
    BY <2>1 DEF TypeOK, ReapStart, ReaperType, redisVars, history
  <2>2. CASE ReapCheck \/ ScanCheck
    <3>1. PICK e \in reaper.todo : reaper' = [reaper EXCEPT
             !.e = e, !.todo = @ \ {e},
             !.pc = IF meta[e] = 0 THEN "unlink" ELSE Afterwards]
      BY <2>2 DEF ReapCheck, ScanCheck, Examine
    <3>2. reaper' \in ReaperType
      BY <3>1 DEF TypeOK, ReaperType, Afterwards
    <3> QED
      BY <2>2, <3>2 DEF TypeOK, ReapCheck, ScanCheck, Examine, redisVars,
         history
  <2>3. CASE ReapUnlink
    BY <2>3 DEF TypeOK, ReapUnlink, Afterwards, ReaperType, redisVars, history
  <2>4. CASE ReapDrop
    BY <2>4 DEF TypeOK, ReapDrop, ReaperType, history
  <2>5. CASE ReapNext
    <3>1. [reaper EXCEPT !.mode = "scan", !.todo = blobs] \in ReaperType
      BY DEF TypeOK, ReaperType
    <3>2. reaper' \in ReaperType
      BY <2>5, <3>1, IdleType DEF ReapNext
    <3> QED
      BY <2>5, <3>2 DEF TypeOK, ReapNext, redisVars, history
  <2> QED
    BY <1>2, <2>1, <2>2, <2>3, <2>4, <2>5 DEF Reap
<1>3. CASE ReapFails
  <2>1. Afterwards \in {"drop", "check"}
    BY DEF Afterwards
  <2>2. reaper' \in ReaperType
    BY <1>3, <2>1 DEF TypeOK, ReapFails, GiveUp, ReaperType
  <2> QED
    BY <1>3, <2>2 DEF TypeOK, ReapFails, redisVars, history
<1>4. CASE ReapCrash
  BY <1>4, IdleType DEF TypeOK, ReapCrash, redisVars, history
<1>5. CASE Redis
  <2>1. CASE \E e \in Envelopes : ExpireMeta(e)
    BY <2>1 DEF TypeOK, ExpireMeta, history
  <2>2. CASE \E e \in Envelopes : ExpirePending(e)
    <3>1. PICK e \in Envelopes : ExpirePending(e)
      BY <2>2
    <3>2. /\ pending' \in [Envelopes -> SUBSET Users]
          /\ pendingTtl' \in [Envelopes -> Nat]
      BY <3>1 DEF TypeOK, ExpirePending
    <3> QED
      BY <3>1, <3>2 DEF TypeOK, ExpirePending, history
  <2>3. CASE \E u \in Users : ExpireInbox(u)
    <3>1. PICK u \in Users : ExpireInbox(u)
      BY <2>3
    <3>2. /\ inbox' \in [Users -> [Envelopes -> Nat]]
          /\ inboxTtl' \in [Users -> Nat]
      BY <3>1 DEF TypeOK, ExpireInbox
    <3> QED
      BY <3>1, <3>2 DEF TypeOK, ExpireInbox, history
  <2> QED
    BY <1>5, <2>1, <2>2, <2>3 DEF Redis
<1>6. CASE Tick
  BY <1>6 DEF TypeOK, Tick, redisVars, history
<1> QED
  BY <1>1, <1>2, <1>3, <1>4, <1>5, <1>6

(* Every step keeps the types.                                              *)
LEMMA TypeStep == TypeOK /\ [Next]_vars => TypeOK'
<1> SUFFICES ASSUME TypeOK, [Next]_vars PROVE TypeOK'
  OBVIOUS
<1>1. CASE \E p \in Tasks : Step(p) \/ Request(p) \/ Failure(p)
  BY <1>1, StepType, RequestType, FailureType
<1>2. CASE \/ \E u \in Users : ListInbox(u)
           \/ Reap \/ ReapFails \/ ReapCrash
           \/ Redis \/ Tick
  BY <1>2, EnvironmentType
<1>3. CASE UNCHANGED vars
  BY <1>3 DEF TypeOK, vars, redisVars, history
<1> QED
  BY <1>1, <1>2, <1>3 DEF Next

(* The queue, its handlers and the reaper stay in their types for any       *)
(* number of envelopes, users and handlers, whatever fails.                 *)
THEOREM TypeCorrect == Spec => []TypeOK
<1>1. Init => TypeOK
  BY IdleType DEF Init, TypeOK
<1> QED
  BY <1>1, TypeStep, PTL DEF Spec

----------------------------------------------------------------------------
(* The hard cap.                                                            *)

DirectRows(u) == {e \in Rows(u) : Kind[e] # "group"}

CapHolds == \A u \in Users :
    /\ Cardinality(DirectRows(u)) <= MaxDepth
    /\ faults = 0 => Cardinality(Rows(u)) <= MaxDepth

(* Where handlers can be: only a group send is in the fan-out, and only     *)
(* after a fault does one fail open.                                        *)
LabelInv == \A p \in Tasks :
    /\ task[p].pc \in GroupLabels => Kind[task[p].e] = "group"
    /\ task[p].pc = "gopen" => faults # 0

(* Cardinality of subsets of a finite set of envelopes.                     *)
LEMMA CardSubset ==
  ASSUME NEW S \in SUBSET Envelopes, NEW T \in SUBSET S
  PROVE  /\ Cardinality(S) \in Nat /\ Cardinality(T) \in Nat
         /\ Cardinality(T) <= Cardinality(S)
<1>1. IsFiniteSet(S)
  BY EnvelopesAssumption, FS_Subset
<1>2. IsFiniteSet(T) /\ Cardinality(T) <= Cardinality(S)
  BY <1>1, FS_Subset
<1> QED
  BY <1>1, <1>2, FS_CardinalityType

(* A step that adds no row keeps the cap.                                   *)
LEMMA ShrinkCap ==
  ASSUME TypeOK, CapHolds, \A u \in Users : Rows(u)' \subseteq Rows(u),
         faults' = 0 => faults = 0
  PROVE  CapHolds'
<1> SUFFICES ASSUME NEW u \in Users
             PROVE  /\ Cardinality(DirectRows(u)') <= MaxDepth
                    /\ faults' = 0 => Cardinality(Rows(u)') <= MaxDepth
  BY DEF CapHolds
<1>1. /\ Rows(u) \in SUBSET Envelopes /\ DirectRows(u) \in SUBSET Envelopes
      /\ Rows(u)' \in SUBSET Rows(u) /\ DirectRows(u)' \in SUBSET DirectRows(u)
  BY DEF Rows, DirectRows
<1>2. /\ Cardinality(Rows(u)') <= Cardinality(Rows(u))
      /\ Cardinality(Rows(u)) \in Nat /\ Cardinality(Rows(u)') \in Nat
  BY <1>1, CardSubset
<1>3. /\ Cardinality(DirectRows(u)') <= Cardinality(DirectRows(u))
      /\ Cardinality(DirectRows(u)) \in Nat /\ Cardinality(DirectRows(u)') \in Nat
  BY <1>1, CardSubset
<1> QED
  BY <1>2, <1>3, NumbersAssumption DEF CapHolds

(* The prune-count-insert script keeps the cap, whatever time its caller    *)
(* passed: it counts the rows it is about to keep.                          *)
LEMMA InsertCap ==
  ASSUME TypeOK, CapHolds, NEW u \in Users, NEW e \in Envelopes,
         NEW x \in Nat, NEW t \in Int, LuaInsert(u, e, x, t),
         faults' = 0 => faults = 0
  PROVE  CapHolds'
<1> DEFINE kept == {d \in Envelopes : inbox[u][d] > t}
<1>1. CASE HasRoom(u, t)
  <2>1. Cardinality(kept) < MaxDepth
    BY <1>1 DEF HasRoom
  <2>2. Rows(u)' \subseteq kept \cup {e}
    BY <1>1 DEF LuaInsert, Rows, Pruned, TypeOK
  <2>3. IsFiniteSet(kept)
    BY EnvelopesAssumption, FS_Subset
  <2>4. /\ Cardinality(kept) \in Nat /\ Cardinality(kept \cup {e}) \in Nat
        /\ Cardinality(kept \cup {e}) <= Cardinality(kept) + 1
    <3> HIDE DEF kept
    <3>1. Cardinality(kept) \in Nat
      BY <2>3, FS_CardinalityType
    <3>2. Cardinality(kept \cup {e}) =
            IF e \in kept THEN Cardinality(kept) ELSE Cardinality(kept) + 1
      BY <2>3, FS_AddElement
    <3> QED
      BY <3>1, <3>2
  <2>5. kept \cup {e} \in SUBSET Envelopes
    OBVIOUS
  <2> HIDE DEF kept
  <2>6. Cardinality(Rows(u)') <= MaxDepth /\ Cardinality(DirectRows(u)') <= MaxDepth
    <3>1. Rows(u)' \in SUBSET (kept \cup {e}) /\ DirectRows(u)' \in SUBSET (kept \cup {e})
      BY <2>2 DEF DirectRows
    <3>2. /\ Cardinality(Rows(u)') <= Cardinality(kept \cup {e})
          /\ Cardinality(Rows(u)') \in Nat
      BY <3>1, <2>5, CardSubset
    <3>3. /\ Cardinality(DirectRows(u)') <= Cardinality(kept \cup {e})
          /\ Cardinality(DirectRows(u)') \in Nat
      BY <3>1, <2>5, CardSubset
    <3> QED
      BY <3>2, <3>3, <2>1, <2>4, NumbersAssumption
  <2>7. \A v \in Users \ {u} : Rows(v)' = Rows(v) /\ DirectRows(v)' = DirectRows(v)
    BY DEF LuaInsert, Rows, DirectRows, TypeOK
  <2> QED
    BY <2>6, <2>7 DEF CapHolds
<1>2. CASE ~HasRoom(u, t)
  <2>1. \A v \in Users : Rows(v)' \subseteq Rows(v)
    BY <1>2 DEF LuaInsert, Rows, Pruned, TypeOK
  <2> QED
    BY <2>1, ShrinkCap
<1> QED
  BY <1>1, <1>2

(* The same step, seen from one handler: nobody else moves.                 *)
LEMMA LabelFrame ==
  ASSUME TypeOK, LabelInv, NEW p \in Tasks,
         faults' = faults \/ faults' = faults + 1,
         \A q \in Tasks \ {p} : task'[q] = task[q],
         task'[p].pc \in GroupLabels => Kind[task'[p].e] = "group",
         task'[p].pc = "gopen" => faults' # 0
  PROVE  LabelInv'
BY DEF LabelInv, TypeOK

(* Handlers keep to their labels.                                           *)
LEMMA LabelStep ==
  ASSUME TypeOK, LabelInv, NEW p \in Tasks, Step(p) \/ Request(p) \/ Failure(p)
  PROVE  LabelInv'
<1> USE DEF GroupLabels
<1>e. task \in [Tasks -> TaskType] /\ task[p] \in TaskType /\ faults \in Nat
  BY DEF TypeOK
<1>g. \A l : Goto(p, l) => /\ \A q \in Tasks \ {p} : task'[q] = task[q]
                           /\ task'[p].pc = l /\ task'[p].e = task[p].e
  BY <1>e DEF Goto, TaskType
<1>f. Finish(p) => /\ \A q \in Tasks \ {p} : task'[q] = task[q]
                   /\ task'[p].pc = "idle"
  BY <1>e DEF Finish, Idle
<1>1. CASE \/ EnqueueExpired(p) \/ EnqueueUndo(p) \/ AckMark(p)
  <2>1. UNCHANGED faults /\ \E l \in {"scrub", "release"} : Goto(p, l)
    BY <1>1 DEF EnqueueExpired, EnqueueUndo, AckMark
  <2> QED
    BY <2>1, <1>g, LabelFrame
<1>2. CASE \/ EnqueueDedup(p) \/ EnqueueScrub(p) \/ EnqueuePublish(p)
           \/ GroupAllRemote(p) \/ GroupExpired(p) \/ GroupPublish(p)
           \/ AckUnlink(p) \/ Recall(p)
           \/ Crash(p) \/ ClaimReplyLost(p) \/ ReleaseReplyLost(p)
  <2>1. (faults' = faults \/ faults' = faults + 1) /\ Finish(p)
    BY <1>2 DEF EnqueueDedup, EnqueueScrub, EnqueuePublish, GroupAllRemote,
       GroupExpired,
       GroupPublish, AckUnlink, Recall, Crash, ClaimReplyLost, ReleaseReplyLost
  <2> QED
    BY <2>1, <1>f, LabelFrame
<1>3. CASE WriteBlob(p)
  <2>1. UNCHANGED faults
    BY <1>3 DEF WriteBlob
  <2>2. \/ Goto(p, "claim")
        \/ task[p].pc = "gwrite" /\ Goto(p, "gmeta")
    BY <1>3 DEF WriteBlob
  <2> QED
    BY <2>1, <2>2, <1>g, LabelFrame DEF LabelInv
<1>4. CASE EnqueueClaim(p)
  <2>1. UNCHANGED faults
    BY <1>4 DEF EnqueueClaim
  <2>2. /\ \A q \in Tasks \ {p} : task'[q] = task[q]
        /\ task'[p].pc = "insert"
    BY <1>4, <1>e DEF EnqueueClaim, TaskType
  <2> QED
    BY <2>1, <2>2, LabelFrame
<1>5. CASE EnqueueInsert(p)
  <2>1. UNCHANGED faults /\ \E l \in {"publish", "undo"} : Goto(p, l)
    BY <1>5 DEF EnqueueInsert
  <2> QED
    BY <2>1, <1>g, LabelFrame
<1>6. CASE GroupMeta(p)
  <2>1. UNCHANGED faults /\ task[p].pc = "gmeta"
    BY <1>6 DEF GroupMeta, At
  <2>2. /\ \A q \in Tasks \ {p} : task'[q] = task[q]
        /\ task'[p].pc = "ginsert" /\ task'[p].e = task[p].e
    BY <1>6, <1>e DEF GroupMeta, TaskType
  <2> QED
    BY <2>1, <2>2, LabelFrame DEF LabelInv
<1>7. CASE GroupInsert(p)
  <2>1. UNCHANGED faults /\ task[p].pc = "ginsert"
    BY <1>7 DEF GroupInsert, At
  <2>2. PICK u, room : task' = [task EXCEPT ![p] = AfterInsert(p, u, room)]
    BY <1>7 DEF GroupInsert
  <2>3. /\ AfterInsert(p, u, room).e = task[p].e
        /\ AfterInsert(p, u, room).pc \in {"ginsert", "gpublish"}
    BY <1>e DEF AfterInsert, TaskType
  <2>4. /\ \A q \in Tasks \ {p} : task'[q] = task[q]
        /\ task'[p].pc \in {"ginsert", "gpublish"} /\ task'[p].e = task[p].e
    BY <2>2, <2>3, <1>e
  <2> QED
    BY <2>1, <2>4, LabelFrame DEF LabelInv
<1>8. CASE GroupFailOpen(p)
  <2>1. UNCHANGED faults /\ task[p].pc = "gopen"
    BY <1>8 DEF GroupFailOpen, At
  <2>2. /\ \A q \in Tasks \ {p} : task'[q] = task[q]
        /\ task'[p].pc = "gpublish" /\ task'[p].e = task[p].e
    BY <1>8, <1>e DEF GroupFailOpen, TaskType
  <2> QED
    BY <2>1, <2>2, LabelFrame DEF LabelInv
<1>9. CASE AckRelease(p)
  <2>1. UNCHANGED faults /\ (Goto(p, "unlink") \/ Finish(p))
    BY <1>9 DEF AckRelease
  <2> QED
    BY <2>1, <1>f, <1>g, LabelFrame
<1>10. CASE Request(p)
  <2>1. UNCHANGED faults
    BY <1>10 DEF Request, SendDuplicate, SendDirect, SendSealed, SendGroup,
       Accept, AckStart, RecallDirect, RecallSealed, RecallGroup, Authorised
  <2>2. CASE UNCHANGED task
    BY <2>1, <2>2, LabelFrame DEF LabelInv
  <2>3. CASE \E e \in Envelopes, ttl \in Ttls :
                SendDirect(p, e, ttl) \/ SendSealed(p, e, ttl) \/ SendGroup(p, e, ttl)
    <3>1. PICK e \in Envelopes, ttl \in Ttls, l \in {"write", "gwrite"} :
             Accept(p, e, l, ttl) /\ (l = "gwrite" => Kind[e] = "group")
      BY <2>3 DEF SendDirect, SendSealed, SendGroup
    <3>2. /\ \A q \in Tasks \ {p} : task'[q] = task[q]
          /\ task'[p].pc = l /\ task'[p].e = e
      BY <3>1, <1>e, IdleType DEF Accept, Idle
    <3> QED
      BY <2>1, <3>1, <3>2, LabelFrame
  <2>4. CASE \E e \in Envelopes, u \in Users : AckStart(p, u, e)
    <3>1. /\ \A q \in Tasks \ {p} : task'[q] = task[q]
          /\ task'[p].pc = "mark"
      BY <2>4, <1>e DEF AckStart, Idle
    <3> QED
      BY <2>1, <3>1, LabelFrame
  <2>5. CASE \E e \in Envelopes : Authorised(p, e)
    <3>1. /\ \A q \in Tasks \ {p} : task'[q] = task[q]
          /\ task'[p].pc = "recall"
      BY <2>5, <1>e DEF Authorised, Idle
    <3> QED
      BY <2>1, <3>1, LabelFrame
  <2> QED
    BY <1>10, <2>2, <2>3, <2>4, <2>5 DEF Request, SendDuplicate, RecallDirect,
       RecallSealed, RecallGroup
<1>11. CASE CallFails(p)
  <2>1. faults' = faults + 1
    BY <1>11 DEF CallFails
  <2>2. CASE /\ task[p].pc = "gmeta"
             /\ task' = [task EXCEPT ![p].pc = "gopen", ![p].exp = ExpiresAt(p),
                                     ![p].life = ExpiresAt(p) - now]
    <3>1. /\ \A q \in Tasks \ {p} : task'[q] = task[q]
          /\ task'[p].pc = "gopen" /\ task'[p].e = task[p].e
      BY <2>2, <1>e DEF TaskType
    <3> QED
      BY <2>1, <2>2, <3>1, <1>e, LabelFrame DEF LabelInv
  <2>3. CASE Goto(p, OnError(task[p].pc))
    <3>1. \/ OnError(task[p].pc) \notin GroupLabels
          \/ task[p].pc \in GroupLabels
      BY DEF OnError
    <3> QED
      BY <2>1, <2>3, <3>1, <1>g, <1>e, LabelFrame DEF LabelInv
  <2>4. CASE Finish(p)
    BY <2>1, <2>4, <1>f, LabelFrame
  <2> QED
    BY <1>11, <2>2, <2>3, <2>4 DEF CallFails, At
<1>12. CASE InsertReplyLost(p)
  <2>1. faults' = faults + 1 /\ Goto(p, "undo")
    BY <1>12 DEF InsertReplyLost, OnError
  <2> QED
    BY <2>1, <1>g, LabelFrame
<1>13. CASE BatchReplyLost(p)
  <2>1. faults' = faults + 1 /\ Goto(p, "gopen") /\ task[p].pc = "gpublish"
    BY <1>13 DEF BatchReplyLost, At
  <2> QED
    BY <2>1, <1>g, <1>e, LabelFrame DEF LabelInv
<1> QED
  BY <1>1, <1>2, <1>3, <1>4, <1>5, <1>6, <1>7, <1>8, <1>9, <1>10, <1>11, <1>12,
     <1>13 DEF Step, Failure

(* Handlers, and the failures of handlers, keep the cap.                    *)
LEMMA HandlerCap ==
  ASSUME TypeOK, LabelInv, CapHolds, NEW p \in Tasks,
         Step(p) \/ Request(p) \/ Failure(p)
  PROVE  CapHolds'
<1>e. /\ task[p] \in TaskType /\ task[p].e \in Envelopes
      /\ task[p].exp \in Nat /\ task[p].exp - task[p].life \in Int
      /\ To[task[p].e] \subseteq Users /\ task[p].todo \subseteq Users
      /\ faults \in Nat
  BY AddressAssumption DEF TypeOK, TaskType
<1>s. UNCHANGED inbox => \A u \in Users : Rows(u)' \subseteq Rows(u)
  BY DEF Rows
<1>z. ASSUME NEW us, NEW e \in Envelopes, Zrem(us, e)
      PROVE  \A u \in Users : Rows(u)' \subseteq Rows(u)
  BY <1>z DEF Zrem, Rows, TypeOK
<1>1. CASE \/ WriteBlob(p) \/ EnqueueExpired(p) \/ EnqueueDedup(p)
           \/ EnqueueClaim(p) \/ EnqueueUndo(p) \/ EnqueueScrub(p)
           \/ EnqueuePublish(p) \/ GroupAllRemote(p) \/ GroupExpired(p)
           \/ GroupMeta(p)
           \/ GroupPublish(p) \/ AckMark(p) \/ AckRelease(p) \/ AckUnlink(p)
           \/ CallFails(p) \/ Crash(p) \/ ClaimReplyLost(p) \/ ReleaseReplyLost(p)
           \/ BatchReplyLost(p)
  <2>1. UNCHANGED inbox /\ (faults' = faults \/ faults' = faults + 1)
    BY <1>1 DEF WriteBlob, EnqueueExpired, EnqueueDedup, EnqueueClaim,
       EnqueueUndo, EnqueueScrub, EnqueuePublish, GroupAllRemote, GroupExpired,
       GroupMeta,
       GroupPublish, AckMark, AckRelease, AckUnlink, CallFails, Crash,
       ClaimReplyLost, ReleaseReplyLost, BatchReplyLost, redisVars
  <2> QED
    BY <2>1, <1>s, <1>e, ShrinkCap
<1>2. CASE EnqueueInsert(p) \/ InsertReplyLost(p)
  <2>1. PICK u \in To[task[p].e] :
          LuaInsert(u, task[p].e, task[p].exp, task[p].exp - task[p].life)
    BY <1>2 DEF EnqueueInsert, InsertReplyLost
  <2>2. faults' = faults \/ faults' = faults + 1
    BY <1>2 DEF EnqueueInsert, InsertReplyLost
  <2> QED
    BY <2>1, <2>2, <1>e, InsertCap
<1>3. CASE GroupInsert(p)
  <2>1. PICK u \in task[p].todo :
          LuaInsert(u, task[p].e, task[p].exp, task[p].exp - task[p].life)
    BY <1>3 DEF GroupInsert
  <2>2. UNCHANGED faults
    BY <1>3 DEF GroupInsert
  <2> QED
    BY <2>1, <2>2, <1>e, InsertCap
<1>4. CASE GroupFailOpen(p)
  <2>1. faults' # 0 /\ Kind[task[p].e] = "group"
    BY <1>4 DEF GroupFailOpen, LabelInv, At, GroupLabels
  <2>2. \A u \in Users : DirectRows(u)' = DirectRows(u)
    BY <1>4, <2>1 DEF GroupFailOpen, DirectRows, Rows, TypeOK
  <2> QED
    BY <2>1, <2>2 DEF CapHolds
<1>5. CASE Recall(p)
  BY <1>5, <1>e, <1>z, ShrinkCap DEF Recall
<1>6. CASE Request(p)
  <2>1. CASE UNCHANGED inbox
    BY <1>6, <2>1, <1>s, ShrinkCap
       DEF Request, SendDuplicate, SendDirect, SendSealed, SendGroup, Accept,
       AckStart, RecallDirect, RecallSealed, RecallGroup, Authorised
  <2>2. CASE \E e \in Envelopes, u \in Users : AckStart(p, u, e)
    BY <2>2, <1>z, ShrinkCap DEF AckStart
  <2> QED
    BY <1>6, <2>1, <2>2 DEF Request, SendDuplicate, SendDirect, SendSealed,
       SendGroup, Accept, RecallDirect, RecallSealed, RecallGroup, Authorised,
       redisVars
<1> QED
  BY <1>1, <1>2, <1>3, <1>4, <1>5, <1>6 DEF Step, Failure

(* The reaper, list_inbox, Redis and the clock add no row.                  *)
LEMMA EnvironmentCap ==
  ASSUME TypeOK, LabelInv, CapHolds,
         \/ \E u \in Users : ListInbox(u)
         \/ Reap \/ ReapFails \/ ReapCrash
         \/ Redis \/ Tick
  PROVE  CapHolds' /\ LabelInv'
<1>1. faults' = faults \/ faults' = faults + 1
  BY DEF ListInbox, Reap, ReapStart, ReapCheck, ScanCheck, Examine, ReapUnlink,
     ReapDrop, ReapNext, ReapFails, ReapCrash, Redis, ExpireMeta, ExpirePending, ExpireInbox, Tick
<1>2. UNCHANGED task
  BY DEF ListInbox, Reap, ReapStart, ReapCheck, ScanCheck, Examine, ReapUnlink,
     ReapDrop, ReapNext, ReapFails, ReapCrash, Redis, ExpireMeta, ExpirePending, ExpireInbox, Tick
<1>3. \A u \in Users : Rows(u)' \subseteq Rows(u)
  <2>1. CASE UNCHANGED inbox
    BY <2>1 DEF Rows
  <2>2. CASE \E u \in Users : ListInbox(u)
    BY <2>2 DEF ListInbox, Rows, Pruned, TypeOK
  <2>3. CASE \E u \in Users : ExpireInbox(u)
    BY <2>3 DEF ExpireInbox, Rows, TypeOK
  <2> QED
    BY <2>1, <2>2, <2>3 DEF Reap, ReapStart, ReapCheck, ScanCheck, Examine,
       ReapUnlink, ReapDrop,
       ReapNext, ReapFails, ReapCrash, Redis, ExpireMeta, ExpirePending, Tick,
       redisVars
<1>4. faults \in Nat
  BY DEF TypeOK
<1>5. CapHolds'
  BY <1>1, <1>3, <1>4, ShrinkCap
<1> QED
  BY <1>1, <1>2, <1>4, <1>5 DEF LabelInv

(* The cap and the labels, with the types.                                  *)
LEMMA CapAlways == Spec => [](CapHolds /\ LabelInv)
<1>1. Init => CapHolds /\ LabelInv
  <2> SUFFICES ASSUME Init PROVE CapHolds /\ LabelInv
    OBVIOUS
  <2>1. \A u \in Users : Rows(u) = {} /\ DirectRows(u) = {}
    BY DEF Init, Rows, DirectRows
  <2>2. CapHolds
    BY <2>1, FS_EmptySet, NumbersAssumption DEF CapHolds
  <2>3. LabelInv
    BY DEF Init, LabelInv, Idle, GroupLabels
  <2> QED
    BY <2>2, <2>3
<1>2. TypeOK /\ CapHolds /\ LabelInv /\ [Next]_vars => CapHolds' /\ LabelInv'
  <2> SUFFICES ASSUME TypeOK, CapHolds, LabelInv, [Next]_vars
               PROVE  CapHolds' /\ LabelInv'
    OBVIOUS
  <2>1. CASE \E p \in Tasks : Step(p) \/ Request(p) \/ Failure(p)
    BY <2>1, HandlerCap, LabelStep
  <2>2. CASE \/ \E u \in Users : ListInbox(u)
             \/ Reap \/ ReapFails \/ ReapCrash
             \/ Redis \/ Tick
    BY <2>2, EnvironmentCap
  <2>3. CASE UNCHANGED vars
    BY <2>3 DEF vars, redisVars, CapHolds, LabelInv, DirectRows, Rows
  <2> QED
    BY <2>1, <2>2, <2>3 DEF Next
<1> QED
  BY <1>1, <1>2, TypeCorrect, PTL DEF Spec

(* MAX_INBOX_QUEUE_DEPTH is hard: however many handlers insert at once,     *)
(* however they interleave, fail or die, no inbox holds more direct and     *)
(* sealed messages than the cap, and without a Redis fault no more messages *)
(* of any kind (queue.py, _INBOX_ENQUEUE_LUA and its callers).              *)
THEOREM HardCapHolds == Spec => []HardCap
<1>1. CapHolds => HardCap
  BY DEF CapHolds, HardCap, DirectRows
<1> QED
  BY <1>1, CapAlways, PTL

----------------------------------------------------------------------------
(* An envelope that is sent once, while every call is answered.             *)

(* A send goes through three kinds of labels: nothing is in Redis yet; the  *)
(* metadata key is written and the rows are; the send is being undone.      *)
Early == {"write", "gwrite", "claim", "gmeta"}
Late  == {"insert", "ginsert", "publish", "gpublish"}
Void  == {"undo", "scrub"}

In(p, e, L) == task[p].e = e /\ task[p].pc \in L
Sends(p, e) == In(p, e, Early \cup Late \cup Void)
Nobody(e, L) == \A p \in Tasks : ~In(p, e, L)
NoRows(e)    == \A u \in Users : inbox[u][e] = 0
Untracked(e) == pending[e] = {} /\ index[e] = 0
Blank(e)     == /\ meta[e] = 0 /\ NoRows(e) /\ Untracked(e)
                /\ Nobody(e, AckLabels) /\ e \notin enqueued /\ e \notin recalled

OneSender(e) == \A p, q \in Tasks : Sends(p, e) /\ Sends(q, e) => p = q
UnsentInv(e) == sent[e] = 0 => /\ Blank(e)
                               /\ \A p \in Tasks : task[p].e = e => task[p].pc = "idle"
EarlyInv(e)  == \A p \in Tasks : In(p, e, Early) => Blank(e)
VoidInv(e)   == \A p \in Tasks :
    In(p, e, Void) => NoRows(e) /\ Untracked(e) /\ Nobody(e, AckLabels)

(* While the rows are written they have the score of the metadata, nobody   *)
(* can be the last to acknowledge, and no ACK is ahead of its row.          *)
LateInv(e) == \A p \in Tasks : In(p, e, Late) =>
    /\ Untracked(e) /\ Nobody(e, {"unlink"})
    /\ task[p].exp - task[p].life <= now
    /\ \A u \in Users : inbox[u][e] \in {0, task[p].exp}
    /\ task[p].exp > now /\ e \notin recalled => meta[e] = task[p].exp
InsertInv(e) == \A p \in Tasks :
    /\ In(p, e, {"insert"}) => NoRows(e) /\ Nobody(e, AckLabels)
    /\ In(p, e, {"ginsert"}) =>
         \A u \in task[p].todo :
            /\ inbox[u][e] = 0
            /\ \A q \in Tasks : In(q, e, {"mark", "release"}) => task[q].u # u
    /\ In(p, e, {"publish"}) => \A u \in Users : inbox[u][e] # 0 => u \in To[e]
    /\ In(p, e, {"ginsert", "gpublish"}) =>
         \A u \in Users : inbox[u][e] # 0 => u \in task[p].eligible

(* An ACK comes after its row is gone, and the last one after all are.      *)
AckInv(e) == \A p \in Tasks :
    /\ In(p, e, {"mark", "release"}) => inbox[task[p].u][e] = 0
    /\ In(p, e, {"unlink"}) => NoRows(e)
PendingInv(e) ==
    pending[e] # {} => \A u \in Users : inbox[u][e] # 0 => u \in pending[e]

(* A live row expires with its metadata, unless the envelope was recalled;  *)
(* then the metadata never comes back.                                      *)
MetaInv(e) ==
    /\ e \in recalled => meta[e] = 0
    /\ e \notin recalled =>
         \A u \in Users : inbox[u][e] > now => meta[e] = inbox[u][e]
    /\ e \notin enqueued => NoRows(e)
TrackInv(e) ==
    crashes = 0 /\ (\A p \in Tasks : ~Sends(p, e)) =>
        \A u \in Users : inbox[u][e] > now => /\ u \in pending[e]
                                              /\ inbox[u][e] <= pendingTtl[e]
IndexInv(e) == index[e] # 0 => \A u \in Users : inbox[u][e] <= index[e]

Once(e) == /\ OneSender(e) /\ UnsentInv(e) /\ EarlyInv(e) /\ VoidInv(e)
           /\ LateInv(e) /\ InsertInv(e) /\ AckInv(e) /\ PendingInv(e)
           /\ MetaInv(e) /\ TrackInv(e) /\ IndexInv(e)
OnceInv == faults = 0 => \A e \in Envelopes : sent[e] <= 1 => Once(e)

----------------------------------------------------------------------------
(* Steps that only take from what is kept of e: rows and keys go, handlers  *)
(* end, turn to the undoing of a send or go on with an ACK.                 *)
RowsGo(e) == \A u \in Users : inbox'[u][e] = inbox[u][e] \/ inbox'[u][e] = 0
NoLive(e) == \A u \in Users : inbox[u][e] <= now
NoSender(e) == \A p \in Tasks : ~Sends(p, e)

MetaGoes(e) ==
    \/ /\ (e \in recalled') = (e \in recalled)
       /\ \/ meta'[e] = meta[e]
          \/ /\ meta'[e] = 0 /\ NoLive(e)'
             /\ \A p \in Tasks : In(p, e, Late) => task[p].exp <= now \/ e \in recalled
    \/ e \in recalled' /\ meta'[e] = 0 /\ ~Blank(e)

PendingGoes(e) ==
    /\ pending'[e] \subseteq pending[e]
    /\ \/ pending'[e] = {}
       \/ \A u \in Users : inbox'[u][e] # 0 /\ u \in pending[e] => u \in pending'[e]
    /\ \/ /\ pendingTtl'[e] = pendingTtl[e]
          /\ \A u \in Users : inbox'[u][e] # 0 /\ u \in pending[e] => u \in pending'[e]
       \/ crashes' = 0 /\ NoSender(e)' => NoLive(e)'

KeysGo(e) == /\ MetaGoes(e) /\ PendingGoes(e) /\ sent'[e] = sent[e]
             /\ index'[e] = index[e] \/ index'[e] = 0
             /\ (e \in enqueued') = (e \in enqueued)

Moves(p, e) ==
    \/ task'[p] = task[p]
    \/ task'[p].e # e \/ task'[p].pc = "idle"
    \/ task'[p].pc = "recall" /\ sent[e] # 0
    \/ /\ task[p].e = e /\ task'[p].e = e /\ task'[p].u = task[p].u
       /\ \/ task[p].pc \in Early /\ task'[p].pc \in Early \cup Void
          \/ task[p].pc \in Void /\ task'[p].pc \in Void
          \/ task[p].pc = "mark" /\ task'[p].pc = "release"
          \/ /\ task[p].pc = "release" /\ task'[p].pc = "unlink"
             /\ NoRows(e)' /\ NoSender(e)

Fades(e) == /\ RowsGo(e) /\ KeysGo(e) /\ now <= now'
            /\ crashes' = 0 => crashes = 0
            /\ \A p \in Tasks : Moves(p, e)
            /\ \/ crashes' # 0 \/ NoLive(e)'
               \/ \A p \in Tasks : Sends(p, e) => Sends(p, e)'

(* The three kinds of labels, and those of an ACK, are disjoint.            *)
LEMMA LabelSets ==
    /\ "idle" \notin Early /\ "idle" \notin Late /\ "idle" \notin Void
    /\ "idle" \notin AckLabels /\ "recall" \notin AckLabels
    /\ "recall" \notin Early /\ "recall" \notin Late /\ "recall" \notin Void
    /\ Early \cap Late = {} /\ Early \cap Void = {} /\ Late \cap Void = {}
    /\ AckLabels \cap Early = {} /\ AckLabels \cap Late = {} /\ AckLabels \cap Void = {}
    /\ AckLabels = {"mark", "release", "unlink"}
BY DEF Early, Late, Void, AckLabels

(* A step that only takes from e leaves it in order.                        *)
LEMMA OnceFades ==
    ASSUME TypeOK, TypeOK', NEW e \in Envelopes, Once(e), Fades(e)
    PROVE  Once(e)'
<1>n. /\ now \in Nat /\ now' \in Nat /\ now <= now'
      /\ \A u \in Users : inbox[u][e] \in Nat /\ inbox'[u][e] \in Nat
  BY DEF TypeOK, Fades
<1>m. \A p \in Tasks : Moves(p, e)
  BY DEF Fades
<1>g. RowsGo(e) /\ KeysGo(e)
  BY DEF Fades
<1>e. \A p \in Tasks : In(p, e, Early)' => In(p, e, Early)
  BY <1>m, LabelSets DEF In, Moves
<1>v. \A p \in Tasks : In(p, e, Void)' => In(p, e, Void) \/ In(p, e, Early)
  BY <1>m, LabelSets DEF In, Moves
<1>l. \A p \in Tasks : In(p, e, Late)' => In(p, e, Late) /\ task'[p] = task[p]
  BY <1>m, LabelSets DEF In, Moves
<1>k. \A p \in Tasks : In(p, e, {"mark", "release"})' =>
          In(p, e, {"mark", "release"}) /\ task'[p].u = task[p].u
  BY <1>m, LabelSets DEF In, Moves
<1>x. \A p \in Tasks : In(p, e, {"unlink"})' =>
          \/ In(p, e, {"unlink"})
          \/ In(p, e, {"release"}) /\ NoRows(e)' /\ NoSender(e)
  BY <1>m, LabelSets DEF In, Moves
<1>r. NoRows(e) => NoRows(e)'
  BY <1>g DEF NoRows, RowsGo
<1>u. Untracked(e) => Untracked(e)'
  BY <1>g DEF Untracked, KeysGo, PendingGoes
<1>a. Nobody(e, AckLabels) => Nobody(e, AckLabels)'
  BY <1>k, <1>x, LabelSets DEF Nobody, In
<1>b. Blank(e) => Blank(e)'
  BY <1>r, <1>u, <1>a, <1>g DEF Blank, KeysGo, MetaGoes
<1>1. OneSender(e)'
  BY <1>e, <1>v, <1>l DEF OneSender, Sends, In, Once
<1>2. UnsentInv(e)'
  BY <1>b, <1>g, <1>m DEF UnsentInv, KeysGo, Moves, Once, LabelSets, Early, Void
<1>3. EarlyInv(e)'
  BY <1>e, <1>b DEF EarlyInv, Once
<1>4. VoidInv(e)'
  BY <1>v, <1>r, <1>u, <1>a DEF VoidInv, EarlyInv, Blank, Once
<1>5. LateInv(e)'
  <2> SUFFICES ASSUME NEW p \in Tasks, In(p, e, Late)'
               PROVE  /\ Untracked(e)' /\ Nobody(e, {"unlink"})'
                      /\ task'[p].exp - task'[p].life <= now'
                      /\ \A u \in Users : inbox'[u][e] \in {0, task'[p].exp}
                      /\ task'[p].exp > now' /\ e \notin recalled' =>
                             meta'[e] = task'[p].exp
    BY DEF LateInv
  <2>1. In(p, e, Late) /\ task'[p] = task[p]
    BY <1>l
  <2>2. /\ Untracked(e) /\ Nobody(e, {"unlink"})
        /\ task[p].exp - task[p].life <= now
        /\ \A u \in Users : inbox[u][e] \in {0, task[p].exp}
        /\ task[p].exp > now /\ e \notin recalled => meta[e] = task[p].exp
    BY <2>1 DEF Once, LateInv
  <2>3. task[p].exp \in Nat /\ task[p].life \in Nat
    BY DEF TypeOK, TaskType
  <2>4. Nobody(e, {"unlink"})'
    <3>1. ~NoSender(e)
      BY <2>1 DEF NoSender, Sends, In
    <3> QED
      BY <2>2, <3>1, <1>x DEF Nobody
  <2>5. task'[p].exp - task'[p].life <= now'
    BY <2>1, <2>2, <2>3, <1>n
  <2>6. \A u \in Users : inbox'[u][e] \in {0, task'[p].exp}
    BY <2>1, <2>2, <1>g DEF RowsGo
  <2>7. ASSUME task'[p].exp > now', e \notin recalled'
        PROVE  meta'[e] = task'[p].exp
    <3>1. task[p].exp > now
      BY <2>1, <2>3, <2>7, <1>n
    <3>2. ~(task[p].exp <= now)
      BY <3>1, <2>3, <1>n
    <3> QED
      BY <2>1, <2>2, <2>7, <3>1, <3>2, <1>g DEF KeysGo, MetaGoes
  <2> QED
    BY <2>2, <2>4, <2>5, <2>6, <2>7, <1>u
<1>6. InsertInv(e)'
  <2> SUFFICES ASSUME NEW p \in Tasks
               PROVE  /\ In(p, e, {"insert"})' => NoRows(e)' /\ Nobody(e, AckLabels)'
                      /\ In(p, e, {"ginsert"})' =>
                           \A u \in task'[p].todo :
                              /\ inbox'[u][e] = 0
                              /\ \A q \in Tasks : In(q, e, {"mark", "release"})' =>
                                                      task'[q].u # u
                      /\ In(p, e, {"publish"})' =>
                           \A u \in Users : inbox'[u][e] # 0 => u \in To[e]
                      /\ In(p, e, {"ginsert", "gpublish"})' =>
                           \A u \in Users : inbox'[u][e] # 0 => u \in task'[p].eligible
    BY DEF InsertInv
  <2>1. InsertInv(e)
    BY DEF Once
  <2>2. \A L \in SUBSET Late : In(p, e, L)' => In(p, e, L) /\ task'[p] = task[p]
    BY <1>l DEF In
  <2>3. /\ {"insert"} \in SUBSET Late /\ {"ginsert"} \in SUBSET Late
        /\ {"publish"} \in SUBSET Late /\ {"ginsert", "gpublish"} \in SUBSET Late
    BY DEF Late
  <2>4. In(p, e, {"insert"})' => NoRows(e)' /\ Nobody(e, AckLabels)'
    BY <2>1, <2>2, <2>3, <1>r, <1>a DEF InsertInv
  <2>5. ASSUME In(p, e, {"ginsert"})', NEW u \in task'[p].todo
        PROVE  /\ inbox'[u][e] = 0
               /\ \A q \in Tasks : In(q, e, {"mark", "release"})' => task'[q].u # u
    <3>1. In(p, e, {"ginsert"}) /\ task'[p] = task[p] /\ u \in Users
      BY <2>2, <2>3, <2>5 DEF TypeOK, TaskType
    <3>2. /\ inbox[u][e] = 0
          /\ \A q \in Tasks : In(q, e, {"mark", "release"}) => task[q].u # u
      BY <2>1, <3>1 DEF InsertInv
    <3> QED
      BY <3>1, <3>2, <1>k, <1>g DEF RowsGo
  <2>6. In(p, e, {"publish"})' => \A u \in Users : inbox'[u][e] # 0 => u \in To[e]
    BY <2>1, <2>2, <2>3, <1>g DEF InsertInv, RowsGo
  <2>7. In(p, e, {"ginsert", "gpublish"})' =>
            \A u \in Users : inbox'[u][e] # 0 => u \in task'[p].eligible
    BY <2>1, <2>2, <2>3, <1>g DEF InsertInv, RowsGo
  <2> QED
    BY <2>4, <2>5, <2>6, <2>7
<1>7. AckInv(e)'
  <2> SUFFICES ASSUME NEW p \in Tasks
               PROVE  /\ In(p, e, {"mark", "release"})' => inbox'[task'[p].u][e] = 0
                      /\ In(p, e, {"unlink"})' => NoRows(e)'
    BY DEF AckInv
  <2>1. ASSUME In(p, e, {"mark", "release"})' PROVE inbox'[task'[p].u][e] = 0
    <3>1. In(p, e, {"mark", "release"}) /\ task'[p].u = task[p].u /\ task[p].u \in Users
      BY <2>1, <1>k DEF TypeOK, TaskType
    <3>2. inbox[task[p].u][e] = 0
      BY <3>1 DEF Once, AckInv
    <3> QED
      BY <3>1, <3>2, <1>g DEF RowsGo
  <2>2. In(p, e, {"unlink"})' => NoRows(e)'
    BY <1>x, <1>r DEF Once, AckInv
  <2> QED
    BY <2>1, <2>2
<1>8. PendingInv(e)'
  BY <1>g DEF PendingInv, KeysGo, PendingGoes, RowsGo, Once
<1>9. MetaInv(e)'
  <2>1. e \in recalled' => meta'[e] = 0
    BY <1>g DEF Once, MetaInv, KeysGo, MetaGoes
  <2>2. e \notin enqueued' => NoRows(e)'
    BY <1>g, <1>r DEF Once, MetaInv, KeysGo
  <2>3. ASSUME e \notin recalled', NEW u \in Users, inbox'[u][e] > now'
        PROVE  meta'[e] = inbox'[u][e]
    <3>1. inbox'[u][e] = inbox[u][e] /\ inbox[u][e] > now /\ ~(inbox'[u][e] <= now')
      BY <2>3, <1>n, <1>g DEF RowsGo
    <3>2. e \notin recalled /\ meta'[e] = meta[e]
      BY <2>3, <3>1, <1>g DEF KeysGo, MetaGoes, NoLive
    <3> QED
      BY <3>1, <3>2 DEF Once, MetaInv
  <2> QED
    BY <2>1, <2>2, <2>3 DEF MetaInv
<1>10. TrackInv(e)'
  <2> SUFFICES ASSUME crashes' = 0, NoSender(e)', NEW u \in Users,
                      inbox'[u][e] > now'
               PROVE  u \in pending'[e] /\ inbox'[u][e] <= pendingTtl'[e]
    BY DEF TrackInv, NoSender
  <2>1. /\ crashes = 0 /\ inbox'[u][e] = inbox[u][e] /\ inbox[u][e] > now
        /\ inbox'[u][e] # 0 /\ ~NoLive(e)'
    BY <1>n, <1>g DEF RowsGo, Fades, NoLive
  <2>2. \A p \in Tasks : ~Sends(p, e)
    BY <2>1 DEF Fades, NoSender
  <2>3. u \in pending[e] /\ inbox[u][e] <= pendingTtl[e]
    BY <2>1, <2>2 DEF Once, TrackInv
  <2> QED
    BY <2>1, <2>3, <1>g DEF KeysGo, PendingGoes
<1>11. IndexInv(e)'
  <2>1. index[e] \in Nat
    BY DEF TypeOK
  <2>2. \A u \in Users : index[e] # 0 => inbox[u][e] <= index[e]
    BY DEF Once, IndexInv
  <2>3. \A u \in Users : index[e] # 0 => inbox'[u][e] <= index[e]
    BY <2>1, <2>2, <1>n, <1>g DEF RowsGo
  <2> QED
    BY <2>3, <1>g DEF IndexInv, KeysGo
<1> QED
  BY <1>1, <1>2, <1>3, <1>4, <1>5, <1>6, <1>7, <1>8, <1>9, <1>10, <1>11 DEF Once

(* What is kept of e is as it was.                                          *)
Rest(e) == /\ meta'[e] = meta[e] /\ index'[e] = index[e] /\ sent'[e] = sent[e]
           /\ pending'[e] = pending[e] /\ pendingTtl'[e] = pendingTtl[e]
           /\ (e \in enqueued') = (e \in enqueued)
           /\ (e \in recalled') = (e \in recalled)

(* A step at which at most rows of e go and no sender of e ends.            *)
LEMMA QuietFades ==
    ASSUME NEW e \in Envelopes, Rest(e), RowsGo(e), now <= now',
           crashes' = 0 => crashes = 0,
           \A p \in Tasks : Moves(p, e),
           \/ crashes' # 0 \/ NoLive(e)'
           \/ \A p \in Tasks : Sends(p, e) => Sends(p, e)'
    PROVE  Fades(e)
BY DEF Fades, Rest, KeysGo, MetaGoes, PendingGoes

(* The atomic insertion of one envelope takes at most rows from another.    *)
LEMMA InsertOthers ==
    ASSUME TypeOK, NEW u \in Users, NEW d \in Envelopes, NEW x, NEW t \in Int,
           LuaInsert(u, d, x, t), NEW e \in Envelopes, e # d
    PROVE  RowsGo(e) /\ (e \in enqueued') = (e \in enqueued)
<1>1. \A v \in Users : inbox'[v][e] = inbox[v][e] \/ inbox'[v][e] = 0
  BY DEF TypeOK, LuaInsert, Pruned
<1> QED
  BY <1>1 DEF RowsGo, LuaInsert

(* What one step of a handler does to the other handlers and to the         *)
(* envelopes it is not about.                                               *)
LEMMA StepFrame ==
    ASSUME TypeOK, NEW p \in Tasks, Step(p)
    PROVE  /\ \A q \in Tasks \ {p} : task'[q] = task[q]
           /\ task'[p].pc = "idle" \/ task'[p].e = task[p].e
           /\ UNCHANGED <<now, sent, faults, crashes>>
           /\ \A e \in Envelopes \ {task[p].e} : Rest(e) /\ RowsGo(e)
<1> USE AddressAssumption
<1>e. task \in [Tasks -> TaskType] /\ task[p] \in TaskType /\ task[p].e \in Envelopes
  BY DEF TypeOK, TaskType
<1>g. \A l : Goto(p, l) => /\ \A q \in Tasks \ {p} : task'[q] = task[q]
                           /\ task'[p].e = task[p].e
  BY <1>e DEF Goto, TaskType
<1>f. Finish(p) => /\ \A q \in Tasks \ {p} : task'[q] = task[q]
                   /\ task'[p].pc = "idle"
  BY <1>e DEF Finish, Idle
<1>1. CASE \/ WriteBlob(p) \/ EnqueueExpired(p) \/ AckMark(p) \/ EnqueueDedup(p)
           \/ EnqueueScrub(p) \/ GroupAllRemote(p) \/ GroupExpired(p) \/ AckUnlink(p)
  <2>1. /\ UNCHANGED <<now, sent, faults, crashes, meta, inbox, pending, pendingTtl,
                       index, enqueued, recalled>>
        /\ (\E l : Goto(p, l)) \/ Finish(p)
    BY <1>1 DEF WriteBlob, EnqueueExpired, AckMark, EnqueueDedup, EnqueueScrub,
       GroupAllRemote, GroupExpired, AckUnlink, redisVars, history
  <2> QED
    BY <2>1, <1>g, <1>f DEF Rest, RowsGo
<1>2. CASE EnqueueClaim(p) \/ GroupMeta(p)
  <2>1. /\ UNCHANGED <<now, sent, faults, crashes, inbox, pending, pendingTtl,
                       index, enqueued, recalled>>
        /\ meta' = [meta EXCEPT ![task[p].e] = ExpiresAt(p)]
    BY <1>2 DEF EnqueueClaim, GroupMeta, history
  <2>2. /\ \A q \in Tasks \ {p} : task'[q] = task[q]
        /\ task'[p].e = task[p].e
    BY <1>2, <1>e DEF EnqueueClaim, GroupMeta, TaskType
  <2> QED
    BY <2>1, <2>2 DEF Rest, RowsGo, TypeOK
<1>3. CASE EnqueueInsert(p)
  <2>1. PICK u \in To[task[p].e] :
          /\ LuaInsert(u, task[p].e, task[p].exp, task[p].exp - task[p].life)
          /\ Goto(p, IF HasRoom(u, task[p].exp - task[p].life)
                     THEN "publish" ELSE "undo")
    BY <1>3 DEF EnqueueInsert
  <2>2. u \in Users /\ task[p].exp - task[p].life \in Int
    BY <1>e DEF TaskType
  <2>3. UNCHANGED <<now, sent, faults, crashes, meta, pending, pendingTtl, index,
                    recalled>>
    BY <1>3 DEF EnqueueInsert
  <2>4. \A e \in Envelopes \ {task[p].e} :
            RowsGo(e) /\ (e \in enqueued') = (e \in enqueued)
    BY <1>e, <2>1, <2>2, InsertOthers
  <2> QED
    BY <2>1, <2>3, <2>4, <1>g DEF Rest
<1>4. CASE GroupInsert(p)
  <2> DEFINE t == task[p].exp - task[p].life
  <2>1. PICK u \in task[p].todo :
          /\ LuaInsert(u, task[p].e, task[p].exp, t)
          /\ task' = [task EXCEPT ![p] = AfterInsert(p, u, HasRoom(u, t))]
    BY <1>4 DEF GroupInsert
  <2>2. u \in Users /\ t \in Int
    BY <1>e DEF TaskType
  <2>3. UNCHANGED <<now, sent, faults, crashes, meta, pending, pendingTtl, index,
                    recalled>>
    BY <1>4 DEF GroupInsert
  <2>4. \A e \in Envelopes \ {task[p].e} :
            RowsGo(e) /\ (e \in enqueued') = (e \in enqueued)
    BY <1>e, <2>1, <2>2, InsertOthers
  <2>5. AfterInsert(p, u, HasRoom(u, t)).e = task[p].e
    BY <1>e DEF AfterInsert, TaskType
  <2>6. /\ \A q \in Tasks \ {p} : task'[q] = task[q]
        /\ task'[p].e = task[p].e
    BY <2>1, <2>5, <1>e
  <2> QED
    BY <2>3, <2>4, <2>6 DEF Rest
<1>5. CASE GroupFailOpen(p)
  <2>1. /\ UNCHANGED <<now, sent, faults, crashes, pending, pendingTtl, index, recalled>>
        /\ meta' = [meta EXCEPT ![task[p].e] = now + task[p].life]
        /\ enqueued' = enqueued \cup {task[p].e}
        /\ \A u \in Users : inbox'[u] = IF u \in To[task[p].e]
                              THEN [inbox[u] EXCEPT ![task[p].e] = task[p].exp]
                              ELSE inbox[u]
    BY <1>5 DEF GroupFailOpen
  <2>2. /\ \A q \in Tasks \ {p} : task'[q] = task[q]
        /\ task'[p].e = task[p].e
    BY <1>5, <1>e DEF GroupFailOpen, TaskType
  <2>3. \A e \in Envelopes \ {task[p].e} : RowsGo(e)
    BY <2>1 DEF RowsGo, TypeOK
  <2> QED
    BY <2>1, <2>2, <2>3 DEF Rest, TypeOK
<1>6. CASE EnqueueUndo(p)
  <2>1. /\ UNCHANGED <<now, sent, faults, crashes, inbox, pending, pendingTtl,
                       index, enqueued, recalled>>
        /\ meta' = [meta EXCEPT ![task[p].e] = 0] /\ Goto(p, "scrub")
    BY <1>6 DEF EnqueueUndo, history
  <2> QED
    BY <2>1, <1>g DEF Rest, RowsGo, TypeOK
<1>7. CASE EnqueuePublish(p) \/ GroupPublish(p)
  <2>1. /\ UNCHANGED <<now, sent, faults, crashes, meta, inbox, enqueued, recalled>>
        /\ Finish(p) /\ \E us : Track(p, us)
    BY <1>7 DEF EnqueuePublish, GroupPublish, history
  <2>2. \A e \in Envelopes \ {task[p].e} :
            pending'[e] = pending[e] /\ pendingTtl'[e] = pendingTtl[e] /\ index'[e] = index[e]
    BY <2>1 DEF Track, TypeOK
  <2> QED
    BY <2>1, <2>2, <1>f DEF Rest, RowsGo
<1>8. CASE AckRelease(p)
  <2>1. /\ UNCHANGED <<now, sent, faults, crashes, inbox, index, enqueued, recalled>>
        /\ Finish(p) \/ Goto(p, "unlink")
        /\ LuaAck(task[p].e, task[p].u)
    BY <1>8 DEF AckRelease, history
  <2>2. \A e \in Envelopes \ {task[p].e} :
            pending'[e] = pending[e] /\ pendingTtl'[e] = pendingTtl[e] /\ meta'[e] = meta[e]
    BY <2>1 DEF LuaAck, TypeOK
  <2> QED
    BY <2>1, <2>2, <1>f, <1>g DEF Rest, RowsGo
<1>9. CASE Recall(p)
  <2>1. /\ UNCHANGED <<now, sent, faults, crashes, pending, pendingTtl, index, enqueued>>
        /\ Finish(p) /\ meta' = [meta EXCEPT ![task[p].e] = 0]
        /\ recalled' \in {recalled, recalled \cup {task[p].e}}
        /\ Zrem(To[task[p].e], task[p].e)
    BY <1>9 DEF Recall
  <2>2. \A e \in Envelopes \ {task[p].e} : RowsGo(e)
    BY <2>1 DEF Zrem, TypeOK, RowsGo
  <2> QED
    BY <2>1, <2>2, <1>f DEF Rest, TypeOK
<1> QED
  BY <1>1, <1>2, <1>3, <1>4, <1>5, <1>6, <1>7, <1>8, <1>9 DEF Step

(* A handler's step fades every envelope it is not about.                   *)
LEMMA ForeignFades ==
    ASSUME TypeOK, NEW p \in Tasks, Step(p), NEW e \in Envelopes, task[p].e # e
    PROVE  Fades(e)
<1>1. /\ \A q \in Tasks \ {p} : task'[q] = task[q]
      /\ task'[p].pc = "idle" \/ task'[p].e = task[p].e
      /\ UNCHANGED <<now, crashes>> /\ Rest(e) /\ RowsGo(e)
  BY StepFrame
<1>2. now <= now'
  BY <1>1 DEF TypeOK
<1>3. \A q \in Tasks : Moves(q, e)
  BY <1>1 DEF Moves
<1>4. \A q \in Tasks : Sends(q, e) => Sends(q, e)'
  BY <1>1 DEF Sends, In
<1> QED
  BY <1>1, <1>2, <1>3, <1>4, QuietFades

(* The steps about e that only take away.                                   *)
LEMMA OwnFades ==
    ASSUME TypeOK, TypeOK', NEW p \in Tasks, NEW e \in Envelopes,
           task[p].e = e, Once(e),
           \/ WriteBlob(p) \/ EnqueueExpired(p) \/ EnqueueDedup(p) \/ EnqueueUndo(p)
           \/ EnqueueScrub(p) \/ GroupAllRemote(p) \/ GroupExpired(p)
           \/ AckMark(p) \/ AckRelease(p) \/ AckUnlink(p) \/ Recall(p)
    PROVE  Fades(e)
<1>e. task \in [Tasks -> TaskType] /\ task[p] \in TaskType /\ e \in Envelopes
  BY DEF TypeOK, TaskType
<1>s. Step(p)
  BY DEF Step
<1>q. /\ \A q \in Tasks \ {p} : task'[q] = task[q]
      /\ UNCHANGED <<now, sent, crashes>> /\ now \in Nat
  BY <1>s, StepFrame DEF TypeOK
<1>g. \A l : Goto(p, l) => task'[p].pc = l /\ task'[p].e = e /\ task'[p].u = task[p].u
  BY <1>e DEF Goto, TaskType
<1>f. Finish(p) => task'[p].pc = "idle"
  BY <1>e DEF Finish, Idle
<1>n. NoRows(e)' => NoLive(e)'
  BY <1>q DEF NoRows, NoLive
<1>m. Moves(p, e) => \A q \in Tasks : Moves(q, e)
  BY <1>q DEF Moves
<1> DEFINE Still == UNCHANGED <<meta, inbox, pending, pendingTtl, index, enqueued, recalled>>
<1>k. ASSUME Still, Moves(p, e), NoRows(e) \/ (Sends(p, e) => Sends(p, e)')
      PROVE  Fades(e)
  <2>1. Rest(e) /\ RowsGo(e) /\ now <= now'
    BY <1>k, <1>q DEF Rest, RowsGo
  <2>2. NoLive(e)' \/ \A q \in Tasks : Sends(q, e) => Sends(q, e)'
    BY <1>k, <1>n, <1>q DEF NoRows, Sends, In
  <2> QED
    BY <1>e, <1>q, <1>m, <1>k, <2>1, <2>2, QuietFades
<1>1. CASE WriteBlob(p)
  <2>1. Still /\ task[p].pc \in Early /\ \E l \in Early : Goto(p, l)
    BY <1>1 DEF WriteBlob, Early, redisVars, history
  <2>2. Moves(p, e) /\ Sends(p, e)'
    BY <2>1, <1>g DEF Moves, Sends, In
  <2> QED
    BY <1>k, <2>1, <2>2
<1>2. CASE EnqueueExpired(p)
  <2>1. Still /\ task[p].pc \in Early /\ Goto(p, "scrub") /\ "scrub" \in Void
    BY <1>2 DEF EnqueueExpired, At, Early, Void, redisVars, history
  <2>2. Moves(p, e) /\ Sends(p, e)'
    BY <2>1, <1>g DEF Moves, Sends, In
  <2> QED
    BY <1>k, <2>1, <2>2
<1>3. CASE EnqueueDedup(p)
  <2>1. task[p].pc \in Early /\ meta[e] # 0
    BY <1>3 DEF EnqueueDedup, At, Early
  <2> QED
    BY <2>1 DEF Once, EarlyInv, In, Blank
<1>4. CASE EnqueueUndo(p)
  <2>1. /\ task[p].pc \in Void /\ Goto(p, "scrub") /\ "scrub" \in Void
        /\ UNCHANGED <<inbox, pending, pendingTtl, index, enqueued, recalled>>
        /\ meta' = [meta EXCEPT ![e] = 0]
    BY <1>4 DEF EnqueueUndo, At, Void, history
  <2>2. Moves(p, e) /\ Sends(p, e)'
    BY <2>1, <1>g DEF Moves, Sends, In
  <2>3. NoRows(e)'
    BY <2>1 DEF Once, VoidInv, In, NoRows
  <2>4. \A q \in Tasks : ~In(q, e, Late)
    BY <2>1, LabelSets DEF Once, OneSender, Sends, In
  <2>5. meta'[e] = 0
    BY <2>1, <1>e DEF TypeOK
  <2>6. MetaGoes(e) /\ PendingGoes(e)
    BY <2>1, <2>3, <2>4, <2>5, <1>n DEF MetaGoes, PendingGoes
  <2> QED
    BY <2>1, <2>2, <2>3, <2>6, <1>m, <1>n, <1>q DEF Fades, KeysGo, RowsGo
<1>5. CASE EnqueueScrub(p)
  <2>1. Still /\ task[p].pc \in Void /\ Finish(p)
    BY <1>5 DEF EnqueueScrub, At, Void, redisVars, history
  <2>2. Moves(p, e) /\ NoRows(e)
    BY <2>1, <1>f DEF Moves, Once, VoidInv, In
  <2> QED
    BY <1>k, <2>1, <2>2
<1>6. CASE GroupAllRemote(p) \/ GroupExpired(p)
  <2>1. Still /\ task[p].pc \in Early /\ Finish(p)
    BY <1>6 DEF GroupAllRemote, GroupExpired, At, Early, redisVars, history
  <2>2. Moves(p, e) /\ NoRows(e)
    BY <2>1, <1>f DEF Moves, Once, EarlyInv, Blank, In
  <2> QED
    BY <1>k, <2>1, <2>2
<1>7. CASE AckMark(p)
  <2>1. Still /\ task[p].pc = "mark" /\ Goto(p, "release")
    BY <1>7 DEF AckMark, At, history
  <2>2. Moves(p, e) /\ ~Sends(p, e)
    BY <2>1, <1>g DEF Moves, Sends, In, Early, Late, Void
  <2> QED
    BY <1>k, <2>1, <2>2
<1>8. CASE AckUnlink(p)
  <2>1. Still /\ task[p].pc = "unlink" /\ Finish(p)
    BY <1>8 DEF AckUnlink, At, redisVars, history
  <2>2. Moves(p, e) /\ ~Sends(p, e)
    BY <2>1, <1>f DEF Moves, Sends, In, Early, Late, Void
  <2> QED
    BY <1>k, <2>1, <2>2
<1>9. CASE AckRelease(p)
  <2>1. /\ task[p].pc = "release" /\ LuaAck(e, task[p].u)
        /\ UNCHANGED <<inbox, index, enqueued, recalled>>
    BY <1>9 DEF AckRelease, At, history
  <2>2. ~Sends(p, e) /\ RowsGo(e) /\ inbox[task[p].u][e] = 0
    BY <2>1 DEF Sends, In, Early, Late, Void, RowsGo, Once, AckInv
  <2>3. \A q \in Tasks : Sends(q, e) => Sends(q, e)'
    BY <2>2, <1>q DEF Sends, In
  <2>4. pending'[e] = pending[e] \ {task[p].u}
    BY <2>1, <1>e DEF LuaAck, TypeOK
  <2>5. CASE ~IsLastAck(e, task[p].u)
    <3>1. UNCHANGED <<meta, pendingTtl>> /\ Finish(p)
      BY <1>9, <2>1, <2>5 DEF LuaAck, AckRelease
    <3>2. Moves(p, e)
      BY <3>1, <1>f DEF Moves
    <3>3. MetaGoes(e) /\ PendingGoes(e)
      BY <2>1, <2>2, <2>4, <3>1 DEF MetaGoes, PendingGoes
    <3> QED
      BY <2>1, <2>2, <2>3, <3>2, <3>3, <1>m, <1>q DEF Fades, KeysGo
  <2>6. CASE IsLastAck(e, task[p].u)
    <3>1. Goto(p, "unlink") /\ pending[e] # {} /\ pending'[e] = {}
      BY <1>9, <2>4, <2>6 DEF AckRelease, IsLastAck
    <3>2. NoRows(e)
      <4>1. \A v \in Users : inbox[v][e] # 0 => v \in pending[e]
        BY <3>1 DEF Once, PendingInv
      <4>2. \A v \in Users : inbox[v][e] # 0 => v = task[p].u
        BY <4>1, <2>4, <3>1
      <4> QED
        BY <4>2, <2>2 DEF NoRows
    <3>3. NoRows(e)' /\ NoLive(e)'
      BY <3>2, <2>1, <1>n DEF NoRows
    <3>4. NoSender(e)
      <4>1. \A q \in Tasks : ~In(q, e, Early)
        BY <3>1 DEF Once, EarlyInv, Blank, Untracked
      <4>2. \A q \in Tasks : ~In(q, e, Void)
        BY <3>1 DEF Once, VoidInv, Untracked
      <4>3. \A q \in Tasks : ~In(q, e, Late)
        BY <3>1 DEF Once, LateInv, Untracked
      <4> QED
        BY <4>1, <4>2, <4>3 DEF NoSender, Sends, In
    <3>5. Moves(p, e)
      BY <2>1, <3>1, <3>3, <3>4, <1>g DEF Moves
    <3>6. meta'[e] = 0
      BY <2>1, <2>6, <1>e DEF LuaAck, TypeOK
    <3>7. MetaGoes(e) /\ PendingGoes(e)
      BY <2>1, <3>1, <3>3, <3>4, <3>6 DEF MetaGoes, PendingGoes, NoSender, Sends, In
    <3> QED
      BY <2>1, <2>2, <2>3, <3>5, <3>7, <1>m, <1>q DEF Fades, KeysGo
  <2> QED
    BY <2>5, <2>6
<1>10. CASE Recall(p)
  <2>1. /\ task[p].pc = "recall" /\ Finish(p)
        /\ UNCHANGED <<pending, pendingTtl, index, enqueued>>
        /\ meta' = [meta EXCEPT ![e] = 0]
        /\ Zrem(To[e], e)
        /\ recalled' = IF meta[e] # 0 \/ e \in enqueued
                       THEN recalled \cup {e} ELSE recalled
    BY <1>10 DEF Recall, At
  <2>2. ~Sends(p, e) /\ Moves(p, e)
    BY <2>1, <1>f DEF Sends, In, Early, Late, Void, Moves
  <2>3. \A q \in Tasks : Sends(q, e) => Sends(q, e)'
    BY <2>2, <1>q DEF Sends, In
  <2>4. RowsGo(e)
    BY <2>1, <1>e DEF Zrem, TypeOK, RowsGo
  <2>5. meta'[e] = 0
    BY <2>1, <1>e DEF TypeOK
  <2>6. MetaGoes(e)
    BY <2>1, <2>5 DEF MetaGoes, Blank
  <2>7. PendingGoes(e)
    BY <2>1 DEF PendingGoes
  <2> QED
    BY <2>1, <2>2, <2>3, <2>4, <2>6, <2>7, <1>m, <1>q DEF Fades, KeysGo
<1> QED
  BY <1>1, <1>2, <1>3, <1>4, <1>5, <1>6, <1>7, <1>8, <1>9, <1>10

(* The five steps that add something for e: the request, the metadata key,  *)
(* a row, the tracking keys, and the start of an ACK.                       *)

(* The first request for e starts its only sender.                          *)
LEMMA AcceptOnce ==
    ASSUME TypeOK, TypeOK', NEW p \in Tasks, NEW e \in Envelopes, NEW ttl,
           NEW l \in {"write", "gwrite"},
           Accept(p, e, l, ttl), Once(e), sent'[e] <= 1
    PROVE  Once(e)'
<1>1. sent[e] = 0 /\ sent'[e] = 1
  BY DEF Accept, TypeOK
<1>2. /\ Blank(e)
      /\ \A q \in Tasks : task[q].e = e => task[q].pc = "idle"
  BY <1>1 DEF Once, UnsentInv
<1>3. /\ UNCHANGED <<now, meta, inbox, pending, pendingTtl, index, enqueued, recalled>>
      /\ \A q \in Tasks \ {p} : task'[q] = task[q]
      /\ task'[p].pc = l /\ task'[p].e = e
  BY DEF Accept, redisVars, history, TypeOK, Idle
<1>4. \A q \in Tasks : task'[q].e = e => q = p \/ task'[q].pc = "idle"
  BY <1>2, <1>3
<1>5. /\ \A q \in Tasks : Sends(q, e)' => q = p
      /\ \A q \in Tasks : ~In(q, e, Late)' /\ ~In(q, e, Void)' /\ ~In(q, e, AckLabels)'
  BY <1>3, <1>4 DEF Sends, In, Early, Late, Void, AckLabels
<1>6. Blank(e)'
  BY <1>2, <1>3, <1>5 DEF Blank, NoRows, Untracked, Nobody
<1>7. NoRows(e)' /\ pending'[e] = {} /\ index'[e] = 0
  BY <1>6 DEF Blank, Untracked
<1>8. OneSender(e)' /\ UnsentInv(e)' /\ EarlyInv(e)' /\ VoidInv(e)' /\ LateInv(e)'
  BY <1>1, <1>5, <1>6 DEF OneSender, UnsentInv, EarlyInv, VoidInv, LateInv
<1>9. InsertInv(e)' /\ AckInv(e)'
  BY <1>5 DEF InsertInv, AckInv, In, Late, AckLabels
<1>10. PendingInv(e)' /\ IndexInv(e)'
  BY <1>7 DEF PendingInv, IndexInv
<1>11. \A u \in Users : ~(inbox'[u][e] > now')
  BY <1>7 DEF NoRows, TypeOK
<1>12. MetaInv(e)' /\ TrackInv(e)'
  BY <1>6, <1>7, <1>11 DEF MetaInv, TrackInv, Blank
<1> QED
  BY <1>8, <1>9, <1>10, <1>12 DEF Once

(* The metadata key is written before any row, with a time still to come.   *)
LEMMA ClaimOnce ==
    ASSUME TypeOK, TypeOK', NEW p \in Tasks, NEW e \in Envelopes, task[p].e = e,
           EnqueueClaim(p) \/ GroupMeta(p), Once(e)
    PROVE  Once(e)'
<1> DEFINE x == ExpiresAt(p)
<1>1. x \in Nat /\ x > now /\ now \in Nat
  BY ExpiresAtType DEF EnqueueClaim, GroupMeta, Expired, TypeOK
<1>2. /\ UNCHANGED <<now, inbox, pending, pendingTtl, index, enqueued, recalled, sent>>
      /\ meta' = [meta EXCEPT ![e] = x]
      /\ task[p].pc \in Early
  BY DEF EnqueueClaim, GroupMeta, history, At, Early
<1>3. /\ \A q \in Tasks \ {p} : task'[q] = task[q]
      /\ task'[p].pc \in {"insert", "ginsert"} /\ task'[p].e = e
      /\ task'[p].exp = x /\ task'[p].life = x - now
  BY DEF EnqueueClaim, GroupMeta, TypeOK, TaskType
<1> HIDE DEF x
<1>4. Blank(e) /\ sent[e] # 0 /\ meta'[e] = x
  BY <1>2 DEF Once, EarlyInv, UnsentInv, In, Early, TypeOK
<1>5. /\ \A q \in Tasks : Sends(q, e)' => q = p
      /\ \A q \in Tasks : ~In(q, e, Early)' /\ ~In(q, e, Void)' /\ ~In(q, e, AckLabels)'
  <2>1. \A q \in Tasks \ {p} : ~Sends(q, e)
    BY <1>2 DEF Once, OneSender, Sends, In
  <2>2. \A q \in Tasks \ {p} : ~Sends(q, e)' /\ ~In(q, e, AckLabels)'
    BY <2>1, <1>3, <1>4 DEF Sends, In, Blank, Nobody
  <2>3. ~In(p, e, Early)' /\ ~In(p, e, Void)' /\ ~In(p, e, AckLabels)'
    BY <1>3 DEF In, Early, Void, AckLabels
  <2> QED
    BY <2>2, <2>3 DEF Sends, In
<1>6. /\ NoRows(e)' /\ Untracked(e)' /\ e \notin recalled'
      /\ Nobody(e, AckLabels)' /\ Nobody(e, {"unlink"})'
  BY <1>2, <1>4, <1>5 DEF Blank, NoRows, Untracked, Nobody, In, AckLabels
<1>7. OneSender(e)' /\ UnsentInv(e)' /\ EarlyInv(e)' /\ VoidInv(e)'
  BY <1>2, <1>4, <1>5 DEF OneSender, UnsentInv, EarlyInv, VoidInv
<1>8. LateInv(e)'
  <2> SUFFICES ASSUME NEW q \in Tasks, In(q, e, Late)'
               PROVE  /\ Untracked(e)' /\ Nobody(e, {"unlink"})'
                      /\ task'[q].exp - task'[q].life <= now'
                      /\ \A u \in Users : inbox'[u][e] \in {0, task'[q].exp}
                      /\ task'[q].exp > now' /\ e \notin recalled' =>
                             meta'[e] = task'[q].exp
    BY DEF LateInv
  <2>1. q = p
    BY <1>5 DEF Sends, In
  <2>2. task'[q].exp - task'[q].life <= now'
    BY <2>1, <1>1, <1>2, <1>3
  <2> QED
    BY <2>1, <2>2, <1>3, <1>4, <1>6 DEF NoRows
<1>9. InsertInv(e)'
  <2>1. \A q \in Tasks : In(q, e, {"ginsert"})' => task'[q].todo \subseteq Users
    BY DEF TypeOK, TaskType
  <2>2. \A q \in Tasks : ~In(q, e, {"mark", "release"})'
    BY <1>5 DEF In, AckLabels
  <2> QED
    BY <1>6, <2>1, <2>2 DEF InsertInv, NoRows
<1>10. AckInv(e)'
  BY <1>5 DEF AckInv, In, AckLabels
<1>11. PendingInv(e)' /\ IndexInv(e)'
  BY <1>6 DEF PendingInv, IndexInv, Untracked
<1>12. \A u \in Users : ~(inbox'[u][e] > now')
  BY <1>6 DEF NoRows, TypeOK
<1>13. MetaInv(e)' /\ TrackInv(e)'
  BY <1>6, <1>12 DEF MetaInv, TrackInv
<1> QED
  BY <1>7, <1>8, <1>9, <1>10, <1>11, <1>13 DEF Once

(* The closing MULTI tracks every recipient that has a row, for as long as  *)
(* the row lives.                                                           *)
LEMMA PublishOnce ==
    ASSUME TypeOK, TypeOK', NEW p \in Tasks, NEW e \in Envelopes, task[p].e = e,
           EnqueuePublish(p) \/ GroupPublish(p), Once(e)
    PROVE  Once(e)'
<1>1. PICK us : /\ Track(p, us)
                /\ \A u \in Users : inbox[u][e] # 0 => u \in us
  <2>1. CASE EnqueuePublish(p)
    <3>1. Track(p, To[e]) /\ In(p, e, {"publish"})
      BY <2>1 DEF EnqueuePublish, At, In
    <3> QED
      BY <3>1 DEF Once, InsertInv
  <2>2. CASE GroupPublish(p)
    <3>1. Track(p, task[p].eligible) /\ In(p, e, {"ginsert", "gpublish"})
      BY <2>2 DEF GroupPublish, At, In
    <3> QED
      BY <3>1 DEF Once, InsertInv
  <2> QED
    BY <2>1, <2>2
<1>2. /\ UNCHANGED <<now, meta, inbox, enqueued, recalled, sent, crashes>>
      /\ task[p].pc \in Late /\ Finish(p)
  BY DEF EnqueuePublish, GroupPublish, history, At, Late
<1>3. /\ \A q \in Tasks \ {p} : task'[q] = task[q]
      /\ task'[p].pc = "idle"
  BY <1>2 DEF Finish, Idle, TypeOK
<1>4. /\ Untracked(e) /\ Nobody(e, {"unlink"})
      /\ task[p].exp - task[p].life <= now
      /\ \A u \in Users : inbox[u][e] \in {0, task[p].exp}
  BY <1>2 DEF Once, LateInv, In
<1>5. \A q \in Tasks : ~Sends(q, e)'
  BY <1>2, <1>3 DEF Once, OneSender, Sends, In, Early, Late, Void
<1>6. \A q \in Tasks : ~In(q, e, Early)' /\ ~In(q, e, Void)' /\ ~In(q, e, Late)'
  BY <1>5 DEF Sends, In
<1>7. /\ pending'[e] = us /\ index'[e] = task[p].exp
      /\ us # {} => pendingTtl'[e] = now + task[p].life
  BY <1>1, <1>4 DEF Track, TypeOK, Untracked
<1>8. sent'[e] # 0
  BY <1>2 DEF Once, UnsentInv, Late, TypeOK
<1>9. OneSender(e)' /\ UnsentInv(e)' /\ EarlyInv(e)' /\ VoidInv(e)' /\ LateInv(e)'
  BY <1>5, <1>6, <1>8 DEF OneSender, UnsentInv, EarlyInv, VoidInv, LateInv
<1>10. InsertInv(e)'
  BY <1>6 DEF InsertInv, In, Late
<1>11. AckInv(e)'
  <2>1. \A q \in Tasks : ~In(p, e, {"mark", "release"})' /\ ~In(p, e, {"unlink"})'
    BY <1>3 DEF In
  <2> QED
    BY <2>1, <1>2, <1>3 DEF Once, AckInv, In, NoRows
<1>12. PendingInv(e)'
  BY <1>1, <1>2, <1>7 DEF PendingInv
<1>13. MetaInv(e)'
  BY <1>2 DEF Once, MetaInv, NoRows
<1>14. TrackInv(e)' /\ IndexInv(e)'
  <2>1. task[p].exp \in Nat /\ task[p].life \in Nat /\ now \in Nat
    BY DEF TypeOK, TaskType
  <2>2. task[p].exp <= now + task[p].life
    BY <2>1, <1>4
  <2>3. ASSUME NEW u \in Users, inbox'[u][e] > now'
        PROVE  u \in pending'[e] /\ inbox'[u][e] <= pendingTtl'[e]
    <3>1. inbox[u][e] # 0 /\ inbox'[u][e] = task[p].exp
      BY <2>1, <2>3, <1>2, <1>4
    <3> QED
      BY <3>1, <2>2, <1>1, <1>7
  <2>4. \A u \in Users : inbox'[u][e] <= index'[e]
    BY <2>1, <1>2, <1>4, <1>7
  <2> QED
    BY <2>3, <2>4 DEF TrackInv, IndexInv
<1> QED
  BY <1>9, <1>10, <1>11, <1>12, <1>13, <1>14 DEF Once

(* What an insertion does to the row and to its handler, in the one and in  *)
(* the other send.                                                          *)
Inserts(p, e, u, room) ==
    /\ inbox'[u][e] = (IF room THEN task[p].exp ELSE 0)
    /\ \A v \in Users \ {u} : inbox'[v][e] = inbox[v][e]
    /\ room => e \in enqueued'
    /\ \A q \in Tasks \ {p} : task'[q] = task[q]
    /\ task'[p].e = e /\ task'[p].exp = task[p].exp /\ task'[p].life = task[p].life
InsertsOne(p, e, u, room) ==
    /\ In(p, e, {"insert"}) /\ u \in To[e]
    /\ task'[p].pc = (IF room THEN "publish" ELSE "undo")
InsertsMany(p, e, u, room) ==
    /\ In(p, e, {"ginsert"}) /\ u \in task[p].todo
    /\ task'[p].pc \in {"ginsert", "gpublish"}
    /\ task'[p].todo = task[p].todo \ {u}
    /\ task'[p].eligible = (IF room THEN task[p].eligible \cup {u}
                                    ELSE task[p].eligible)

(* Every insertion is one of the two.                                       *)
LEMMA InsertsWhat ==
    ASSUME TypeOK, NEW p \in Tasks, NEW e \in Envelopes, task[p].e = e,
           EnqueueInsert(p) \/ GroupInsert(p), Once(e)
    PROVE  \E u \in Users, room \in BOOLEAN :
             /\ Inserts(p, e, u, room)
             /\ InsertsOne(p, e, u, room) \/ InsertsMany(p, e, u, room)
<1> DEFINE t == task[p].exp - task[p].life
<1>t. /\ task \in [Tasks -> TaskType] /\ task[p] \in TaskType /\ t \in Int
      /\ task[p].exp \in Nat
  BY DEF TypeOK, TaskType
<1> HIDE DEF t
<1>1. ASSUME NEW u \in Users, inbox[u][e] = 0, LuaInsert(u, e, task[p].exp, t),
             NEW room \in BOOLEAN, room = HasRoom(u, t)
      PROVE  /\ inbox'[u][e] = (IF room THEN task[p].exp ELSE 0)
             /\ \A v \in Users \ {u} : inbox'[v][e] = inbox[v][e]
             /\ room => e \in enqueued'
  <2>1. Pruned(u, t)[e] = 0 /\ Pruned(u, t) \in [Envelopes -> Nat]
    BY <1>1, <1>t, PrunedType DEF Pruned
  <2> QED
    BY <1>1, <2>1 DEF LuaInsert, TypeOK
<1>b. \A u : HasRoom(u, t) \in BOOLEAN
  BY DEF HasRoom
<1>2. CASE EnqueueInsert(p)
  <2>1. PICK u \in To[e] :
          /\ LuaInsert(u, e, task[p].exp, t)
          /\ Goto(p, IF HasRoom(u, t) THEN "publish" ELSE "undo")
    BY <1>2 DEF EnqueueInsert, t
  <2>2. In(p, e, {"insert"}) /\ u \in Users
    BY <1>2, AddressAssumption DEF EnqueueInsert, At, In
  <2>3. inbox[u][e] = 0
    BY <2>2 DEF Once, InsertInv, NoRows
  <2>4. /\ inbox'[u][e] = (IF HasRoom(u, t) THEN task[p].exp ELSE 0)
        /\ \A v \in Users \ {u} : inbox'[v][e] = inbox[v][e]
        /\ HasRoom(u, t) => e \in enqueued'
    BY <1>1, <1>b, <2>1, <2>2, <2>3
  <2>5. /\ \A q \in Tasks \ {p} : task'[q] = task[q]
        /\ task'[p].e = e /\ task'[p].exp = task[p].exp /\ task'[p].life = task[p].life
        /\ task'[p].pc = (IF HasRoom(u, t) THEN "publish" ELSE "undo")
    BY <2>1, <1>t DEF Goto, TaskType
  <2>6. Inserts(p, e, u, HasRoom(u, t)) /\ InsertsOne(p, e, u, HasRoom(u, t))
    BY <2>2, <2>4, <2>5, <2>1 DEF Inserts, InsertsOne
  <2> QED
    BY <2>2, <2>6, <1>b
<1>3. CASE GroupInsert(p)
  <2>1. PICK u \in task[p].todo :
          /\ LuaInsert(u, e, task[p].exp, t)
          /\ task' = [task EXCEPT ![p] = AfterInsert(p, u, HasRoom(u, t))]
    BY <1>3 DEF GroupInsert, t
  <2>2. In(p, e, {"ginsert"}) /\ u \in Users
    BY <1>3, <1>t DEF GroupInsert, At, In, TaskType
  <2>3. inbox[u][e] = 0
    BY <2>1, <2>2 DEF Once, InsertInv
  <2>4. /\ inbox'[u][e] = (IF HasRoom(u, t) THEN task[p].exp ELSE 0)
        /\ \A v \in Users \ {u} : inbox'[v][e] = inbox[v][e]
        /\ HasRoom(u, t) => e \in enqueued'
    BY <1>1, <1>b, <2>1, <2>2, <2>3
  <2>5. /\ \A q \in Tasks \ {p} : task'[q] = task[q]
        /\ task'[p] = AfterInsert(p, u, HasRoom(u, t))
    BY <2>1, <1>t
  <2>6. /\ task'[p].e = e /\ task'[p].exp = task[p].exp /\ task'[p].life = task[p].life
        /\ task'[p].pc \in {"ginsert", "gpublish"}
        /\ task'[p].todo = task[p].todo \ {u}
        /\ task'[p].eligible = (IF HasRoom(u, t) THEN task[p].eligible \cup {u}
                                                 ELSE task[p].eligible)
    BY <2>5, <1>t DEF AfterInsert, TaskType
  <2>7. Inserts(p, e, u, HasRoom(u, t)) /\ InsertsMany(p, e, u, HasRoom(u, t))
    BY <2>1, <2>2, <2>4, <2>5, <2>6 DEF Inserts, InsertsMany
  <2> QED
    BY <2>2, <2>7, <1>b
<1> QED
  BY <1>2, <1>3

(* A row is written with the time of the metadata, for a recipient nobody   *)
(* has acknowledged for, and before anybody can be the last to acknowledge. *)
LEMMA InsertOnce ==
    ASSUME TypeOK, TypeOK', NEW p \in Tasks, NEW e \in Envelopes, task[p].e = e,
           EnqueueInsert(p) \/ GroupInsert(p), Once(e)
    PROVE  Once(e)'
<1>1. PICK u \in Users, room \in BOOLEAN :
             /\ Inserts(p, e, u, room)
             /\ InsertsOne(p, e, u, room) \/ InsertsMany(p, e, u, room)
  BY InsertsWhat
<1>2. /\ inbox'[u][e] = (IF room THEN task[p].exp ELSE 0)
      /\ \A v \in Users \ {u} : inbox'[v][e] = inbox[v][e]
      /\ room => e \in enqueued'
      /\ \A q \in Tasks \ {p} : task'[q] = task[q]
      /\ task'[p].e = e /\ task'[p].exp = task[p].exp /\ task'[p].life = task[p].life
  BY <1>1 DEF Inserts
<1>3. UNCHANGED <<now, meta, pending, pendingTtl, index, recalled, sent, crashes>>
  BY DEF EnqueueInsert, GroupInsert
<1>4. /\ In(p, e, Late) /\ Sends(p, e) /\ Sends(p, e)'
      /\ task'[p].pc \notin AckLabels
  BY <1>1, <1>2 DEF InsertsOne, InsertsMany, In, Sends, Late, Void, AckLabels
<1>5. /\ Untracked(e) /\ Nobody(e, {"unlink"})
      /\ task[p].exp - task[p].life <= now
      /\ \A v \in Users : inbox[v][e] \in {0, task[p].exp}
      /\ task[p].exp > now /\ e \notin recalled => meta[e] = task[p].exp
  BY <1>4 DEF Once, LateInv
<1>6. \A q \in Tasks : Sends(q, e)' => q = p
  BY <1>2, <1>4 DEF Once, OneSender, Sends, In
<1>7. sent'[e] # 0 /\ ~In(p, e, Early)'
  BY <1>1, <1>3 DEF Once, UnsentInv, InsertsOne, InsertsMany, In, Early
<1>8. Untracked(e)' /\ Nobody(e, {"unlink"})'
  BY <1>2, <1>3, <1>4, <1>5 DEF Untracked, Nobody, In, AckLabels
<1>9. \A v \in Users : inbox'[v][e] \in {0, task'[p].exp}
  BY <1>2, <1>5
<1>10. OneSender(e)' /\ UnsentInv(e)' /\ EarlyInv(e)'
  BY <1>6, <1>7 DEF OneSender, UnsentInv, EarlyInv, Sends, In
<1>11. VoidInv(e)'
  <2> SUFFICES ASSUME NEW q \in Tasks, In(q, e, Void)'
               PROVE  NoRows(e)' /\ Untracked(e)' /\ Nobody(e, AckLabels)'
    BY DEF VoidInv
  <2>1. q = p
    BY <1>6 DEF Sends, In
  <2>2. InsertsOne(p, e, u, room) /\ ~room
    BY <1>1, <2>1 DEF InsertsOne, InsertsMany, In, Void
  <2>3. NoRows(e) /\ Nobody(e, AckLabels)
    BY <2>2 DEF InsertsOne, Once, InsertInv
  <2>4. NoRows(e)'
    BY <2>2, <2>3, <1>2 DEF NoRows
  <2>5. Nobody(e, AckLabels)'
    BY <2>3, <1>2, <1>4 DEF Nobody, In
  <2> QED
    BY <2>4, <2>5, <1>8
<1>12. LateInv(e)'
  <2> SUFFICES ASSUME NEW q \in Tasks, In(q, e, Late)'
               PROVE  /\ Untracked(e)' /\ Nobody(e, {"unlink"})'
                      /\ task'[q].exp - task'[q].life <= now'
                      /\ \A v \in Users : inbox'[v][e] \in {0, task'[q].exp}
                      /\ task'[q].exp > now' /\ e \notin recalled' =>
                             meta'[e] = task'[q].exp
    BY DEF LateInv
  <2>1. q = p
    BY <1>6 DEF Sends, In
  <2> QED
    BY <2>1, <1>2, <1>3, <1>5, <1>8, <1>9
<1>13. InsertInv(e)'
  <2> SUFFICES ASSUME NEW q \in Tasks
               PROVE  /\ In(q, e, {"insert"})' => NoRows(e)' /\ Nobody(e, AckLabels)'
                      /\ In(q, e, {"ginsert"})' =>
                           \A v \in task'[q].todo :
                              /\ inbox'[v][e] = 0
                              /\ \A r \in Tasks : In(r, e, {"mark", "release"})' =>
                                                      task'[r].u # v
                      /\ In(q, e, {"publish"})' =>
                           \A v \in Users : inbox'[v][e] # 0 => v \in To[e]
                      /\ In(q, e, {"ginsert", "gpublish"})' =>
                           \A v \in Users : inbox'[v][e] # 0 => v \in task'[q].eligible
    BY DEF InsertInv
  <2>1. CASE q # p
    <3>1. ~Sends(q, e)'
      BY <2>1, <1>6
    <3> QED
      BY <3>1 DEF Sends, In, Late
  <2>2. CASE q = p /\ InsertsOne(p, e, u, room)
    <3>1. NoRows(e)
      BY <2>2 DEF InsertsOne, Once, InsertInv
    <3>2. \A v \in Users : inbox'[v][e] # 0 => v \in To[e]
      BY <2>2, <3>1, <1>2 DEF NoRows, InsertsOne
    <3> QED
      BY <2>2, <3>2 DEF InsertsOne, In
  <2>3. CASE q = p /\ InsertsMany(p, e, u, room)
    <3>1. /\ \A v \in task[p].todo :
               /\ inbox[v][e] = 0
               /\ \A r \in Tasks : In(r, e, {"mark", "release"}) => task[r].u # v
          /\ \A v \in Users : inbox[v][e] # 0 => v \in task[p].eligible
      BY <2>3 DEF InsertsMany, Once, InsertInv, In
    <3>2. task[p].todo \subseteq Users /\ task'[p].todo = task[p].todo \ {u}
      BY <2>3 DEF InsertsMany, TypeOK, TaskType
    <3>3. \A r \in Tasks : In(r, e, {"mark", "release"})' =>
              In(r, e, {"mark", "release"}) /\ task'[r] = task[r]
      BY <1>2, <1>4 DEF In, AckLabels
    <3>4. \A v \in Users : inbox'[v][e] # 0 => v \in task'[p].eligible
      BY <3>1, <2>3, <1>2 DEF InsertsMany
    <3>5. \A v \in task'[p].todo :
               /\ inbox'[v][e] = 0
               /\ \A r \in Tasks : In(r, e, {"mark", "release"})' => task'[r].u # v
      BY <3>1, <3>2, <3>3, <1>2
    <3>6. task'[q].pc \in {"ginsert", "gpublish"}
      BY <2>3 DEF InsertsMany
    <3> QED
      BY <2>3, <3>4, <3>5, <3>6 DEF In
  <2> QED
    BY <2>1, <2>2, <2>3, <1>1
<1>14. AckInv(e)'
  <2> SUFFICES ASSUME NEW q \in Tasks
               PROVE  /\ In(q, e, {"mark", "release"})' => inbox'[task'[q].u][e] = 0
                      /\ In(q, e, {"unlink"})' => NoRows(e)'
    BY DEF AckInv
  <2>1. ASSUME In(q, e, {"mark", "release"})' PROVE inbox'[task'[q].u][e] = 0
    <3>1. In(q, e, {"mark", "release"}) /\ task'[q] = task[q]
      BY <2>1, <1>2, <1>4 DEF In, AckLabels
    <3>2. inbox[task[q].u][e] = 0 /\ task[q].u \in Users
      BY <3>1 DEF Once, AckInv, TypeOK, TaskType
    <3>3. task[q].u # u
      <4>1. CASE InsertsOne(p, e, u, room)
        BY <4>1, <3>1 DEF InsertsOne, Once, InsertInv, Nobody, In, AckLabels
      <4>2. CASE InsertsMany(p, e, u, room)
        BY <4>2, <3>1 DEF InsertsMany, Once, InsertInv
      <4> QED
        BY <4>1, <4>2, <1>1
    <3> QED
      BY <3>1, <3>2, <3>3, <1>2
  <2>2. ~In(q, e, {"unlink"})'
    BY <1>8 DEF Nobody
  <2> QED
    BY <2>1, <2>2
<1>15. PendingInv(e)' /\ IndexInv(e)'
  BY <1>8 DEF PendingInv, IndexInv, Untracked
<1>16. MetaInv(e)'
  <2>1. e \in recalled' => meta'[e] = 0
    BY <1>3 DEF Once, MetaInv
  <2>2. ASSUME e \notin recalled', NEW v \in Users, inbox'[v][e] > now'
        PROVE  meta'[e] = inbox'[v][e]
    <3>1. inbox'[v][e] # 0 /\ inbox'[v][e] = task[p].exp
      BY <2>2, <1>2, <1>9 DEF TypeOK
    <3> QED
      BY <3>1, <2>2, <1>3, <1>5
  <2>3. ASSUME e \notin enqueued' PROVE NoRows(e)'
    <3>1. ~room
      BY <2>3, <1>2
    <3>2. e \notin enqueued
      BY <2>3 DEF EnqueueInsert, GroupInsert, LuaInsert
    <3> QED
      BY <3>1, <3>2, <1>2 DEF Once, MetaInv, NoRows
  <2> QED
    BY <2>1, <2>2, <2>3 DEF MetaInv
<1>17. TrackInv(e)'
  BY <1>4 DEF TrackInv
<1> QED
  BY <1>10, <1>11, <1>12, <1>13, <1>14, <1>15, <1>16, <1>17 DEF Once

(* An ACK starts by taking the row of its recipient.                        *)
LEMMA AckOnce ==
    ASSUME TypeOK, TypeOK', NEW p \in Tasks, NEW e \in Envelopes, NEW u \in Users,
           AckStart(p, u, e), Once(e)
    PROVE  Once(e)'
<1>1. /\ UNCHANGED <<now, meta, pending, pendingTtl, index, recalled, enqueued, sent,
                     crashes>>
      /\ inbox[u][e] # 0 /\ task[p].pc = "idle"
  BY DEF AckStart, history, At
<1>2. /\ inbox'[u][e] = 0
      /\ \A v \in Users \ {u} : inbox'[v][e] = inbox[v][e]
  BY DEF AckStart, Zrem, TypeOK
<1>3. /\ \A q \in Tasks \ {p} : task'[q] = task[q]
      /\ task'[p].e = e /\ task'[p].pc = "mark" /\ task'[p].u = u
  BY DEF AckStart, Idle, TypeOK
<1>4. \A q \in Tasks : ~In(q, e, Early)' /\ ~In(q, e, Void)' /\ ~In(q, e, {"insert"})'
  <2>1. ~NoRows(e)
    BY <1>1 DEF NoRows
  <2>2. \A q \in Tasks : ~In(q, e, Early) /\ ~In(q, e, Void) /\ ~In(q, e, {"insert"})
    BY <2>1 DEF Once, EarlyInv, VoidInv, InsertInv, Blank
  <2> QED
    BY <2>2, <1>3 DEF In, Early, Void
<1>5. \A q \in Tasks : Sends(q, e)' = Sends(q, e)
  BY <1>1, <1>3 DEF Sends, In, Early, Late, Void
<1>6. \A q \in Tasks : \A L \in SUBSET Late :
          In(q, e, L)' => In(q, e, L) /\ task'[q] = task[q] /\ q # p
  BY <1>3 DEF In, Late
<1>7. \A v \in Users : inbox'[v][e] # 0 => inbox[v][e] # 0 /\ inbox'[v][e] = inbox[v][e]
  BY <1>2
<1>8. sent'[e] # 0
  BY <1>1 DEF Once, UnsentInv, Blank, NoRows
<1>9. OneSender(e)' /\ UnsentInv(e)' /\ EarlyInv(e)' /\ VoidInv(e)'
  BY <1>4, <1>5, <1>8 DEF Once, OneSender, UnsentInv, EarlyInv, VoidInv
<1>10. LateInv(e)'
  <2> SUFFICES ASSUME NEW q \in Tasks, In(q, e, Late)'
               PROVE  /\ Untracked(e)' /\ Nobody(e, {"unlink"})'
                      /\ task'[q].exp - task'[q].life <= now'
                      /\ \A v \in Users : inbox'[v][e] \in {0, task'[q].exp}
                      /\ task'[q].exp > now' /\ e \notin recalled' =>
                             meta'[e] = task'[q].exp
    BY DEF LateInv
  <2>1. In(q, e, Late) /\ task'[q] = task[q]
    BY <1>6
  <2>2. /\ Untracked(e) /\ Nobody(e, {"unlink"})
        /\ task[q].exp - task[q].life <= now
        /\ \A v \in Users : inbox[v][e] \in {0, task[q].exp}
        /\ task[q].exp > now /\ e \notin recalled => meta[e] = task[q].exp
    BY <2>1 DEF Once, LateInv
  <2>3. Untracked(e)' /\ Nobody(e, {"unlink"})'
    BY <2>2, <1>1, <1>3 DEF Untracked, Nobody, In
  <2> QED
    BY <2>1, <2>2, <2>3, <1>1, <1>7
<1>11. InsertInv(e)'
  <2> SUFFICES ASSUME NEW q \in Tasks
               PROVE  /\ In(q, e, {"insert"})' => NoRows(e)' /\ Nobody(e, AckLabels)'
                      /\ In(q, e, {"ginsert"})' =>
                           \A v \in task'[q].todo :
                              /\ inbox'[v][e] = 0
                              /\ \A r \in Tasks : In(r, e, {"mark", "release"})' =>
                                                      task'[r].u # v
                      /\ In(q, e, {"publish"})' =>
                           \A v \in Users : inbox'[v][e] # 0 => v \in To[e]
                      /\ In(q, e, {"ginsert", "gpublish"})' =>
                           \A v \in Users : inbox'[v][e] # 0 => v \in task'[q].eligible
    BY DEF InsertInv
  <2>1. /\ {"ginsert"} \in SUBSET Late /\ {"publish"} \in SUBSET Late
        /\ {"ginsert", "gpublish"} \in SUBSET Late
    BY DEF Late
  <2>2. ASSUME In(q, e, {"ginsert"})', NEW v \in task'[q].todo
        PROVE  /\ inbox'[v][e] = 0
               /\ \A r \in Tasks : In(r, e, {"mark", "release"})' => task'[r].u # v
    <3>1. In(q, e, {"ginsert"}) /\ task'[q] = task[q] /\ v \in Users
      BY <2>1, <2>2, <1>6 DEF TypeOK, TaskType
    <3>2. /\ inbox[v][e] = 0
          /\ \A r \in Tasks : In(r, e, {"mark", "release"}) => task[r].u # v
      BY <3>1, <2>2 DEF Once, InsertInv
    <3> QED
      BY <3>1, <3>2, <1>1, <1>2, <1>3 DEF In
  <2>3. In(q, e, {"publish"})' => \A v \in Users : inbox'[v][e] # 0 => v \in To[e]
    BY <2>1, <1>6, <1>7 DEF Once, InsertInv
  <2>4. In(q, e, {"ginsert", "gpublish"})' =>
            \A v \in Users : inbox'[v][e] # 0 => v \in task'[q].eligible
    BY <2>1, <1>6, <1>7 DEF Once, InsertInv
  <2> QED
    BY <2>2, <2>3, <2>4, <1>4
<1>12. AckInv(e)'
  <2> SUFFICES ASSUME NEW q \in Tasks
               PROVE  /\ In(q, e, {"mark", "release"})' => inbox'[task'[q].u][e] = 0
                      /\ In(q, e, {"unlink"})' => NoRows(e)'
    BY DEF AckInv
  <2>1. CASE q = p
    BY <2>1, <1>2, <1>3 DEF In
  <2>2. CASE q # p
    <3>1. task'[q] = task[q] /\ task[q].u \in Users
      BY <2>2, <1>3 DEF TypeOK, TaskType
    <3>2. /\ In(q, e, {"mark", "release"}) => inbox[task[q].u][e] = 0
          /\ In(q, e, {"unlink"}) => NoRows(e)
      BY DEF Once, AckInv
    <3> QED
      BY <3>1, <3>2, <1>7 DEF In, NoRows
  <2> QED
    BY <2>1, <2>2
<1>13. PendingInv(e)'
  BY <1>1, <1>7 DEF Once, PendingInv
<1>14. MetaInv(e)'
  <2>1. MetaInv(e)
    BY DEF Once
  <2>2. NoRows(e) => NoRows(e)'
    BY <1>2 DEF NoRows
  <2>3. \A v \in Users : inbox'[v][e] > now' =>
            inbox'[v][e] = inbox[v][e] /\ inbox[v][e] > now
    BY <1>1, <1>2 DEF TypeOK
  <2> QED
    BY <2>1, <2>2, <2>3, <1>1 DEF MetaInv
<1>15. TrackInv(e)'
  <2> SUFFICES ASSUME crashes' = 0, \A q \in Tasks : ~Sends(q, e)', NEW v \in Users,
                      inbox'[v][e] > now'
               PROVE  v \in pending'[e] /\ inbox'[v][e] <= pendingTtl'[e]
    BY DEF TrackInv
  <2>1. crashes = 0 /\ \A q \in Tasks : ~Sends(q, e)
    BY <1>1, <1>5
  <2>2. inbox'[v][e] = inbox[v][e] /\ inbox[v][e] > now
    BY <1>1, <1>2 DEF TypeOK
  <2>3. v \in pending[e] /\ inbox[v][e] <= pendingTtl[e]
    BY <2>1, <2>2 DEF Once, TrackInv
  <2> QED
    BY <2>2, <2>3, <1>1
<1>16. IndexInv(e)'
  <2> SUFFICES ASSUME index'[e] # 0, NEW v \in Users
               PROVE  inbox'[v][e] <= index'[e]
    BY DEF IndexInv
  <2>1. inbox[v][e] <= index[e]
    BY <1>1 DEF Once, IndexInv
  <2>2. inbox'[v][e] = inbox[v][e] \/ inbox'[v][e] = 0
    BY <1>2
  <2> QED
    BY <2>1, <2>2, <1>1 DEF TypeOK
<1> QED
  BY <1>9, <1>10, <1>11, <1>12, <1>13, <1>14, <1>15, <1>16 DEF Once

(* The reaper, list_inbox, Redis and the clock only take away.              *)
LEMMA EnvironmentFades ==
    ASSUME TypeOK, TypeOK', NEW e \in Envelopes, Once(e),
           \/ \E u \in Users : ListInbox(u)
           \/ Reap \/ ReapCrash \/ Redis \/ Tick
    PROVE  Fades(e)
<1>1. /\ task' = task /\ UNCHANGED <<sent, enqueued, recalled>> /\ now <= now'
      /\ crashes' = 0 => crashes = 0
  <2>1. now \in Nat /\ crashes \in Nat
    BY DEF TypeOK
  <2>2. /\ task' = task /\ UNCHANGED <<sent, enqueued, recalled>>
        /\ now' = now \/ now' = now + 1
        /\ crashes' = crashes \/ crashes' = crashes + 1
    <3>1. CASE Reap
      BY <3>1 DEF Reap, ReapStart, ReapCheck, ScanCheck, Examine, ReapUnlink,
         ReapDrop, ReapNext, history
    <3>2. CASE Redis
      BY <3>2 DEF Redis, ExpireMeta, ExpirePending, ExpireInbox, history
    <3>3. CASE (\E u \in Users : ListInbox(u)) \/ ReapCrash \/ Tick
      BY <3>3 DEF ListInbox, ReapCrash, Tick, history
    <3> QED
      BY <3>1, <3>2, <3>3
  <2> QED
    BY <2>1, <2>2
<1>2. \A p \in Tasks : Moves(p, e) /\ (Sends(p, e) => Sends(p, e)')
  BY <1>1 DEF Moves, Sends, In
<1>3. CASE \E u \in Users : ListInbox(u) \/ ExpireInbox(u)
  <2>1. PICK u \in Users : ListInbox(u) \/ ExpireInbox(u)
    BY <1>3
  <2>2. Rest(e)
    BY <2>1 DEF ListInbox, ExpireInbox, Rest, history
  <2>3. RowsGo(e)
    BY <2>1 DEF ListInbox, ExpireInbox, Pruned, RowsGo, TypeOK
  <2> QED
    BY <1>1, <1>2, <2>2, <2>3, QuietFades
<1>4. CASE Reap \/ ReapCrash \/ Tick
  <2>1. UNCHANGED <<inbox, meta, pending, pendingTtl>>
    BY <1>4 DEF Reap, ReapStart, ReapCheck, ScanCheck, Examine, ReapUnlink, ReapDrop,
       ReapNext, ReapCrash, Tick, redisVars
  <2>2. index'[e] = index[e] \/ index'[e] = 0
    BY <1>4 DEF Reap, ReapStart, ReapCheck, ScanCheck, Examine, ReapUnlink, ReapDrop,
       ReapNext, ReapCrash, Tick, redisVars, TypeOK
  <2>3. KeysGo(e)
    BY <1>1, <2>1, <2>2 DEF KeysGo, MetaGoes, PendingGoes
  <2> QED
    BY <1>1, <1>2, <2>1, <2>3 DEF Fades, RowsGo
<1>5. CASE \E d \in Envelopes : ExpireMeta(d)
  <2>1. PICK d \in Envelopes : ExpireMeta(d)
    BY <1>5
  <2>2. /\ UNCHANGED <<now, inbox, pending, pendingTtl, index>>
        /\ meta[d] # 0 /\ meta[d] <= now /\ meta' = [meta EXCEPT ![d] = 0]
    BY <2>1 DEF ExpireMeta
  <2>3. MetaGoes(e)
    <3>1. CASE e # d
      BY <3>1, <1>1, <2>2 DEF MetaGoes, TypeOK
    <3>2. CASE e = d
      <4>1. meta'[e] = 0 /\ e \notin recalled /\ now \in Nat /\ meta[e] \in Nat
        BY <3>2, <2>2 DEF Once, MetaInv, TypeOK
      <4>2. \A u \in Users : inbox[u][e] \in Nat
        BY DEF TypeOK
      <4>3. \A u \in Users : ~(inbox[u][e] > now)
        BY <3>2, <2>2, <4>1, <4>2 DEF Once, MetaInv
      <4>4. NoLive(e)'
        BY <2>2, <4>1, <4>2, <4>3 DEF NoLive
      <4>5. \A p \in Tasks : task[p].exp \in Nat
        BY DEF TypeOK, TaskType
      <4>6. \A p \in Tasks : In(p, e, Late) => task[p].exp <= now
        BY <3>2, <2>2, <4>1, <4>5 DEF Once, LateInv
      <4> QED
        BY <1>1, <4>1, <4>4, <4>6 DEF MetaGoes
    <3> QED
      BY <3>1, <3>2
  <2> QED
    BY <1>1, <1>2, <2>2, <2>3 DEF Fades, RowsGo, KeysGo, PendingGoes
<1>6. CASE \E d \in Envelopes : ExpirePending(d)
  <2>1. PICK d \in Envelopes : ExpirePending(d)
    BY <1>6
  <2>2. /\ UNCHANGED <<now, inbox, meta, index, crashes>>
        /\ pendingTtl[d] # 0 /\ pendingTtl[d] <= now
        /\ pending' = [pending EXCEPT ![d] = {}]
        /\ pendingTtl' = [pendingTtl EXCEPT ![d] = 0]
    BY <2>1 DEF ExpirePending
  <2>3. PendingGoes(e)
    <3>1. CASE e # d
      BY <3>1, <2>2 DEF PendingGoes, TypeOK
    <3>2. CASE e = d
      <4>1. pending'[e] = {}
        BY <3>2, <2>2 DEF TypeOK
      <4>2. ASSUME crashes' = 0, NoSender(e)' PROVE NoLive(e)'
        <5>1. crashes = 0 /\ \A p \in Tasks : ~Sends(p, e)
          BY <4>2, <1>1, <1>2, <2>2 DEF NoSender
        <5>2. \A u \in Users : inbox[u][e] > now => inbox[u][e] <= pendingTtl[e]
          BY <5>1 DEF Once, TrackInv
        <5>3. /\ now \in Nat /\ pendingTtl[e] \in Nat
              /\ \A u \in Users : inbox[u][e] \in Nat
          BY DEF TypeOK
        <5> QED
          BY <3>2, <2>2, <5>2, <5>3 DEF NoLive
      <4> QED
        BY <4>1, <4>2 DEF PendingGoes
    <3> QED
      BY <3>1, <3>2
  <2> QED
    BY <1>1, <1>2, <2>2, <2>3 DEF Fades, RowsGo, KeysGo, MetaGoes
<1> QED
  BY <1>3, <1>4, <1>5, <1>6 DEF Redis

(* A request is about one envelope; it fades the others.                    *)
LEMMA RequestOnce ==
    ASSUME TypeOK, TypeOK', NEW p \in Tasks, Request(p), NEW e \in Envelopes,
           Once(e), sent'[e] <= 1
    PROVE  Once(e)'
<1>1. PICK d \in Envelopes :
        \/ SendDuplicate(p, d)
        \/ \E ttl \in Ttls, l \in {"write", "gwrite"} : Accept(p, d, l, ttl)
        \/ \E u \in Users : AckStart(p, u, d)
        \/ Authorised(p, d)
  BY DEF Request, SendDirect, SendSealed, SendGroup, RecallDirect, RecallSealed,
     RecallGroup
<1>2. CASE d = e /\ \E ttl \in Ttls, l \in {"write", "gwrite"} : Accept(p, d, l, ttl)
  BY <1>2, AcceptOnce
<1>3. CASE d = e /\ \E u \in Users : AckStart(p, u, d)
  BY <1>3, AckOnce
<1>4. CASE d = e /\ SendDuplicate(p, d)
  <2>1. sent[e] = 0 /\ meta[e] # 0
    BY <1>4 DEF SendDuplicate, TypeOK
  <2> QED
    BY <2>1 DEF Once, UnsentInv, Blank
<1>5. CASE d # e \/ Authorised(p, d)
  <2>1. /\ UNCHANGED <<now, meta, index, pending, pendingTtl, recalled, enqueued, crashes>>
        /\ task[p].pc = "idle"
    BY <1>1 DEF SendDuplicate, Accept, AckStart, Authorised, At, redisVars, history
  <2>2. sent'[e] = sent[e]
    BY <1>1, <1>5 DEF SendDuplicate, Accept, AckStart, Authorised, TypeOK
  <2>3. RowsGo(e)
    <3>1. UNCHANGED inbox \/ (d # e /\ \E u \in Users : Zrem({u}, d))
      BY <1>1, <1>5 DEF SendDuplicate, Accept, AckStart, Authorised, redisVars
    <3> QED
      BY <3>1 DEF RowsGo, Zrem, TypeOK
  <2>4. /\ \A q \in Tasks \ {p} : task'[q] = task[q]
        /\ \/ task'[p] = task[p]
           \/ task'[p].e = d /\ d # e
           \/ task'[p].pc = "recall" /\ task'[p].e = d /\ sent[d] # 0
    <3>1. CASE SendDuplicate(p, d)
      BY <3>1 DEF SendDuplicate
    <3>2. CASE \E ttl \in Ttls, l \in {"write", "gwrite"} : Accept(p, d, l, ttl)
      <4>1. d # e
        BY <1>5, <3>2 DEF Accept, Authorised, TypeOK
      <4> QED
        BY <4>1, <3>2 DEF Accept, Idle, TypeOK
    <3>3. CASE \E u \in Users : AckStart(p, u, d)
      <4>1. CASE d # e
        BY <4>1, <3>3 DEF AckStart, Idle, TypeOK
      <4>2. CASE Authorised(p, d)
        BY <4>2 DEF Authorised, Idle, TypeOK
      <4> QED
        BY <4>1, <4>2, <1>5
    <3>4. CASE Authorised(p, d)
      BY <3>4 DEF Authorised, Idle, TypeOK
    <3> QED
      BY <1>1, <3>1, <3>2, <3>3, <3>4
  <2>5. \A q \in Tasks : Moves(q, e) /\ (Sends(q, e) => Sends(q, e)')
    BY <2>1, <2>4 DEF Moves, Sends, In, Early, Late, Void
  <2>6. Rest(e)
    BY <2>1, <2>2 DEF Rest
  <2>7. now <= now'
    BY <2>1 DEF TypeOK
  <2>8. Fades(e)
    BY <2>1, <2>3, <2>5, <2>6, <2>7, QuietFades
  <2> QED
    BY <2>8, OnceFades
<1> QED
  BY <1>1, <1>2, <1>3, <1>4, <1>5

(* A crash of a handler takes it away.                                      *)
LEMMA CrashFades ==
    ASSUME TypeOK, NEW p \in Tasks, Crash(p), NEW e \in Envelopes
    PROVE  Fades(e)
<1>1. /\ UNCHANGED <<now, meta, inbox, index, pending, pendingTtl, recalled, enqueued, sent>>
      /\ crashes' # 0 /\ now <= now'
  BY DEF Crash, redisVars, history, TypeOK
<1>2. /\ \A q \in Tasks \ {p} : task'[q] = task[q]
      /\ task'[p].pc = "idle"
  BY DEF Crash, Finish, Idle, TypeOK
<1>3. \A q \in Tasks : Moves(q, e)
  BY <1>2 DEF Moves
<1> QED
  BY <1>1, <1>3, QuietFades DEF Rest, RowsGo

(* Faults and requests are only ever counted up.                            *)
LEMMA CountsGrow ==
    ASSUME TypeOK, [Next]_vars
    PROVE  /\ faults' = 0 => faults = 0
           /\ \A e \in Envelopes : sent'[e] <= 1 => sent[e] <= 1
<1>1. faults \in Nat /\ \A e \in Envelopes : sent[e] \in Nat
  BY DEF TypeOK
<1>2. ASSUME NEW p \in Tasks, Step(p) PROVE UNCHANGED <<faults, sent>>
  BY <1>2, StepFrame
<1>3. ASSUME NEW p \in Tasks, Request(p)
      PROVE  /\ faults' = faults
             /\ \A e \in Envelopes : sent'[e] = sent[e] \/ sent'[e] = sent[e] + 1
  <2>1. PICK d \in Envelopes :
          \/ SendDuplicate(p, d)
          \/ \E ttl \in Ttls, l \in {"write", "gwrite"} : Accept(p, d, l, ttl)
          \/ \E u \in Users : AckStart(p, u, d)
          \/ Authorised(p, d)
    BY <1>3 DEF Request, SendDirect, SendSealed, SendGroup, RecallDirect,
       RecallSealed, RecallGroup
  <2>2. /\ faults' = faults
        /\ sent' = sent \/ sent' = [sent EXCEPT ![d] = @ + 1]
    BY <2>1 DEF SendDuplicate, Accept, AckStart, Authorised
  <2> QED
    BY <2>2 DEF TypeOK
<1>4. ASSUME NEW p \in Tasks, Failure(p)
      PROVE  sent' = sent /\ (faults' = faults \/ faults' = faults + 1)
  BY <1>4 DEF Failure, CallFails, Crash, InsertReplyLost, ClaimReplyLost,
     ReleaseReplyLost, BatchReplyLost
<1>5. ASSUME \/ \E u \in Users : ListInbox(u)
             \/ Reap \/ ReapFails \/ ReapCrash
             \/ Redis \/ Tick
      PROVE  sent' = sent /\ (faults' = faults \/ faults' = faults + 1)
  BY <1>5 DEF ListInbox, Reap, ReapStart, ReapCheck, ScanCheck, Examine, ReapUnlink,
     ReapDrop, ReapNext, ReapFails, ReapCrash, Redis, ExpireMeta, ExpirePending,
     ExpireInbox, Tick
<1>6. ASSUME UNCHANGED vars PROVE UNCHANGED <<faults, sent>>
  BY <1>6 DEF vars
<1>7. /\ \A e \in Envelopes : sent'[e] = sent[e] \/ sent'[e] = sent[e] + 1
      /\ faults' = faults \/ faults' = faults + 1
  BY <1>2, <1>3, <1>4, <1>5, <1>6 DEF Next
<1> QED
  BY <1>1, <1>7

(* No call failed in this step: no handler fails open, no reply is lost.    *)
LEMMA OnceStep ==
    TypeOK /\ TypeOK' /\ LabelInv /\ OnceInv /\ [Next]_vars => OnceInv'
<1> SUFFICES ASSUME TypeOK, TypeOK', LabelInv, OnceInv, [Next]_vars, faults' = 0,
                    NEW e \in Envelopes, sent'[e] <= 1
             PROVE  Once(e)'
  BY DEF OnceInv
<1>1. faults = 0 /\ Once(e)
  BY CountsGrow DEF OnceInv
<1>2. ASSUME NEW p \in Tasks, Step(p) PROVE Once(e)'
  <2>1. CASE task[p].e # e
    BY <1>1, <1>2, <2>1, ForeignFades, OnceFades
  <2>2. CASE task[p].e = e
    <3>1. ~GroupFailOpen(p)
      BY <1>1 DEF LabelInv, GroupFailOpen, At
    <3>2. CASE \/ WriteBlob(p) \/ EnqueueExpired(p) \/ EnqueueDedup(p) \/ EnqueueUndo(p)
               \/ EnqueueScrub(p) \/ GroupAllRemote(p) \/ GroupExpired(p)
               \/ AckMark(p) \/ AckRelease(p) \/ AckUnlink(p) \/ Recall(p)
      BY <1>1, <2>2, <3>2, OwnFades, OnceFades
    <3>3. CASE EnqueueClaim(p) \/ GroupMeta(p)
      BY <1>1, <2>2, <3>3, ClaimOnce
    <3>4. CASE EnqueueInsert(p) \/ GroupInsert(p)
      BY <1>1, <2>2, <3>4, InsertOnce
    <3>5. CASE EnqueuePublish(p) \/ GroupPublish(p)
      BY <1>1, <2>2, <3>5, PublishOnce
    <3> QED
      BY <1>2, <3>1, <3>2, <3>3, <3>4, <3>5 DEF Step
  <2> QED
    BY <2>1, <2>2
<1>3. ASSUME NEW p \in Tasks, Request(p) PROVE Once(e)'
  BY <1>1, <1>3, RequestOnce
<1>4. ASSUME NEW p \in Tasks, Failure(p) PROVE Once(e)'
  <2>1. Crash(p)
    BY <1>1, <1>4 DEF Failure, CallFails, InsertReplyLost, ClaimReplyLost,
       ReleaseReplyLost, BatchReplyLost
  <2> QED
    BY <1>1, <2>1, CrashFades, OnceFades
<1>5. ASSUME \/ \E u \in Users : ListInbox(u)
             \/ Reap \/ ReapFails \/ ReapCrash
             \/ Redis \/ Tick
      PROVE  Once(e)'
  <2>1. ~ReapFails
    BY <1>1 DEF ReapFails
  <2> QED
    BY <1>1, <1>5, <2>1, EnvironmentFades, OnceFades
<1>6. CASE UNCHANGED vars
  <2>1. \A p \in Tasks : Moves(p, e) /\ (Sends(p, e) => Sends(p, e)')
    BY <1>6 DEF vars, Moves, Sends, In
  <2>2. Rest(e) /\ RowsGo(e) /\ now <= now' /\ crashes' = crashes
    BY <1>6 DEF vars, redisVars, history, Rest, RowsGo, TypeOK
  <2> QED
    BY <1>1, <2>1, <2>2, QuietFades, OnceFades
<1> QED
  BY <1>2, <1>3, <1>4, <1>5, <1>6 DEF Next

(* Without a fault every envelope sent at most once is in order.            *)
LEMMA OnceHolds == Spec => [](TypeOK /\ LabelInv /\ OnceInv)
<1>1. Init => OnceInv
  <2> SUFFICES ASSUME Init PROVE OnceInv
    OBVIOUS
  <2>1. \A p \in Tasks : task[p].pc = "idle"
    BY DEF Init, Idle
  <2>2. ASSUME NEW e \in Envelopes PROVE Once(e)
    <3>1. \A p \in Tasks : /\ ~In(p, e, Early) /\ ~In(p, e, Late) /\ ~In(p, e, Void)
                           /\ ~In(p, e, AckLabels) /\ ~Sends(p, e)
      BY <2>1, LabelSets DEF In, Sends
    <3>2. NoRows(e) /\ Untracked(e) /\ meta[e] = 0 /\ e \notin recalled /\ e \notin enqueued
      BY DEF Init, NoRows, Untracked
    <3>3. Blank(e)
      BY <3>1, <3>2 DEF Blank, Nobody
    <3>4. OneSender(e) /\ UnsentInv(e) /\ EarlyInv(e) /\ VoidInv(e) /\ LateInv(e)
      BY <2>1, <3>1, <3>3 DEF OneSender, UnsentInv, EarlyInv, VoidInv, LateInv
    <3>5. InsertInv(e) /\ AckInv(e)
      BY <2>1 DEF InsertInv, AckInv, In
    <3>6. PendingInv(e) /\ IndexInv(e)
      BY <3>2 DEF PendingInv, IndexInv, Untracked
    <3>7. \A u \in Users : ~(inbox[u][e] > now)
      BY DEF Init
    <3>8. MetaInv(e) /\ TrackInv(e)
      BY <3>2, <3>7 DEF MetaInv, TrackInv
    <3> QED
      BY <3>4, <3>5, <3>6, <3>8 DEF Once
  <2> QED
    BY <2>2 DEF OnceInv
<1>2. TypeOK /\ TypeOK' /\ LabelInv /\ OnceInv /\ [Next]_vars => OnceInv'
  BY OnceStep
<1> QED
  BY <1>1, <1>2, TypeCorrect, CapAlways, PTL DEF Spec

(* A delete by the sender or the group admin is final, for an envelope sent *)
(* once and while Redis answers: neither the send nor an ACK still running  *)
(* beside it brings the metadata back (queue.py, delete_envelope_completely). *)
THEOREM RecallIsFinalHolds == Spec => []RecallIsFinal
<1>1. TypeOK /\ OnceInv => RecallIsFinal
  BY DEF TypeOK, OnceInv, Once, MetaInv, RecallIsFinal, Listed
<1> QED
  BY <1>1, OnceHolds, PTL

(* When the one send of an envelope has ended without fault or crash, every *)
(* recipient who can list it is in the pending set, which lives as long as  *)
(* the row: the last ACK and no earlier one deletes the envelope (queue.py, *)
(* _ACK_PENDING_LUA).                                                       *)
THEOREM WaitingIsTrackedHolds == Spec => []WaitingIsTracked
<1>1. TypeOK /\ OnceInv => WaitingIsTracked
  <2> SUFFICES ASSUME TypeOK, OnceInv, faults + crashes = 0, NEW u \in Users,
                      NEW e \in Envelopes, sent[e] <= 1, Listed(u, e), ~Sending(e)
               PROVE  u \in pending[e]
    BY DEF WaitingIsTracked
  <2>1. faults \in Nat /\ crashes \in Nat
    BY DEF TypeOK
  <2>2. faults = 0 /\ crashes = 0
    BY <2>1
  <2>3. \A p \in Tasks : ~Sends(p, e)
    BY DEF Sending, Sends, In, SendLabels, GroupLabels, Early, Late, Void
  <2> QED
    BY <2>2, <2>3 DEF OnceInv, Once, TrackInv, Listed, Live
<1> QED
  BY <1>1, OnceHolds, PTL

----------------------------------------------------------------------------
(* The blob of a queued envelope.                                           *)

(* The labels at which a send has written its blob and counts on it.        *)
Holding == {"claim", "gmeta"} \cup Late

(* The reaper's pass has picked e, or is deleting its file or index entry.  *)
Reaping(e) == e \in reaper.todo \/ (reaper.pc \in {"unlink", "drop"} /\ reaper.e = e)

(* The blob is there while a send goes on or a row is live, and the indexed *)
(* reaper only picks what nobody sends and nobody can list any more.        *)
Kept(e) == /\ \A p \in Tasks : In(p, e, Holding) => e \in blobs
           /\ \A u \in Users : inbox[u][e] > now => e \in blobs
           /\ Reaping(e) => sent[e] # 0 /\ NoSender(e) /\ NoLive(e)
KeptInv == ~FullScan /\ faults = 0 =>
    reaper.mode = "indexed" /\ \A e \in Envelopes : sent[e] <= 1 => Kept(e)

(* A step that takes no blob, and starts no send behind the reaper's back.  *)
LEMMA KeptQuiet ==
    ASSUME TypeOK, TypeOK', NEW e \in Envelopes, Kept(e), now <= now',
           sent[e] <= sent'[e], e \in blobs => e \in blobs',
           RowsGo(e) \/ (e \in blobs' /\ ~Reaping(e)'),
           \A p \in Tasks : In(p, e, Holding)' => In(p, e, Holding) \/ e \in blobs',
           Reaping(e)' => Reaping(e),
           Reaping(e) => \A p \in Tasks : Sends(p, e)' => Sends(p, e)
    PROVE  Kept(e)'
<1>n. /\ now \in Nat /\ now' \in Nat /\ sent[e] \in Nat /\ sent'[e] \in Nat
      /\ \A u \in Users : inbox[u][e] \in Nat /\ inbox'[u][e] \in Nat
  BY DEF TypeOK
<1>1. \A p \in Tasks : In(p, e, Holding)' => e \in blobs'
  BY DEF Kept
<1>2. ASSUME NEW u \in Users, inbox'[u][e] > now' PROVE e \in blobs'
  <2>1. CASE e \in blobs'
    BY <2>1
  <2>2. CASE RowsGo(e)
    <3>1. inbox'[u][e] = inbox[u][e] /\ inbox[u][e] > now
      BY <1>2, <2>2, <1>n DEF RowsGo
    <3> QED
      BY <3>1 DEF Kept
  <2> QED
    BY <2>1, <2>2
<1>3. ASSUME Reaping(e)' PROVE sent'[e] # 0 /\ NoSender(e)' /\ NoLive(e)'
  <2>1. Reaping(e) /\ RowsGo(e) /\ sent[e] # 0 /\ NoSender(e) /\ NoLive(e)
    BY <1>3 DEF Kept
  <2>2. sent'[e] # 0
    BY <2>1, <1>n
  <2>3. NoSender(e)'
    BY <2>1 DEF NoSender
  <2>4. NoLive(e)'
    BY <2>1, <1>n DEF NoLive, RowsGo
  <2> QED
    BY <2>2, <2>3, <2>4
<1> QED
  BY <1>1, <1>2, <1>3 DEF Kept

(* Where a step of a handler takes it, and which blob goes.                 *)
LEMMA StepBlobs ==
    ASSUME TypeOK, NEW p \in Tasks, Step(p), ~GroupFailOpen(p)
    PROVE  /\ reaper' = reaper
           /\ task'[p].pc \in Holding => task[p].pc \in Holding \/ task[p].e \in blobs'
           /\ task'[p].pc \in Early \cup Late \cup Void =>
                  task[p].pc \in Early \cup Late \cup Void
           /\ \A e \in blobs : \/ e \in blobs'
                               \/ e = task[p].e /\ (EnqueueScrub(p) \/ AckUnlink(p))
<1> USE DEF Holding, Early, Late, Void
<1>e. task \in [Tasks -> TaskType] /\ task[p] \in TaskType
  BY DEF TypeOK
<1>g. \A l : Goto(p, l) => task'[p].pc = l
  BY <1>e DEF Goto, TaskType
<1>f. Finish(p) => task'[p].pc = "idle"
  BY <1>e DEF Finish, Idle
<1>1. CASE WriteBlob(p)
  BY <1>1, <1>g DEF WriteBlob
<1>2. CASE EnqueueExpired(p) \/ EnqueueUndo(p)
  BY <1>2, <1>g DEF EnqueueExpired, EnqueueUndo, At
<1>3. CASE \/ EnqueueDedup(p) \/ EnqueuePublish(p) \/ GroupAllRemote(p)
           \/ GroupExpired(p) \/ GroupPublish(p) \/ Recall(p)
  <2>1. Finish(p) /\ UNCHANGED <<blobs, reaper>>
    BY <1>3 DEF EnqueueDedup, EnqueuePublish, GroupAllRemote, GroupExpired,
       GroupPublish, Recall
  <2> QED
    BY <2>1, <1>f
<1>4. CASE EnqueueScrub(p) \/ AckUnlink(p)
  <2>1. Finish(p) /\ UNCHANGED reaper /\ blobs' = blobs \ {task[p].e}
    BY <1>4 DEF EnqueueScrub, AckUnlink
  <2> QED
    BY <2>1, <1>4, <1>f
<1>5. CASE EnqueueClaim(p) \/ GroupMeta(p)
  <2>1. UNCHANGED <<blobs, reaper>> /\ task[p].pc \in {"claim", "gmeta"}
    BY <1>5 DEF EnqueueClaim, GroupMeta, At
  <2> QED
    BY <2>1
<1>6. CASE EnqueueInsert(p) \/ GroupInsert(p)
  <2>1. UNCHANGED <<blobs, reaper>> /\ task[p].pc \in {"insert", "ginsert"}
    BY <1>6 DEF EnqueueInsert, GroupInsert, At
  <2> QED
    BY <2>1
<1>7. CASE AckMark(p) \/ AckRelease(p)
  <2>1. /\ UNCHANGED <<blobs, reaper>>
        /\ Goto(p, "release") \/ Goto(p, "unlink") \/ Finish(p)
    BY <1>7 DEF AckMark, AckRelease
  <2> QED
    BY <2>1, <1>f, <1>g
<1> QED
  BY <1>1, <1>2, <1>3, <1>4, <1>5, <1>6, <1>7 DEF Step

(* Nobody who deletes a blob does so while it is wanted.                    *)
LEMMA KeptTaken ==
    ASSUME TypeOK, TypeOK', NEW p \in Tasks, NEW e \in Envelopes, task[p].e = e,
           EnqueueScrub(p) \/ AckUnlink(p), Once(e), Kept(e)
    PROVE  Kept(e)'
<1>1. /\ UNCHANGED <<inbox, now, reaper, sent>> /\ Finish(p)
      /\ In(p, e, Void) \/ In(p, e, {"unlink"})
  BY DEF EnqueueScrub, AckUnlink, redisVars, At, In, Void
<1>2. /\ \A q \in Tasks \ {p} : task'[q] = task[q]
      /\ task'[p].pc = "idle"
  BY <1>1 DEF Finish, Idle, TypeOK
<1>3. NoRows(e) /\ \A q \in Tasks \ {p} : ~Sends(q, e)
  <2>1. CASE In(p, e, Void)
    BY <2>1 DEF Once, VoidInv, OneSender, Sends, In
  <2>2. CASE In(p, e, {"unlink"})
    <3>1. ~Nobody(e, AckLabels) /\ ~Nobody(e, {"unlink"})
      BY <2>2 DEF Nobody, In, AckLabels
    <3>2. \A q \in Tasks : ~In(q, e, Early) /\ ~In(q, e, Late) /\ ~In(q, e, Void)
      BY <3>1 DEF Once, EarlyInv, LateInv, VoidInv, Blank
    <3> QED
      BY <2>2, <3>2 DEF Once, AckInv, Sends, In
  <2> QED
    BY <1>1, <2>1, <2>2
<1>4. NoSender(e)'
  BY <1>2, <1>3 DEF NoSender, Sends, In, Early, Late, Void
<1>5. \A q \in Tasks : ~In(q, e, Holding)'
  BY <1>4 DEF NoSender, Sends, In, Holding, Early
<1>6. \A u \in Users : ~(inbox'[u][e] > now') /\ inbox'[u][e] <= now'
  BY <1>1, <1>3 DEF NoRows, TypeOK
<1>7. Reaping(e)' => sent'[e] # 0
  BY <1>1 DEF Reaping, Kept
<1> QED
  BY <1>4, <1>5, <1>6, <1>7 DEF Kept, NoLive

(* A row is inserted while its blob is held and the reaper keeps away.      *)
LEMMA KeptInserted ==
    ASSUME TypeOK, TypeOK', NEW p \in Tasks, Step(p), NEW e \in Envelopes,
           task[p].e = e, task[p].pc \in {"insert", "ginsert"}, Kept(e)
    PROVE  e \in blobs' /\ ~Reaping(e)'
<1>1. EnqueueInsert(p) \/ GroupInsert(p)
  BY DEF Step, WriteBlob, EnqueueExpired, EnqueueDedup, EnqueueClaim, EnqueueUndo,
     EnqueueScrub, EnqueuePublish, GroupAllRemote, GroupExpired, GroupMeta,
     GroupFailOpen, GroupPublish, AckMark, AckRelease, AckUnlink, Recall, At
<1>2. UNCHANGED <<blobs, reaper>>
  BY <1>1 DEF EnqueueInsert, GroupInsert
<1>3. In(p, e, Holding) /\ Sends(p, e)
  BY DEF In, Sends, Holding, Late
<1> QED
  BY <1>2, <1>3 DEF Kept, NoSender, Reaping

(* A step of a handler keeps the blobs that are wanted.                     *)
LEMMA StepKept ==
    ASSUME TypeOK, TypeOK', NEW p \in Tasks, Step(p), ~GroupFailOpen(p),
           NEW e \in Envelopes, Once(e), Kept(e)
    PROVE  Kept(e)'
<1>1. /\ \A q \in Tasks \ {p} : task'[q] = task[q]
      /\ task'[p].pc = "idle" \/ task'[p].e = task[p].e
      /\ UNCHANGED <<now, sent>>
      /\ task[p].e # e => RowsGo(e)
  BY StepFrame
<1>2. /\ reaper' = reaper
      /\ task'[p].pc \in Holding => task[p].pc \in Holding \/ task[p].e \in blobs'
      /\ task'[p].pc \in Early \cup Late \cup Void =>
             task[p].pc \in Early \cup Late \cup Void
      /\ \A d \in blobs : \/ d \in blobs'
                          \/ d = task[p].e /\ (EnqueueScrub(p) \/ AckUnlink(p))
  BY StepBlobs
<1>3. CASE task[p].e = e /\ (EnqueueScrub(p) \/ AckUnlink(p))
  BY <1>3, KeptTaken
<1>4. CASE ~(task[p].e = e /\ (EnqueueScrub(p) \/ AckUnlink(p)))
  <2>1. e \in blobs => e \in blobs'
    BY <1>2, <1>4
  <2>2. now <= now' /\ sent[e] <= sent'[e]
    BY <1>1 DEF TypeOK
  <2>3. Reaping(e)' => Reaping(e)
    BY <1>2 DEF Reaping
  <2>4. "idle" \notin Holding /\ "idle" \notin Early \cup Late \cup Void
    BY DEF Holding, Early, Late, Void
  <2>5. \A q \in Tasks : In(q, e, Holding)' => In(q, e, Holding) \/ e \in blobs'
    BY <1>1, <1>2, <2>4 DEF In
  <2>6. \A q \in Tasks : Sends(q, e)' => Sends(q, e)
    BY <1>1, <1>2, <2>4 DEF Sends, In
  <2>7. RowsGo(e) \/ (e \in blobs' /\ ~Reaping(e)')
    <3>1. CASE task[p].e # e
      BY <1>1, <3>1
    <3>2. CASE task[p].e = e /\ task[p].pc \in {"insert", "ginsert"}
      BY <3>2, KeptInserted
    <3>3. CASE UNCHANGED inbox
      BY <3>3 DEF RowsGo
    <3>4. CASE task[p].e = e /\ Recall(p)
      <4>1. Zrem(To[e], e)
        BY <3>4 DEF Recall
      <4> QED
        BY <4>1 DEF Zrem, RowsGo, TypeOK
    <3> QED
      BY <3>1, <3>2, <3>3, <3>4 DEF Step, WriteBlob, EnqueueExpired, EnqueueDedup,
         EnqueueClaim, EnqueueInsert, EnqueueUndo, EnqueueScrub, EnqueuePublish,
         GroupAllRemote, GroupExpired, GroupMeta, GroupInsert, GroupPublish,
         AckMark, AckRelease, AckUnlink, redisVars, At
  <2> QED
    BY <2>1, <2>2, <2>3, <2>5, <2>6, <2>7, KeptQuiet
<1> QED
  BY <1>3, <1>4

(* A request or a crash of a handler keeps them.                            *)
LEMMA RequestKept ==
    ASSUME TypeOK, TypeOK', NEW p \in Tasks, Request(p) \/ Crash(p),
           NEW e \in Envelopes, Kept(e), sent'[e] <= 1
    PROVE  Kept(e)'
<1>0. CASE Crash(p)
  <2>1. UNCHANGED <<now, sent, blobs, inbox, reaper>> /\ Finish(p)
    BY <1>0 DEF Crash, redisVars
  <2>2. /\ \A q \in Tasks \ {p} : task'[q] = task[q]
        /\ task'[p].pc = "idle"
    BY <2>1 DEF Finish, Idle, TypeOK
  <2>3. \A q \in Tasks : /\ In(q, e, Holding)' => In(q, e, Holding)
                         /\ Sends(q, e)' => Sends(q, e)
    BY <2>2 DEF In, Sends, Holding, Early, Late, Void
  <2>4. now <= now' /\ sent[e] <= sent'[e]
    BY <2>1 DEF TypeOK
  <2> QED
    BY <2>1, <2>3, <2>4, KeptQuiet DEF RowsGo, Reaping
<1>1. CASE Request(p)
  <2>1. PICK d \in Envelopes :
          \/ SendDuplicate(p, d)
          \/ \E ttl \in Ttls, l \in {"write", "gwrite"} : Accept(p, d, l, ttl)
          \/ \E u \in Users : AckStart(p, u, d)
          \/ Authorised(p, d)
    BY <1>1 DEF Request, SendDirect, SendSealed, SendGroup, RecallDirect,
       RecallSealed, RecallGroup
  <2>2. UNCHANGED <<now, blobs, reaper>>
    BY <2>1 DEF SendDuplicate, Accept, AckStart, Authorised
  <2>3. sent' = sent \/ sent' = [sent EXCEPT ![d] = @ + 1]
    BY <2>1 DEF SendDuplicate, Accept, AckStart, Authorised
  <2>4. now <= now' /\ sent[e] <= sent'[e]
    <3>1. sent[e] \in Nat /\ now \in Nat
      BY DEF TypeOK
    <3>2. sent'[e] = sent[e] \/ sent'[e] = sent[e] + 1
      BY <2>3 DEF TypeOK
    <3> QED
      BY <3>1, <3>2, <2>2
  <2>5. RowsGo(e)
    <3>1. UNCHANGED inbox \/ \E u \in Users : Zrem({u}, d)
      BY <2>1 DEF SendDuplicate, Accept, AckStart, Authorised, redisVars
    <3> QED
      BY <3>1 DEF RowsGo, Zrem, TypeOK
  <2>6. /\ \A q \in Tasks \ {p} : task'[q] = task[q]
        /\ \/ task'[p] = task[p]
           \/ task'[p].pc \in {"mark", "recall"}
           \/ task'[p].pc \in {"write", "gwrite"} /\ task'[p].e = d /\ sent'[d] = sent[d] + 1
    <3>1. CASE \E ttl \in Ttls, l \in {"write", "gwrite"} : Accept(p, d, l, ttl)
      <4>1. sent'[d] = sent[d] + 1
        BY <3>1 DEF Accept, TypeOK
      <4>2. /\ \A q \in Tasks \ {p} : task'[q] = task[q]
            /\ task'[p].pc \in {"write", "gwrite"} /\ task'[p].e = d
        BY <3>1 DEF Accept, Idle, TypeOK
      <4> QED
        BY <4>1, <4>2
    <3>2. CASE SendDuplicate(p, d)
      BY <3>2 DEF SendDuplicate
    <3>3. CASE \E u \in Users : AckStart(p, u, d)
      BY <3>3 DEF AckStart, Idle, TypeOK
    <3>4. CASE Authorised(p, d)
      BY <3>4 DEF Authorised, Idle, TypeOK
    <3> QED
      BY <2>1, <3>1, <3>2, <3>3, <3>4
  <2>7. \A q \in Tasks : In(q, e, Holding)' => In(q, e, Holding)
    BY <2>6 DEF In, Holding, Late
  <2>8. ASSUME Reaping(e), NEW q \in Tasks, Sends(q, e)' PROVE Sends(q, e)
    <3>1. sent[e] # 0 /\ sent[e] \in Nat
      BY <2>8 DEF Kept, TypeOK
    <3>2. sent'[e] # sent[e] + 1
      BY <3>1
    <3> QED
      BY <2>6, <2>8, <3>2 DEF Sends, In, Early, Late, Void
  <2> QED
    BY <2>2, <2>4, <2>5, <2>7, <2>8, KeptQuiet DEF Reaping
<1> QED
  BY <1>0, <1>1

(* The reaper with the full scan off, list_inbox, Redis and the clock keep  *)
(* them: an entry of the index is due only when no row is live.             *)
LEMMA EnvironmentKept ==
    ASSUME TypeOK, TypeOK', ~FullScan, reaper.mode = "indexed",
           \/ \E u \in Users : ListInbox(u)
           \/ Reap \/ ReapCrash \/ Redis \/ Tick
    PROVE  /\ reaper'.mode = "indexed"
           /\ \A e \in Envelopes : Once(e) /\ Kept(e) => Kept(e)'
<1>t. reaper \in ReaperType /\ now \in Nat
  BY DEF TypeOK
<1>q. ASSUME NEW e \in Envelopes, Kept(e), UNCHANGED <<sent, task>>, now <= now',
             e \in blobs => e \in blobs', RowsGo(e), Reaping(e)' => Reaping(e)
      PROVE  Kept(e)'
  <2>1. \A p \in Tasks : /\ In(p, e, Holding)' => In(p, e, Holding)
                         /\ Sends(p, e)' => Sends(p, e)
    BY <1>q DEF In, Sends
  <2>2. sent[e] <= sent'[e]
    BY <1>q DEF TypeOK
  <2> QED
    BY <1>q, <2>1, <2>2, KeptQuiet
<1>1. CASE Redis \/ Tick \/ \E u \in Users : ListInbox(u)
  <2>1. /\ UNCHANGED <<sent, task, reaper, blobs>>
        /\ now' = now \/ now' = now + 1
    <3>1. CASE Redis
      BY <3>1 DEF Redis, ExpireMeta, ExpirePending, ExpireInbox
    <3>2. CASE Tick \/ \E u \in Users : ListInbox(u)
      BY <3>2 DEF ListInbox, Tick
    <3> QED
      BY <1>1, <3>1, <3>2
  <2>2. now <= now'
    BY <2>1, <1>t
  <2>3. ASSUME NEW e \in Envelopes PROVE RowsGo(e)
    <3>1. CASE UNCHANGED inbox
      BY <3>1 DEF RowsGo
    <3>2. CASE \E u \in Users : ListInbox(u) \/ ExpireInbox(u)
      BY <3>2 DEF ListInbox, ExpireInbox, Pruned, RowsGo, TypeOK
    <3> QED
      BY <1>1, <3>1, <3>2 DEF Redis, ExpireMeta, ExpirePending, Tick, redisVars
  <2> QED
    BY <2>1, <2>2, <2>3, <1>q DEF Reaping
<1>2. CASE ReapStart
  <2> DEFINE due == {e \in Envelopes : index[e] # 0 /\ index[e] <= now}
  <2>1. /\ reaper' = [reaper EXCEPT !.pc = "check", !.mode = "indexed", !.todo = due]
        /\ UNCHANGED <<now, blobs, inbox, index, task, sent>>
    BY <1>2 DEF ReapStart, redisVars
  <2>2. reaper'.mode = "indexed" /\ reaper'.pc = "check" /\ reaper'.todo = due
    BY <2>1, <1>t DEF ReaperType
  <2>3. ASSUME NEW e \in Envelopes, Once(e), Kept(e) PROVE Kept(e)'
    <3>1. ASSUME Reaping(e)' PROVE sent'[e] # 0 /\ NoSender(e)' /\ NoLive(e)'
      <4>1. index[e] # 0 /\ index[e] <= now
        BY <3>1, <2>2 DEF Reaping
      <4>2. sent'[e] # 0
        BY <2>1, <2>3, <4>1 DEF Once, UnsentInv, Blank, Untracked
      <4>3. \A p \in Tasks : ~In(p, e, Early) /\ ~In(p, e, Late) /\ ~In(p, e, Void)
        BY <2>3, <4>1 DEF Once, EarlyInv, LateInv, VoidInv, Blank, Untracked
      <4>4. NoSender(e)'
        BY <2>1, <4>3 DEF NoSender, Sends, In
      <4>5. \A u \in Users : inbox[u][e] <= index[e]
        BY <2>3, <4>1 DEF Once, IndexInv
      <4>6. NoLive(e)'
        BY <2>1, <4>1, <4>5 DEF NoLive, TypeOK
      <4> QED
        BY <4>2, <4>4, <4>6
    <3>2. /\ \A p \in Tasks : In(p, e, Holding)' => e \in blobs'
          /\ \A u \in Users : inbox'[u][e] > now' => e \in blobs'
      BY <2>1, <2>3 DEF Kept, In
    <3> QED
      BY <3>1, <3>2 DEF Kept
  <2> QED
    BY <2>2, <2>3
<1>3. CASE ReapCheck \/ ScanCheck
  <2>1. PICK d \in reaper.todo : reaper' = [reaper EXCEPT
             !.e = d, !.todo = @ \ {d},
             !.pc = IF meta[d] = 0 THEN "unlink" ELSE Afterwards]
    BY <1>3 DEF ReapCheck, ScanCheck, Examine
  <2>2. UNCHANGED <<now, blobs, inbox, task, sent>>
    BY <1>3 DEF ReapCheck, ScanCheck, Examine, redisVars
  <2>3. /\ reaper'.mode = "indexed" /\ reaper'.e = d
        /\ reaper'.todo = reaper.todo \ {d}
    BY <2>1, <1>t DEF ReaperType
  <2>4. \A e \in Envelopes : Reaping(e)' => Reaping(e)
    BY <2>3 DEF Reaping
  <2> QED
    BY <2>2, <2>3, <2>4, <1>q, <1>t DEF RowsGo
<1>4. CASE ReapUnlink
  <2>1. /\ reaper.pc = "unlink" /\ blobs' = blobs \ {reaper.e}
        /\ UNCHANGED <<now, inbox, task, sent>>
        /\ reaper' = [reaper EXCEPT !.pc = Afterwards]
    BY <1>4 DEF ReapUnlink, redisVars
  <2>2. reaper'.mode = "indexed" /\ reaper'.e = reaper.e /\ reaper'.todo = reaper.todo
    BY <2>1, <1>t DEF ReaperType
  <2>3. \A e \in Envelopes : Reaping(e)' => Reaping(e)
    BY <2>1, <2>2 DEF Reaping
  <2>4. ASSUME NEW e \in Envelopes, Kept(e), e = reaper.e PROVE Kept(e)'
    <3>1. NoSender(e) /\ NoLive(e) /\ sent[e] # 0
      BY <2>1, <2>4 DEF Kept, Reaping
    <3>2. NoSender(e)' /\ NoLive(e)' /\ sent'[e] # 0
      BY <3>1, <2>1 DEF NoSender, Sends, In, NoLive
    <3>3. \A p \in Tasks : ~In(p, e, Holding)'
      BY <3>2 DEF NoSender, Sends, In, Holding, Early
    <3>4. \A u \in Users : ~(inbox'[u][e] > now')
      BY <3>2 DEF NoLive, TypeOK
    <3> QED
      BY <3>2, <3>3, <3>4 DEF Kept
  <2>5. ASSUME NEW e \in Envelopes, Kept(e), e # reaper.e PROVE Kept(e)'
    BY <2>1, <2>3, <2>5, <1>q, <1>t DEF RowsGo
  <2> QED
    BY <2>2, <2>4, <2>5
<1>5. CASE ReapDrop \/ ReapNext \/ ReapCrash
  <2>1. /\ UNCHANGED <<now, blobs, inbox, task, sent>>
        /\ reaper' = Resting \/ reaper' = [reaper EXCEPT !.pc = "check"]
    BY <1>5 DEF ReapDrop, ReapNext, ReapCrash, redisVars
  <2>2. /\ reaper'.mode = "indexed" /\ reaper'.pc \in {"idle", "check"}
        /\ reaper'.todo = {} \/ reaper'.todo = reaper.todo
    BY <2>1, <1>t DEF ReaperType, Resting
  <2>3. \A e \in Envelopes : Reaping(e)' => Reaping(e)
    BY <2>2 DEF Reaping
  <2> QED
    BY <2>1, <2>2, <2>3, <1>q, <1>t DEF RowsGo
<1> QED
  BY <1>1, <1>2, <1>3, <1>4, <1>5 DEF Reap

(* Every step keeps the blobs that are wanted.                              *)
LEMMA KeptStep ==
    TypeOK /\ TypeOK' /\ LabelInv /\ OnceInv /\ KeptInv /\ [Next]_vars => KeptInv'
<1> SUFFICES ASSUME TypeOK, TypeOK', LabelInv, OnceInv, KeptInv, [Next]_vars,
                    ~FullScan, faults' = 0
             PROVE  /\ reaper'.mode = "indexed"
                    /\ \A e \in Envelopes : sent'[e] <= 1 => Kept(e)'
  BY DEF KeptInv
<1>1. /\ faults = 0 /\ reaper.mode = "indexed"
      /\ \A e \in Envelopes : sent'[e] <= 1 => sent[e] <= 1 /\ Once(e) /\ Kept(e)
  BY CountsGrow DEF OnceInv, KeptInv
<1>2. ASSUME NEW p \in Tasks, Step(p)
      PROVE  /\ reaper'.mode = "indexed"
             /\ \A e \in Envelopes : sent'[e] <= 1 => Kept(e)'
  <2>1. ~GroupFailOpen(p)
    BY <1>1 DEF LabelInv, GroupFailOpen, At
  <2> QED
    BY <1>1, <1>2, <2>1, StepKept, StepBlobs
<1>3. ASSUME NEW p \in Tasks, Request(p) \/ Failure(p)
      PROVE  /\ reaper'.mode = "indexed"
             /\ \A e \in Envelopes : sent'[e] <= 1 => Kept(e)'
  <2>1. Request(p) \/ Crash(p)
    BY <1>1, <1>3 DEF Failure, CallFails, InsertReplyLost, ClaimReplyLost,
       ReleaseReplyLost, BatchReplyLost
  <2>2. reaper' = reaper
    BY <2>1 DEF Request, SendDuplicate, SendDirect, SendSealed, SendGroup, Accept,
       AckStart, RecallDirect, RecallSealed, RecallGroup, Authorised, Crash
  <2> QED
    BY <1>1, <2>1, <2>2, RequestKept
<1>4. ASSUME \/ \E u \in Users : ListInbox(u)
             \/ Reap \/ ReapFails \/ ReapCrash
             \/ Redis \/ Tick
      PROVE  /\ reaper'.mode = "indexed"
             /\ \A e \in Envelopes : sent'[e] <= 1 => Kept(e)'
  <2>1. ~ReapFails
    BY <1>1 DEF ReapFails
  <2> QED
    BY <1>1, <1>4, <2>1, EnvironmentKept
<1>5. CASE UNCHANGED vars
  BY <1>1, <1>5 DEF vars, redisVars, Kept, In, Reaping, NoSender, NoLive, Sends
<1> QED
  BY <1>2, <1>3, <1>4, <1>5 DEF Next

(* While Redis and the disk answer and the full scan is off, a live row of  *)
(* an envelope sent once is backed by its metadata and its blob: no ACK of  *)
(* another member, no clean-up of a refused send, no key expiry and no      *)
(* indexed reaper pass takes either from a recipient still waiting, however *)
(* handlers interleave and wherever they die (queue.py, blob_storage.py,    *)
(* scripts/reaper.py).                                                      *)
THEOREM QueuedIsDeliverableHolds == Spec => []QueuedIsDeliverable
<1>1. Init => KeptInv
  <2> SUFFICES ASSUME Init PROVE KeptInv
    OBVIOUS
  <2>1. reaper.mode = "indexed" /\ \A e \in Envelopes : ~Reaping(e)
    BY DEF Init, Resting, Reaping
  <2>2. \A e \in Envelopes, p \in Tasks : ~In(p, e, Holding)
    BY DEF Init, Idle, In, Holding, Late
  <2>3. \A e \in Envelopes, u \in Users : ~(inbox[u][e] > now)
    BY DEF Init
  <2> QED
    BY <2>1, <2>2, <2>3 DEF KeptInv, Kept
<1>2. TypeOK /\ OnceInv /\ KeptInv => QueuedIsDeliverable
  <2> SUFFICES ASSUME TypeOK, OnceInv, KeptInv, faults = 0, ~FullScan, NEW u \in Users,
                      NEW e \in Envelopes \ recalled, sent[e] <= 1, Live(u, e)
               PROVE  meta[e] # 0 /\ e \in blobs
    BY DEF QueuedIsDeliverable
  <2>1. inbox[u][e] > now /\ inbox[u][e] # 0
    BY DEF Live, TypeOK
  <2>2. e \in blobs
    BY <2>1 DEF KeptInv, Kept
  <2>3. meta[e] = inbox[u][e]
    BY <2>1 DEF OnceInv, Once, MetaInv
  <2> QED
    BY <2>1, <2>2, <2>3
<1>3. TypeOK /\ TypeOK' /\ LabelInv /\ OnceInv /\ KeptInv /\ [Next]_vars => KeptInv'
  BY KeptStep
<1> QED
  BY <1>1, <1>2, <1>3, OnceHolds, PTL DEF Spec

----------------------------------------------------------------------------
(* The blob of a listed envelope, when one call has failed.                 *)

(* The labels of a send; those at which it counts on its blob; those at     *)
(* which it writes, or has written, its rows.                               *)
Working == SendLabels \cup GroupLabels
Writing == {"gopen"} \cup Late
Relying == {"claim", "gmeta"} \cup Writing

(* What holds of e while the handler p works on it.  The clean-up of a      *)
(* refused send goes on without rows or, once they may have been written,   *)
(* without metadata: a call that fails on the way is the second fault.      *)
Stage(p, e) ==
    /\ In(p, e, Working) => Untracked(e)
    /\ In(p, e, Early) => meta[e] = 0 /\ NoRows(e)
    /\ In(p, e, Relying) => e \in blobs
    /\ In(p, e, Writing) => \A u \in Users : inbox[u][e] \in {0, task[p].exp}
    /\ In(p, e, {"insert"}) => NoRows(e)
    /\ In(p, e, {"undo"}) /\ faults = 0 => NoRows(e)
    /\ In(p, e, {"scrub"}) => meta[e] = 0 \/ NoRows(e)
    /\ In(p, e, {"unlink"}) => meta[e] = 0
Alone(e) == \A p, q \in Tasks : In(p, e, Working) =>
    /\ In(q, e, Working) => p = q
    /\ ~In(q, e, {"unlink"})
Unshown(e) == meta[e] = 0 \/ NoLive(e)
Backed(e) ==
    /\ sent[e] = 0 => /\ meta[e] = 0 /\ NoRows(e) /\ Untracked(e)
                      /\ Nobody(e, Labels \ {"idle"})
    /\ Alone(e) /\ \A p \in Tasks : Stage(p, e)
    /\ IndexInv(e)
    /\ Reaping(e) => sent[e] # 0 /\ Nobody(e, Working) /\ NoLive(e)
    /\ e \in blobs \/ Unshown(e)
BackedInv == ~FullScan /\ faults <= 1 =>
    reaper.mode = "indexed" /\ \A e \in Envelopes : sent[e] <= 1 => Backed(e)

(* Every label of a send is one of the kinds, and none of another request.  *)
LEMMA WorkingSets ==
    /\ Working = Early \cup Writing \cup Void
    /\ Early \subseteq Working /\ Relying \subseteq Working /\ Writing \subseteq Working
    /\ {"insert", "undo", "scrub"} \subseteq Working
    /\ "idle" \notin Working /\ "recall" \notin Working /\ AckLabels \cap Working = {}
    /\ Working \subseteq Labels \ {"idle"}
BY DEF Working, Early, Late, Void, Writing, Relying, SendLabels, GroupLabels,
   AckLabels, Labels

(* A step of the one send of e: it is enough to see what it leaves.         *)
LEMMA SenderBacked ==
    ASSUME TypeOK, TypeOK', NEW p \in Tasks, NEW e \in Envelopes, Backed(e),
           In(p, e, Working), UNCHANGED <<now, sent, reaper>>,
           \A q \in Tasks \ {p} : task'[q] = task[q],
           task'[p].pc = "idle" \/ (task'[p].e = e /\ task'[p].pc \in Working),
           Stage(p, e)', IndexInv(e)', e \in blobs' \/ Unshown(e)'
    PROVE  Backed(e)'
<1>1. \A q \in Tasks \ {p} : ~In(q, e, Working) /\ ~In(q, e, {"unlink"})
  BY DEF Backed, Alone
<1>2. \A q \in Tasks \ {p} : ~In(q, e, Working)' /\ ~In(q, e, {"unlink"})'
  BY <1>1 DEF In
<1>3. ~In(p, e, {"unlink"})'
  BY WorkingSets DEF In, AckLabels
<1>4. Alone(e)'
  BY <1>2, <1>3 DEF Alone
<1>5. \A q \in Tasks \ {p} : Stage(q, e)'
  BY <1>2, WorkingSets DEF Stage, In
<1>6. sent'[e] # 0
  BY WorkingSets DEF Backed, Nobody, In
<1>7. ~Reaping(e)'
  BY DEF Backed, Nobody, Reaping
<1> QED
  BY <1>4, <1>5, <1>6, <1>7 DEF Backed

(* A step that no send of e takes, and that only takes from e.              *)
LEMMA OtherBacked ==
    ASSUME TypeOK, TypeOK', NEW e \in Envelopes, Backed(e), now <= now',
           sent'[e] = sent[e], faults <= faults', RowsGo(e),
           meta'[e] = meta[e] \/ meta'[e] = 0,
           pending'[e] \subseteq pending[e],
           index'[e] = index[e] \/ index'[e] = 0,
           \A p \in Tasks : In(p, e, Working)' => task'[p] = task[p],
           \A p \in Tasks : In(p, e, {"unlink"})' =>
               In(p, e, {"unlink"}) \/ (meta'[e] = 0 /\ Nobody(e, Working)),
           sent[e] = 0 => Nobody(e, Labels \ {"idle"})',
           Reaping(e)' => Reaping(e),
           e \in blobs /\ e \notin blobs' => Nobody(e, Working) /\ Unshown(e)'
    PROVE  Backed(e)'
<1>n. /\ now \in Nat /\ now' \in Nat /\ faults \in Nat /\ faults' \in Nat
      /\ index[e] \in Nat /\ index'[e] \in Nat
      /\ \A u \in Users : inbox[u][e] \in Nat /\ inbox'[u][e] \in Nat
  BY DEF TypeOK
<1>1. NoRows(e) => NoRows(e)'
  BY DEF NoRows, RowsGo
<1>2. NoLive(e) => NoLive(e)'
  BY <1>n DEF NoLive, RowsGo
<1>3. Untracked(e) => Untracked(e)'
  BY DEF Untracked
<1>4. \A p \in Tasks : In(p, e, Working)' => In(p, e, Working) /\ task'[p] = task[p]
  BY DEF In
<1>5. Nobody(e, Working) => Nobody(e, Working)'
  BY <1>4 DEF Nobody
<1>6. sent'[e] = 0 => /\ meta'[e] = 0 /\ NoRows(e)' /\ Untracked(e)'
                      /\ Nobody(e, Labels \ {"idle"})'
  BY <1>1, <1>3 DEF Backed
<1>7. Alone(e)'
  BY <1>4 DEF Backed, Alone, Nobody
<1>8. ASSUME NEW p \in Tasks PROVE Stage(p, e)'
  <2>1. CASE In(p, e, Working)'
    <3>1. Stage(p, e) /\ task'[p] = task[p] /\ ~In(p, e, {"unlink"})' /\ ~Nobody(e, Working)
      BY <1>4, <2>1, WorkingSets DEF Backed, In, AckLabels, Nobody
    <3>2. e \in blobs => e \in blobs'
      BY <3>1
    <3>3. \A L : In(p, e, L)' <=> In(p, e, L)
      BY <3>1 DEF In
    <3>4. faults' = 0 => faults = 0
      BY <1>n
    <3> QED
      BY <3>1, <3>2, <3>3, <3>4, <1>1, <1>3 DEF Stage, RowsGo
  <2>2. CASE ~In(p, e, Working)'
    <3>1. In(p, e, {"unlink"})' => meta'[e] = 0
      BY DEF Backed, Stage
    <3> QED
      BY <2>2, <3>1, WorkingSets DEF Stage, In
  <2> QED
    BY <2>1, <2>2
<1>9. IndexInv(e)'
  BY <1>n DEF Backed, IndexInv, RowsGo
<1>10. Reaping(e)' => sent'[e] # 0 /\ Nobody(e, Working)' /\ NoLive(e)'
  BY <1>2, <1>5 DEF Backed
<1>11. e \in blobs' \/ Unshown(e)'
  BY <1>2 DEF Backed, Unshown
<1> QED
  BY <1>6, <1>7, <1>8, <1>9, <1>10, <1>11 DEF Backed

(* A send that ends: nothing is asked of its handler any more.              *)
LEMMA EndBacked ==
    ASSUME TypeOK, TypeOK', NEW p \in Tasks, NEW e \in Envelopes, Backed(e),
           In(p, e, Working), UNCHANGED <<now, sent, reaper>>, Finish(p),
           IndexInv(e)', e \in blobs' \/ Unshown(e)'
    PROVE  Backed(e)'
<1>1. /\ \A q \in Tasks \ {p} : task'[q] = task[q]
      /\ task'[p].pc = "idle"
  BY DEF Finish, Idle, TypeOK
<1>2. Stage(p, e)'
  BY <1>1, WorkingSets DEF Stage, In
<1> QED
  BY <1>1, <1>2, SenderBacked

(* The steps of a send that add nothing and take at most its metadata or    *)
(* its blob.                                                                *)
LEMMA EndingBacked ==
    ASSUME TypeOK, TypeOK', NEW p \in Tasks, NEW e \in Envelopes, task[p].e = e,
           Backed(e),
           \/ EnqueueDedup(p) \/ EnqueueScrub(p) \/ GroupAllRemote(p)
           \/ GroupExpired(p) \/ ClaimReplyLost(p)
           \/ EnqueuePublish(p) \/ GroupPublish(p)
           \/ (CallFails(p) \/ Crash(p)) /\ task[p].pc \in Working /\ Finish(p)
    PROVE  Backed(e)'
<1>t. /\ task[p].exp \in Nat /\ now \in Nat /\ inbox \in [Users -> [Envelopes -> Nat]]
  BY DEF TypeOK, TaskType
<1>1. UNCHANGED <<now, sent, reaper, inbox>> /\ Finish(p) /\ In(p, e, Working)
  BY DEF EnqueueDedup, EnqueueScrub, GroupAllRemote, GroupExpired, ClaimReplyLost,
     EnqueuePublish, GroupPublish, CallFails, Crash, redisVars, At, In, Working,
     SendLabels, GroupLabels
<1>2. NoLive(e)' <=> NoLive(e)
  BY <1>1 DEF NoLive
<1>3. Stage(p, e)
  BY DEF Backed
<1>4. CASE \/ EnqueueDedup(p) \/ EnqueueScrub(p) \/ GroupAllRemote(p) \/ GroupExpired(p)
           \/ (CallFails(p) \/ Crash(p)) /\ task[p].pc \in Working
  <2>1. UNCHANGED <<meta, index>>
    BY <1>4 DEF EnqueueDedup, EnqueueScrub, GroupAllRemote, GroupExpired, CallFails,
       Crash, redisVars
  <2>2. IndexInv(e)'
    BY <1>1, <2>1 DEF Backed, IndexInv
  <2>3. e \in blobs' \/ Unshown(e)'
    <3>1. CASE UNCHANGED blobs
      BY <1>2, <2>1, <3>1 DEF Backed, Unshown
    <3>2. CASE EnqueueScrub(p)
      <4>1. meta[e] = 0 \/ NoRows(e)
        BY <1>3, <3>2 DEF Stage, In, EnqueueScrub, At
      <4>2. NoRows(e) => NoLive(e)
        BY <1>t DEF NoRows, NoLive
      <4> QED
        BY <4>1, <4>2, <1>2, <2>1 DEF Unshown
    <3> QED
      BY <1>4, <3>1, <3>2 DEF EnqueueDedup, GroupAllRemote, GroupExpired, CallFails,
         Crash
  <2> QED
    BY <1>1, <2>2, <2>3, EndBacked
<1>5. CASE ClaimReplyLost(p)
  <2>1. UNCHANGED <<blobs, index>> /\ In(p, e, Relying)
    BY <1>5 DEF ClaimReplyLost, In, At, Relying
  <2>2. IndexInv(e)'
    BY <1>1, <2>1 DEF Backed, IndexInv
  <2> QED
    BY <1>1, <1>3, <2>1, <2>2, EndBacked DEF Stage
<1>6. CASE EnqueuePublish(p) \/ GroupPublish(p)
  <2>1. /\ UNCHANGED <<blobs, meta>> /\ index' = [index EXCEPT ![e] = task[p].exp]
        /\ In(p, e, Relying) /\ In(p, e, Writing)
    BY <1>6 DEF EnqueuePublish, GroupPublish, Track, In, At, Relying, Writing, Late
  <2>2. index'[e] = task[p].exp
    BY <2>1 DEF TypeOK
  <2>3. IndexInv(e)'
    BY <1>1, <1>3, <1>t, <2>1, <2>2 DEF Stage, IndexInv
  <2> QED
    BY <1>1, <1>3, <2>1, <2>3, EndBacked DEF Stage
<1> QED
  BY <1>4, <1>5, <1>6

(* The steps of a send towards its rows and back, which write none.         *)
LEMMA TowardsBacked ==
    ASSUME TypeOK, TypeOK', NEW p \in Tasks, NEW e \in Envelopes, task[p].e = e,
           Backed(e), faults' <= 1,
           \/ WriteBlob(p) \/ EnqueueExpired(p) \/ EnqueueUndo(p)
           \/ EnqueueClaim(p) \/ GroupMeta(p) \/ BatchReplyLost(p)
           \/ CallFails(p) /\ task[p].pc \in Working /\ ~Finish(p)
    PROVE  Backed(e)'
<1>t. /\ task \in [Tasks -> TaskType] /\ task[p] \in TaskType /\ faults \in Nat
      /\ now \in Nat /\ inbox \in [Users -> [Envelopes -> Nat]]
  BY DEF TypeOK
<1>g. \A l : Goto(p, l) => /\ \A q \in Tasks \ {p} : task'[q] = task[q]
                           /\ task'[p].e = e /\ task'[p].pc = l
                           /\ task'[p].exp = task[p].exp
  BY <1>t DEF Goto, TaskType
<1>1. /\ UNCHANGED <<now, sent, reaper, inbox, index, pending>> /\ In(p, e, Working)
      /\ e \in blobs => e \in blobs'
  BY DEF WriteBlob, EnqueueExpired, EnqueueUndo, EnqueueClaim, GroupMeta,
     BatchReplyLost, CallFails, redisVars, At, In, Working, SendLabels, GroupLabels
<1>2. /\ NoRows(e)' <=> NoRows(e)
      /\ NoLive(e)' <=> NoLive(e)
      /\ IndexInv(e)' /\ Untracked(e)'
  BY <1>1 DEF NoRows, NoLive, Untracked, IndexInv, Backed, Stage
<1>3. Stage(p, e)
  BY DEF Backed
<1>4. CASE WriteBlob(p)
  <2>1. /\ e \in blobs' /\ meta' = meta /\ In(p, e, Early)
        /\ Goto(p, "claim") \/ Goto(p, "gmeta")
    BY <1>4 DEF WriteBlob, redisVars, In, Early
  <2>2. Stage(p, e)' /\ task'[p].pc \in Working
    BY <1>2, <1>3, <1>g, <2>1 DEF Stage, In, Writing, Late, Working, SendLabels,
       GroupLabels
  <2> QED
    BY <1>1, <1>2, <1>g, <2>1, <2>2, SenderBacked
<1>5. CASE EnqueueExpired(p) \/ EnqueueUndo(p)
  <2>1. meta'[e] = 0 /\ Goto(p, "scrub")
    BY <1>3, <1>5 DEF EnqueueExpired, EnqueueUndo, redisVars, In, At, Early, Stage,
       TypeOK
  <2>2. Stage(p, e)' /\ task'[p].pc \in Working
    BY <1>2, <1>g, <2>1 DEF Stage, In, Early, Relying, Writing, Late, Working,
       SendLabels
  <2> QED
    BY <1>1, <1>2, <1>g, <2>1, <2>2, SenderBacked DEF Unshown
<1>6. CASE EnqueueClaim(p) \/ GroupMeta(p)
  <2>1. In(p, e, Early) /\ In(p, e, Relying)
    BY <1>6 DEF EnqueueClaim, GroupMeta, In, At, Early, Relying
  <2>2. /\ \A q \in Tasks \ {p} : task'[q] = task[q]
        /\ task'[p].e = e /\ task'[p].pc \in {"insert", "ginsert"}
    BY <1>6, <1>t DEF EnqueueClaim, GroupMeta, TaskType
  <2>3. NoRows(e)' /\ e \in blobs'
    BY <1>1, <1>2, <1>3, <2>1 DEF Stage
  <2>4. Stage(p, e)' /\ task'[p].pc \in Working
    BY <1>2, <2>2, <2>3 DEF Stage, In, Early, NoRows, Working, SendLabels, GroupLabels
  <2> QED
    BY <1>1, <1>2, <2>2, <2>3, <2>4, SenderBacked
<1>7. CASE BatchReplyLost(p)
  <2>1. Goto(p, "gopen") /\ In(p, e, Writing) /\ In(p, e, Relying)
    BY <1>7 DEF BatchReplyLost, In, At, Writing, Relying, Late
  <2>2. Stage(p, e)' /\ task'[p].pc \in Working
    BY <1>1, <1>2, <1>3, <1>g, <2>1 DEF Stage, In, Early, Working, GroupLabels
  <2>3. e \in blobs'
    BY <1>1, <1>3, <2>1 DEF Stage
  <2> QED
    BY <1>1, <1>2, <1>g, <2>1, <2>2, <2>3, SenderBacked
<1>8. CASE CallFails(p) /\ task[p].pc \in Working /\ ~Finish(p)
  <2>1. /\ UNCHANGED <<meta, blobs>> /\ faults = 0 /\ faults' # 0
    BY <1>8, <1>t DEF CallFails, redisVars
  <2>u. e \in blobs' \/ Unshown(e)'
    BY <1>2, <2>1 DEF Backed, Unshown
  <2>2. CASE At(p, "gmeta")
    <3>1. /\ \A q \in Tasks \ {p} : task'[q] = task[q]
          /\ task'[p].e = e /\ task'[p].pc = "gopen"
      BY <1>8, <1>t, <2>2 DEF CallFails, TaskType
    <3>2. NoRows(e)' /\ e \in blobs'
      BY <1>2, <1>3, <2>1, <2>2 DEF Stage, In, At, Early, Relying
    <3>3. Stage(p, e)' /\ task'[p].pc \in Working
      BY <1>2, <3>1, <3>2 DEF Stage, In, Early, NoRows, Working, GroupLabels
    <3> QED
      BY <1>1, <1>2, <3>1, <3>2, <3>3, SenderBacked
  <2>3. CASE ~At(p, "gmeta")
    <3>1. Goto(p, OnError(task[p].pc)) /\ OnError(task[p].pc) # "idle"
      BY <1>8, <2>3 DEF CallFails
    <3>2. \/ task[p].pc = "insert" /\ Goto(p, "undo")
          \/ task[p].pc = "undo" /\ Goto(p, "scrub")
          \/ task[p].pc = "ginsert" /\ Goto(p, "gopen")
      BY <1>8, <2>3, <3>1 DEF OnError, At, Working, SendLabels, GroupLabels
    <3>3. CASE task[p].pc = "insert" /\ Goto(p, "undo")
      <4>1. Stage(p, e)' /\ task'[p].pc \in Working
        BY <1>2, <1>g, <2>1, <3>3 DEF Stage, In, Early, Relying, Writing, Late,
           Working, SendLabels
      <4> QED
        BY <1>1, <1>2, <1>g, <2>u, <3>3, <4>1, SenderBacked
    <3>4. CASE task[p].pc = "undo" /\ Goto(p, "scrub")
      <4>1. NoRows(e)'
        BY <1>2, <1>3, <2>1, <3>4 DEF Stage, In
      <4>2. Stage(p, e)' /\ task'[p].pc \in Working
        BY <1>2, <1>g, <3>4, <4>1 DEF Stage, In, Early, Relying, Writing, Late,
           Working, SendLabels
      <4> QED
        BY <1>1, <1>2, <1>g, <2>u, <3>4, <4>2, SenderBacked
    <3>5. CASE task[p].pc = "ginsert" /\ Goto(p, "gopen")
      <4>1. In(p, e, Writing) /\ In(p, e, Relying)
        BY <3>5 DEF In, Writing, Relying, Late
      <4>2. Stage(p, e)' /\ task'[p].pc \in Working
        BY <1>1, <1>2, <1>3, <1>g, <3>5, <4>1 DEF Stage, In, Early, Working,
           GroupLabels
      <4> QED
        BY <1>1, <1>2, <1>g, <2>u, <3>5, <4>2, SenderBacked
    <3> QED
      BY <3>2, <3>3, <3>4, <3>5
  <2> QED
    BY <2>2, <2>3
<1> QED
  BY <1>4, <1>5, <1>6, <1>7, <1>8

(* The atomic insertion writes the row of one user, or prunes it.           *)
LEMMA InsertRow ==
    ASSUME TypeOK, NEW u \in Users, NEW e \in Envelopes, NEW x \in Nat, NEW t \in Int,
           LuaInsert(u, e, x, t)
    PROVE  /\ \A v \in Users : inbox'[v][e] \in {inbox[v][e], 0, x}
           /\ ~HasRoom(u, t) => RowsGo(e)
<1>1. /\ Pruned(u, t) \in [Envelopes -> Nat]
      /\ Pruned(u, t)[e] = inbox[u][e] \/ Pruned(u, t)[e] = 0
  BY PrunedType DEF Pruned
<1> QED
  BY <1>1 DEF LuaInsert, TypeOK, RowsGo

(* The steps of a send that write rows: its blob is there, they have the    *)
(* score the send computed, and neither pending set nor index has e yet.    *)
LEMMA WritingBacked ==
    ASSUME TypeOK, TypeOK', NEW p \in Tasks, NEW e \in Envelopes, task[p].e = e,
           Backed(e),
           EnqueueInsert(p) \/ InsertReplyLost(p) \/ GroupInsert(p) \/ GroupFailOpen(p)
    PROVE  Backed(e)'
<1> DEFINE t == task[p].exp - task[p].life
<1>t. /\ task \in [Tasks -> TaskType] /\ task[p] \in TaskType /\ t \in Int
      /\ task[p].exp \in Nat /\ faults \in Nat
      /\ task[p].todo \subseteq Users /\ To[e] \subseteq Users
  BY AddressAssumption DEF TypeOK, TaskType
<1>1. /\ UNCHANGED <<now, sent, reaper, index, pending, blobs>>
      /\ In(p, e, Working) /\ In(p, e, Relying) /\ In(p, e, Writing)
  BY DEF EnqueueInsert, InsertReplyLost, GroupInsert, GroupFailOpen, At, In, Working,
     Relying, Writing, Late, SendLabels, GroupLabels
<1>2. Stage(p, e)
  BY DEF Backed
<1>3. e \in blobs' /\ Untracked(e)' /\ \A u \in Users : inbox[u][e] \in {0, task[p].exp}
  BY <1>1, <1>2 DEF Stage, Untracked
<1>4. IndexInv(e)'
  BY <1>3 DEF Untracked, IndexInv
<1>5. ASSUME \A u \in Users : inbox'[u][e] \in {0, task[p].exp},
             \A q \in Tasks \ {p} : task'[q] = task[q],
             task'[p].e = e, task'[p].exp = task[p].exp,
             \/ task'[p].pc \in {"ginsert", "publish", "gpublish"}
             \/ task'[p].pc = "undo" /\ (faults' = 0 => NoRows(e)')
      PROVE  Backed(e)'
  <2>1. task'[p].pc \in Working
    BY <1>5 DEF Working, SendLabels, GroupLabels
  <2>2. Stage(p, e)'
    BY <1>3, <1>5 DEF Stage, In, Early, Relying, Writing, Late
  <2> QED
    BY <1>1, <1>3, <1>4, <1>5, <2>1, <2>2, SenderBacked
<1>g. \A l : Goto(p, l) => /\ \A q \in Tasks \ {p} : task'[q] = task[q]
                           /\ task'[p].e = e /\ task'[p].pc = l
                           /\ task'[p].exp = task[p].exp
  BY <1>t DEF Goto, TaskType
<1> HIDE DEF t
<1>6. CASE EnqueueInsert(p)
  <2>1. PICK u \in To[e] :
          /\ LuaInsert(u, e, task[p].exp, t)
          /\ Goto(p, IF HasRoom(u, t) THEN "publish" ELSE "undo")
    BY <1>6 DEF EnqueueInsert, t
  <2>2. /\ \A v \in Users : inbox'[v][e] \in {0, task[p].exp}
        /\ ~HasRoom(u, t) => RowsGo(e)
    BY <1>3, <1>t, <2>1, InsertRow
  <2>3. NoRows(e)
    BY <1>2, <1>6 DEF Stage, In, EnqueueInsert, At
  <2>4. ~HasRoom(u, t) => NoRows(e)'
    BY <2>2, <2>3 DEF NoRows, RowsGo
  <2> QED
    BY <1>5, <1>g, <2>1, <2>2, <2>4
<1>7. CASE InsertReplyLost(p)
  <2>1. PICK u \in To[e] : LuaInsert(u, e, task[p].exp, t)
    BY <1>7 DEF InsertReplyLost, t
  <2>2. \A v \in Users : inbox'[v][e] \in {0, task[p].exp}
    BY <1>3, <1>t, <2>1, InsertRow
  <2>3. Goto(p, "undo") /\ faults' # 0
    BY <1>7, <1>t DEF InsertReplyLost, OnError
  <2> QED
    BY <1>5, <1>g, <2>2, <2>3
<1>8. CASE GroupInsert(p)
  <2>1. PICK u \in task[p].todo :
          /\ LuaInsert(u, e, task[p].exp, t)
          /\ task' = [task EXCEPT ![p] = AfterInsert(p, u, HasRoom(u, t))]
    BY <1>8 DEF GroupInsert, t
  <2>2. \A v \in Users : inbox'[v][e] \in {0, task[p].exp}
    BY <1>3, <1>t, <2>1, InsertRow
  <2>3. /\ \A q \in Tasks \ {p} : task'[q] = task[q]
        /\ task'[p] = AfterInsert(p, u, HasRoom(u, t))
    BY <2>1, <1>t
  <2>4. /\ task'[p].e = e /\ task'[p].exp = task[p].exp
        /\ task'[p].pc \in {"ginsert", "gpublish"}
    BY <2>3, <1>t DEF AfterInsert, TaskType
  <2> QED
    BY <1>5, <2>2, <2>3, <2>4
<1>9. CASE GroupFailOpen(p)
  <2>1. \A u \in Users : inbox'[u] = IF u \in To[e] THEN [inbox[u] EXCEPT ![e] = task[p].exp]
                                                   ELSE inbox[u]
    BY <1>9 DEF GroupFailOpen
  <2>2. \A u \in Users : inbox'[u][e] \in {0, task[p].exp}
    BY <1>3, <2>1 DEF TypeOK
  <2>3. /\ \A q \in Tasks \ {p} : task'[q] = task[q]
        /\ task'[p].e = e /\ task'[p].exp = task[p].exp /\ task'[p].pc = "gpublish"
    BY <1>9, <1>t DEF GroupFailOpen, TaskType
  <2> QED
    BY <1>5, <2>2, <2>3
<1> QED
  BY <1>6, <1>7, <1>8, <1>9

(* A handler that is not sending e, or not any more: it goes on with an ACK *)
(* or a delete, or works on another envelope.                               *)
LEMMA AsideBacked ==
    ASSUME TypeOK, TypeOK', NEW p \in Tasks, NEW e \in Envelopes, Backed(e),
           task[p].e # e \/ task[p].pc \notin Working,
           now' = now, sent' = sent, reaper' = reaper, faults <= faults', RowsGo(e),
           meta'[e] = meta[e] \/ meta'[e] = 0,
           pending'[e] \subseteq pending[e], index'[e] = index[e],
           \A q \in Tasks \ {p} : task'[q] = task[q],
           \/ task'[p].pc = "idle" \/ task'[p].e # e
           \/ In(p, e, AckLabels) /\ task'[p].pc = "release"
           \/ In(p, e, AckLabels) /\ task'[p].pc = "unlink"
              /\ meta'[e] = 0 /\ Nobody(e, Working),
           e \in blobs /\ e \notin blobs' => In(p, e, {"unlink"})
    PROVE  Backed(e)'
<1>1. now <= now' /\ (Reaping(e)' <=> Reaping(e))
  BY DEF TypeOK, Reaping
<1>2. \A q \in Tasks : In(q, e, Working)' => task'[q] = task[q]
  BY WorkingSets DEF In, AckLabels
<1>3. \A q \in Tasks : In(q, e, {"unlink"})' =>
               In(q, e, {"unlink"}) \/ (meta'[e] = 0 /\ Nobody(e, Working))
  BY DEF In
<1>4. sent[e] = 0 => Nobody(e, Labels \ {"idle"})'
  BY DEF Backed, Nobody, In, AckLabels, Labels
<1>5. e \in blobs /\ e \notin blobs' => Nobody(e, Working) /\ Unshown(e)'
  <2> SUFFICES ASSUME In(p, e, {"unlink"}) PROVE Nobody(e, Working) /\ Unshown(e)'
    OBVIOUS
  <2>1. Nobody(e, Working)
    BY DEF Backed, Alone, Nobody
  <2>2. meta[e] = 0
    BY DEF Backed, Stage
  <2> QED
    BY <2>1, <2>2 DEF Unshown
<1> QED
  BY <1>1, <1>2, <1>3, <1>4, <1>5, OtherBacked

(* Every step of a handler keeps e backed.                                  *)
LEMMA StepBacked ==
    ASSUME TypeOK, TypeOK', NEW p \in Tasks, Step(p), NEW e \in Envelopes, Backed(e),
           faults <= 1
    PROVE  Backed(e)' /\ reaper' = reaper
<1>t. task \in [Tasks -> TaskType] /\ task[p] \in TaskType /\ faults \in Nat
  BY DEF TypeOK
<1>g. \A l : Goto(p, l) => task'[p].pc = l
  BY <1>t DEF Goto, TaskType
<1>f. Finish(p) => task'[p].pc = "idle"
  BY <1>t DEF Finish, Idle
<1>1. /\ \A q \in Tasks \ {p} : task'[q] = task[q]
      /\ task'[p].pc = "idle" \/ task'[p].e = task[p].e
      /\ UNCHANGED <<now, sent, faults, crashes>>
      /\ task[p].e # e => Rest(e) /\ RowsGo(e)
  BY StepFrame
<1>2. /\ reaper' = reaper
      /\ e \in blobs => \/ e \in blobs'
                        \/ e = task[p].e /\ (EnqueueScrub(p) \/ AckUnlink(p))
  <2>1. GroupFailOpen(p) => UNCHANGED <<reaper, blobs>>
    BY DEF GroupFailOpen
  <2> QED
    BY <2>1, StepBlobs
<1>3. CASE task[p].e # e
  <2>1. faults <= faults' /\ faults' <= 1
    BY <1>1, <1>t
  <2> QED
    BY <1>1, <1>2, <1>3, <2>1, AsideBacked DEF Rest
<1>4. CASE task[p].e = e
  <2>0. faults <= faults' /\ faults' <= 1
    BY <1>1, <1>t
  <2>1. CASE \/ EnqueueDedup(p) \/ EnqueueScrub(p) \/ GroupAllRemote(p)
             \/ GroupExpired(p) \/ EnqueuePublish(p) \/ GroupPublish(p)
    BY <1>2, <1>4, <2>1, EndingBacked
  <2>2. CASE \/ WriteBlob(p) \/ EnqueueExpired(p) \/ EnqueueUndo(p)
             \/ EnqueueClaim(p) \/ GroupMeta(p)
    BY <1>2, <1>4, <2>0, <2>2, TowardsBacked
  <2>3. CASE EnqueueInsert(p) \/ GroupInsert(p) \/ GroupFailOpen(p)
    BY <1>2, <1>4, <2>3, WritingBacked
  <2>4. CASE AckMark(p)
    <3>1. /\ UNCHANGED <<meta, inbox, pending, index, blobs>> /\ Goto(p, "release")
          /\ In(p, e, AckLabels) /\ task[p].pc \notin Working
      BY <1>4, <2>4 DEF AckMark, At, In, AckLabels, Working, SendLabels, GroupLabels
    <3> QED
      BY <1>1, <1>2, <1>g, <2>0, <3>1, AsideBacked DEF RowsGo
  <2>5. CASE AckRelease(p)
    <3>1. /\ UNCHANGED <<inbox, index, blobs>> /\ LuaAck(e, task[p].u)
          /\ In(p, e, AckLabels) /\ task[p].pc \notin Working
          /\ IF IsLastAck(e, task[p].u) THEN Goto(p, "unlink") ELSE Finish(p)
      BY <1>4, <2>5 DEF AckRelease, At, In, AckLabels, Working, SendLabels, GroupLabels
    <3>2. /\ pending'[e] \subseteq pending[e]
          /\ IF IsLastAck(e, task[p].u) THEN meta'[e] = 0 /\ pending[e] # {}
                                        ELSE meta'[e] = meta[e]
      BY <3>1 DEF LuaAck, IsLastAck, TypeOK
    <3>3. pending[e] # {} => Nobody(e, Working)
      BY DEF Backed, Stage, Untracked, Nobody
    <3>4. \/ task'[p].pc = "idle"
          \/ task'[p].pc = "unlink" /\ meta'[e] = 0 /\ Nobody(e, Working)
      BY <1>f, <1>g, <3>1, <3>2, <3>3
    <3> QED
      BY <1>1, <1>2, <2>0, <3>1, <3>2, <3>4, AsideBacked DEF RowsGo
  <2>6. CASE AckUnlink(p)
    <3>1. /\ UNCHANGED <<meta, inbox, pending, index>> /\ Finish(p)
          /\ In(p, e, {"unlink"}) /\ task[p].pc \notin Working
      BY <1>4, <2>6 DEF AckUnlink, redisVars, At, In, Working, SendLabels, GroupLabels
    <3> QED
      BY <1>1, <1>2, <1>f, <2>0, <3>1, AsideBacked DEF RowsGo
  <2>7. CASE Recall(p)
    <3>1. /\ UNCHANGED <<pending, index, blobs>> /\ Finish(p) /\ Zrem(To[e], e)
          /\ meta' = [meta EXCEPT ![e] = 0] /\ task[p].pc \notin Working
      BY <1>4, <2>7 DEF Recall, At, Working, SendLabels, GroupLabels
    <3>2. RowsGo(e) /\ meta'[e] = 0
      BY <3>1 DEF Zrem, RowsGo, TypeOK
    <3> QED
      BY <1>1, <1>2, <1>f, <2>0, <3>1, <3>2, AsideBacked
  <2> QED
    BY <2>1, <2>2, <2>3, <2>4, <2>5, <2>6, <2>7 DEF Step
<1> QED
  BY <1>2, <1>3, <1>4

(* So does the first failure of a handler.                                  *)
LEMMA FailureBacked ==
    ASSUME TypeOK, TypeOK', NEW p \in Tasks, Failure(p), NEW e \in Envelopes, Backed(e),
           faults' <= 1
    PROVE  Backed(e)' /\ reaper' = reaper
<1>t. /\ task \in [Tasks -> TaskType] /\ task[p] \in TaskType /\ faults \in Nat
      /\ task[p].e \in Envelopes
  BY DEF TypeOK, TaskType
<1>1. UNCHANGED <<now, sent, reaper, index, blobs>> /\ faults <= faults'
  BY <1>t DEF Failure, CallFails, Crash, InsertReplyLost, ClaimReplyLost,
     ReleaseReplyLost, BatchReplyLost, redisVars
<1>g. \A l : Goto(p, l) => /\ \A q \in Tasks \ {p} : task'[q] = task[q]
                           /\ task'[p].e = task[p].e /\ task'[p].pc = l
  BY <1>t DEF Goto, TaskType
<1>f. Finish(p) => /\ \A q \in Tasks \ {p} : task'[q] = task[q]
                   /\ task'[p].pc = "idle"
  BY <1>t DEF Finish, Idle
<1>2. CASE CallFails(p) \/ Crash(p)
  <2>1. UNCHANGED <<meta, inbox, pending>>
    BY <1>2 DEF CallFails, Crash, redisVars
  <2>2. CASE task[p].e = e /\ task[p].pc \in Working
    BY <1>1, <1>2, <2>2, EndingBacked, TowardsBacked DEF Crash
  <2>3. CASE ~(task[p].e = e /\ task[p].pc \in Working)
    <3>1. \/ Finish(p)
          \/ task[p].pc = "gmeta" /\ task' = [task EXCEPT ![p].pc = "gopen",
                 ![p].exp = ExpiresAt(p), ![p].life = ExpiresAt(p) - now]
          \/ Goto(p, OnError(task[p].pc)) /\ OnError(task[p].pc) # "idle"
      BY <1>2 DEF CallFails, Crash, At
    <3>2. CASE Finish(p)
      BY <1>1, <1>f, <2>1, <2>3, <3>2, AsideBacked DEF RowsGo
    <3>3. CASE task[p].pc = "gmeta" /\ task' = [task EXCEPT ![p].pc = "gopen",
                 ![p].exp = ExpiresAt(p), ![p].life = ExpiresAt(p) - now]
      <4>1. task[p].e # e
        BY <2>3, <3>3 DEF Working, GroupLabels
      <4>2. /\ \A q \in Tasks \ {p} : task'[q] = task[q]
            /\ task'[p].e = task[p].e
        BY <3>3, <1>t DEF TaskType
      <4> QED
        BY <1>1, <2>1, <4>1, <4>2, AsideBacked DEF RowsGo
    <3>4. CASE Goto(p, OnError(task[p].pc)) /\ OnError(task[p].pc) # "idle"
      <4>1. CASE task[p].e # e
        BY <1>1, <1>g, <2>1, <3>4, <4>1, AsideBacked DEF RowsGo
      <4>2. CASE task[p].e = e
        <5>1. In(p, e, AckLabels) /\ Goto(p, "release")
          BY <2>3, <3>4, <4>2 DEF OnError, Working, SendLabels, GroupLabels, In,
             AckLabels
        <5> QED
          BY <1>1, <1>g, <2>1, <2>3, <5>1, AsideBacked DEF RowsGo
      <4> QED
        BY <4>1, <4>2
    <3> QED
      BY <3>1, <3>2, <3>3, <3>4
  <2> QED
    BY <1>1, <2>2, <2>3
<1>3. CASE InsertReplyLost(p)
  <2>1. CASE task[p].e = e
    BY <1>1, <1>3, <2>1, WritingBacked
  <2>2. CASE task[p].e # e
    <3>1. PICK u \in To[task[p].e] :
            LuaInsert(u, task[p].e, task[p].exp, task[p].exp - task[p].life)
      BY <1>3 DEF InsertReplyLost
    <3>2. u \in Users /\ task[p].exp - task[p].life \in Int
      BY <1>t, AddressAssumption DEF TaskType
    <3>3. RowsGo(e)
      BY <1>t, <2>2, <3>1, <3>2, InsertOthers
    <3>4. UNCHANGED <<meta, pending>> /\ Goto(p, OnError("insert"))
      BY <1>3 DEF InsertReplyLost
    <3> QED
      BY <1>1, <1>g, <2>2, <3>3, <3>4, AsideBacked
  <2> QED
    BY <1>1, <2>1, <2>2
<1>4. CASE ClaimReplyLost(p)
  <2>1. CASE task[p].e = e
    BY <1>1, <1>4, <2>1, EndingBacked
  <2>2. CASE task[p].e # e
    <3>1. /\ UNCHANGED <<inbox, pending>> /\ Finish(p)
          /\ meta' = [meta EXCEPT ![task[p].e] = ExpiresAt(p)]
      BY <1>4 DEF ClaimReplyLost
    <3>2. meta'[e] = meta[e]
      BY <2>2, <3>1 DEF TypeOK
    <3> QED
      BY <1>1, <1>f, <2>2, <3>1, <3>2, AsideBacked DEF RowsGo
  <2> QED
    BY <1>1, <2>1, <2>2
<1>5. CASE ReleaseReplyLost(p)
  <2>1. /\ UNCHANGED inbox /\ Finish(p) /\ LuaAck(task[p].e, task[p].u)
        /\ task[p].pc \notin Working
    BY <1>5 DEF ReleaseReplyLost, At, Working, SendLabels, GroupLabels
  <2>2. /\ meta'[e] = meta[e] \/ meta'[e] = 0
        /\ pending'[e] \subseteq pending[e]
    BY <2>1 DEF LuaAck, TypeOK
  <2> QED
    BY <1>1, <1>f, <2>1, <2>2, AsideBacked DEF RowsGo
<1>6. CASE BatchReplyLost(p)
  <2>1. CASE task[p].e = e
    BY <1>1, <1>6, <2>1, TowardsBacked
  <2>2. CASE task[p].e # e
    <3>1. UNCHANGED <<meta, inbox, pending>> /\ Goto(p, "gopen")
      BY <1>6 DEF BatchReplyLost, redisVars
    <3> QED
      BY <1>1, <1>g, <2>2, <3>1, AsideBacked DEF RowsGo
  <2> QED
    BY <1>1, <2>1, <2>2
<1> QED
  BY <1>2, <1>3, <1>4, <1>5, <1>6 DEF Failure

(* A request keeps e backed: a retry would be the second send.              *)
LEMMA RequestBacked ==
    ASSUME TypeOK, TypeOK', NEW p \in Tasks, Request(p), NEW e \in Envelopes, Backed(e),
           sent'[e] <= 1
    PROVE  Backed(e)' /\ reaper' = reaper
<1>t. /\ task \in [Tasks -> TaskType] /\ now \in Nat /\ faults \in Nat
      /\ \A f \in Envelopes : sent[f] \in Nat
  BY DEF TypeOK
<1>1. PICK d \in Envelopes :
          \/ SendDuplicate(p, d)
          \/ \E ttl \in Ttls, l \in {"write", "gwrite"} : Accept(p, d, l, ttl)
          \/ \E u \in Users : AckStart(p, u, d)
          \/ Authorised(p, d)
  BY DEF Request, SendDirect, SendSealed, SendGroup, RecallDirect, RecallSealed,
     RecallGroup
<1>2. /\ UNCHANGED <<now, blobs, meta, pending, index, reaper, faults>> /\ At(p, "idle")
      /\ UNCHANGED inbox \/ \E u \in Users : Zrem({u}, d)
  BY <1>1 DEF SendDuplicate, Accept, AckStart, Authorised, redisVars
<1>3. now <= now' /\ faults <= faults' /\ RowsGo(e) /\ (Reaping(e)' <=> Reaping(e))
  <2>1. RowsGo(e)
    BY <1>2 DEF RowsGo, Zrem, TypeOK
  <2> QED
    BY <1>2, <1>t, <2>1 DEF Reaping
<1>4. ASSUME sent'[e] = sent[e], \A q \in Tasks \ {p} : task'[q] = task[q],
             task'[p] = task[p] \/ task'[p].e # e \/ task'[p].pc \in {"mark", "recall"},
             sent[e] = 0 => task'[p] = task[p] \/ task'[p].e # e
      PROVE  Backed(e)'
  <2>1. \A q \in Tasks : In(q, e, Working)' => task'[q] = task[q]
    BY <1>4, WorkingSets DEF In, AckLabels
  <2>2. \A q \in Tasks : In(q, e, {"unlink"})' => In(q, e, {"unlink"})
    BY <1>4 DEF In
  <2>3. sent[e] = 0 => Nobody(e, Labels \ {"idle"})'
    BY <1>4 DEF Backed, Nobody, In
  <2> QED
    BY <1>2, <1>3, <1>4, <2>1, <2>2, <2>3, OtherBacked
<1>5. CASE SendDuplicate(p, d)
  <2>1. d # e
    <3>1. SUFFICES ASSUME d = e PROVE FALSE
      OBVIOUS
    <3>2. meta[e] # 0 /\ sent'[e] = sent[e] + 1
      BY <1>5, <3>1 DEF SendDuplicate, TypeOK
    <3>3. sent[e] # 0
      BY <3>2 DEF Backed
    <3> QED
      BY <3>2, <3>3, <1>t
  <2>2. sent'[e] = sent[e] /\ task' = task
    BY <1>5, <2>1 DEF SendDuplicate, TypeOK
  <2> QED
    BY <1>2, <1>4, <2>2
<1>6. CASE \E ttl \in Ttls, l \in {"write", "gwrite"} : Accept(p, d, l, ttl)
  <2>1. /\ \A q \in Tasks \ {p} : task'[q] = task[q]
        /\ task'[p].pc \in {"write", "gwrite"} /\ task'[p].e = d
        /\ sent' = [sent EXCEPT ![d] = @ + 1]
    BY <1>6, <1>t DEF Accept, Idle
  <2>2. CASE d # e
    <3>1. sent'[e] = sent[e]
      BY <2>1, <2>2 DEF TypeOK
    <3> QED
      BY <1>2, <1>4, <2>1, <2>2, <3>1
  <2>3. CASE d = e
    <3>1. sent'[e] = sent[e] + 1
      BY <2>1, <2>3 DEF TypeOK
    <3>2. sent[e] = 0 /\ sent'[e] # 0
      BY <3>1, <1>t
    <3>3. /\ meta[e] = 0 /\ NoRows(e) /\ Untracked(e)
          /\ \A q \in Tasks : ~In(q, e, Labels \ {"idle"})
      BY <3>2 DEF Backed, Nobody
    <3>4. meta'[e] = 0 /\ NoRows(e)' /\ Untracked(e)'
      BY <3>3, <1>2, <1>3 DEF NoRows, RowsGo, Untracked
    <3>5. \A q \in Tasks \ {p} : ~In(q, e, Working)' /\ ~In(q, e, {"unlink"})'
      BY <2>1, <3>3, WorkingSets DEF In, Labels, AckLabels
    <3>6. In(p, e, {"write", "gwrite"})'
      BY <2>1, <2>3 DEF In
    <3>7. Alone(e)'
      BY <3>5, <3>6 DEF Alone, In
    <3>8. Stage(p, e)'
      BY <3>4, <3>6 DEF Stage, In, Early, Relying, Writing, Late
    <3>9. \A q \in Tasks \ {p} : Stage(q, e)'
      BY <3>5, WorkingSets DEF Stage, In
    <3>10. IndexInv(e)' /\ Unshown(e)' /\ ~Reaping(e)'
      BY <1>3, <3>2, <3>4 DEF IndexInv, Untracked, Unshown, Backed
    <3> QED
      BY <1>2, <3>2, <3>4, <3>7, <3>8, <3>9, <3>10 DEF Backed
  <2> QED
    BY <1>2, <2>2, <2>3
<1>7. CASE \E u \in Users : AckStart(p, u, d)
  <2>1. /\ \A q \in Tasks \ {p} : task'[q] = task[q] /\ sent' = sent
        /\ task'[p].pc = "mark" /\ task'[p].e = d
        /\ \E u \in Users : inbox[u][d] # 0
    BY <1>7, <1>t DEF AckStart, Idle
  <2>2. sent[e] = 0 => d # e
    BY <2>1 DEF Backed, NoRows
  <2>3. sent'[e] = sent[e]
    BY <1>7 DEF AckStart
  <2> QED
    BY <1>2, <1>4, <2>1, <2>2, <2>3
<1>8. CASE Authorised(p, d)
  <2>1. /\ \A q \in Tasks \ {p} : task'[q] = task[q]
        /\ task'[p].pc = "recall" /\ task'[p].e = d
        /\ sent' = sent /\ sent[d] > 0
    BY <1>8, <1>t DEF Authorised, Idle
  <2> QED
    BY <1>2, <1>4, <1>t, <2>1
<1> QED
  BY <1>1, <1>5, <1>6, <1>7, <1>8

(* So do list_inbox, Redis, the clock and the reaper without the full scan, *)
(* its failures included: what the index calls due, nobody sends or lists.  *)
LEMMA EnvironmentBacked ==
    ASSUME TypeOK, TypeOK', ~FullScan, reaper.mode = "indexed",
           \/ \E u \in Users : ListInbox(u)
           \/ Reap \/ ReapFails \/ ReapCrash \/ Redis \/ Tick
    PROVE  /\ reaper'.mode = "indexed"
           /\ \A e \in Envelopes : Backed(e) => Backed(e)'
<1>t. reaper \in ReaperType /\ now \in Nat /\ faults \in Nat
  BY DEF TypeOK
<1>1. /\ UNCHANGED <<sent, task, pending>> \/ Redis
      /\ UNCHANGED <<sent, task>> /\ now <= now' /\ faults <= faults'
  <2>1. \/ Redis
        \/ UNCHANGED <<sent, task, pending>> /\ (now' = now \/ now' = now + 1)
           /\ (faults' = faults \/ faults' = faults + 1)
    BY DEF ListInbox, Reap, ReapStart, ReapCheck, ScanCheck, Examine, ReapUnlink,
       ReapDrop, ReapNext, ReapFails, ReapCrash, Tick, redisVars
  <2>2. Redis => UNCHANGED <<sent, task, now, faults>>
    BY DEF Redis, ExpireMeta, ExpirePending, ExpireInbox
  <2> QED
    BY <2>1, <2>2, <1>t
<1>q. ASSUME NEW e \in Envelopes, Backed(e), RowsGo(e), Reaping(e)' => Reaping(e),
             meta'[e] = meta[e] \/ meta'[e] = 0, pending'[e] \subseteq pending[e],
             index'[e] = index[e] \/ index'[e] = 0,
             e \in blobs => e \in blobs' \/ Reaping(e)
      PROVE  Backed(e)'
  <2>1. \A p \in Tasks : \A L : In(p, e, L)' <=> In(p, e, L)
    BY <1>1 DEF In
  <2>2. sent[e] = 0 => Nobody(e, Labels \ {"idle"})'
    BY <1>q, <2>1 DEF Backed, Nobody
  <2>3. e \in blobs /\ e \notin blobs' => Nobody(e, Working) /\ Unshown(e)'
    <3>1. NoLive(e) => NoLive(e)'
      BY <1>q, <1>1, <1>t DEF NoLive, RowsGo, TypeOK
    <3> QED
      BY <1>q, <3>1 DEF Backed, Unshown
  <2> QED
    BY <1>1, <1>q, <2>1, <2>2, <2>3, OtherBacked
<1>2. CASE Redis \/ Tick \/ \E u \in Users : ListInbox(u)
  <2>1. UNCHANGED <<reaper, blobs, index>>
    BY <1>2 DEF Redis, ExpireMeta, ExpirePending, ExpireInbox, ListInbox, Tick, redisVars
  <2>2. ASSUME NEW e \in Envelopes PROVE RowsGo(e)
    <3>1. CASE UNCHANGED inbox
      BY <3>1 DEF RowsGo
    <3>2. CASE \E u \in Users : ListInbox(u) \/ ExpireInbox(u)
      BY <3>2 DEF ListInbox, ExpireInbox, Pruned, RowsGo, TypeOK
    <3> QED
      BY <1>2, <3>1, <3>2 DEF Redis, ExpireMeta, ExpirePending, Tick, redisVars
  <2>3. ASSUME NEW e \in Envelopes
        PROVE  /\ meta'[e] = meta[e] \/ meta'[e] = 0
               /\ pending'[e] \subseteq pending[e]
    <3>1. CASE \E f \in Envelopes : ExpireMeta(f) \/ ExpirePending(f)
      BY <3>1 DEF ExpireMeta, ExpirePending, TypeOK
    <3>2. CASE UNCHANGED <<meta, pending>>
      BY <3>2
    <3> QED
      BY <1>2, <3>1, <3>2 DEF Redis, ExpireInbox, ListInbox, Tick, redisVars
  <2> QED
    BY <2>1, <2>2, <2>3, <1>q DEF Reaping
<1>3. CASE ReapStart
  <2> DEFINE due == {e \in Envelopes : index[e] # 0 /\ index[e] <= now}
  <2>1. /\ reaper' = [reaper EXCEPT !.pc = "check", !.mode = "indexed", !.todo = due]
        /\ UNCHANGED <<now, blobs, meta, pending, inbox, index, task, sent, faults>>
    BY <1>3 DEF ReapStart, redisVars
  <2>2. reaper'.mode = "indexed" /\ reaper'.pc = "check" /\ reaper'.todo = due
    BY <2>1, <1>t DEF ReaperType
  <2>3. ASSUME NEW e \in Envelopes, Backed(e) PROVE Backed(e)'
    <3>1. \A p \in Tasks : \A L : In(p, e, L)' <=> In(p, e, L)
      BY <2>1 DEF In
    <3>2. /\ NoRows(e)' <=> NoRows(e)
          /\ Untracked(e)' <=> Untracked(e)
          /\ NoLive(e)' <=> NoLive(e)
          /\ IndexInv(e)' <=> IndexInv(e)
      BY <2>1 DEF NoRows, Untracked, NoLive, IndexInv
    <3>3. ASSUME Reaping(e)' PROVE sent'[e] # 0 /\ Nobody(e, Working)' /\ NoLive(e)'
      <4>1. index[e] # 0 /\ index[e] <= now
        BY <3>3, <2>2 DEF Reaping
      <4>2. sent'[e] # 0 /\ Nobody(e, Working)
        BY <2>1, <2>3, <4>1 DEF Backed, Stage, Untracked, Nobody
      <4>3. \A u \in Users : inbox[u][e] <= index[e]
        BY <2>3, <4>1 DEF Backed, IndexInv
      <4>4. NoLive(e)
        BY <4>1, <4>3 DEF NoLive, TypeOK
      <4> QED
        BY <3>1, <3>2, <4>2, <4>4 DEF Nobody
    <3>4. Alone(e)' /\ \A p \in Tasks : Stage(p, e)'
      <4>1. Alone(e)'
        BY <2>3, <3>1 DEF Backed, Alone
      <4>2. ASSUME NEW p \in Tasks PROVE Stage(p, e)'
        BY <2>1, <2>3, <3>1, <3>2 DEF Backed, Stage
      <4> QED
        BY <4>1, <4>2
    <3>5. sent'[e] = 0 => /\ meta'[e] = 0 /\ NoRows(e)' /\ Untracked(e)'
                          /\ Nobody(e, Labels \ {"idle"})'
      BY <2>1, <2>3, <3>1, <3>2 DEF Backed, Nobody
    <3>6. IndexInv(e)' /\ (e \in blobs' \/ Unshown(e)')
      BY <2>1, <2>3, <3>2 DEF Backed, Unshown
    <3> QED
      BY <3>3, <3>4, <3>5, <3>6 DEF Backed
  <2> QED
    BY <2>2, <2>3
<1>4. CASE ReapCheck \/ ScanCheck \/ ReapFails
  <2>1. /\ UNCHANGED <<blobs, inbox, meta, pending, index>>
        /\ \/ \E d \in reaper.todo, l \in {"unlink", Afterwards} :
                reaper' = [reaper EXCEPT !.e = d, !.todo = @ \ {d}, !.pc = l]
           \/ reaper.pc = "unlink" /\ reaper' = [reaper EXCEPT !.pc = Afterwards]
           \/ reaper.pc = "drop" /\ reaper' = [reaper EXCEPT !.pc = "check"]
    BY <1>4 DEF ReapCheck, ScanCheck, Examine, ReapFails, GiveUp, redisVars
  <2>2. reaper'.mode = "indexed"
    BY <2>1, <1>t DEF ReaperType
  <2>3. \A e \in Envelopes : Reaping(e)' => Reaping(e)
    <3>1. CASE \E d \in reaper.todo, l \in {"unlink", Afterwards} :
                reaper' = [reaper EXCEPT !.e = d, !.todo = @ \ {d}, !.pc = l]
      BY <3>1, <1>t DEF Reaping, ReaperType
    <3>2. CASE reaper.pc \in {"unlink", "drop"}
               /\ \E l \in {"check", Afterwards} : reaper' = [reaper EXCEPT !.pc = l]
      BY <3>2, <1>t DEF Reaping, ReaperType
    <3> QED
      BY <2>1, <3>1, <3>2
  <2> QED
    BY <2>1, <2>2, <2>3, <1>q DEF RowsGo
<1>5. CASE ReapUnlink
  <2>1. /\ reaper.pc = "unlink" /\ blobs' = blobs \ {reaper.e}
        /\ UNCHANGED <<inbox, meta, pending, index>>
        /\ reaper' = [reaper EXCEPT !.pc = Afterwards]
    BY <1>5 DEF ReapUnlink, redisVars
  <2>2. reaper'.mode = "indexed" /\ reaper'.e = reaper.e /\ reaper'.todo = reaper.todo
    BY <2>1, <1>t DEF ReaperType
  <2>3. \A e \in Envelopes : /\ Reaping(e)' => Reaping(e)
                             /\ e \in blobs => e \in blobs' \/ Reaping(e)
    BY <2>1, <2>2 DEF Reaping
  <2> QED
    BY <2>1, <2>2, <2>3, <1>q DEF RowsGo
<1>6. CASE ReapDrop \/ ReapNext \/ ReapCrash
  <2>1. /\ UNCHANGED <<blobs, inbox, meta, pending>>
        /\ reaper' = Resting \/ reaper' = [reaper EXCEPT !.pc = "check"]
        /\ index' = index \/ index' = [index EXCEPT ![reaper.e] = 0]
    BY <1>6 DEF ReapDrop, ReapNext, ReapCrash, redisVars
  <2>2. /\ reaper'.mode = "indexed" /\ reaper'.pc \in {"idle", "check"}
        /\ reaper'.todo = {} \/ reaper'.todo = reaper.todo
    BY <2>1, <1>t DEF ReaperType, Resting
  <2>3. \A e \in Envelopes : /\ Reaping(e)' => Reaping(e)
                             /\ index'[e] = index[e] \/ index'[e] = 0
    BY <2>1, <2>2 DEF Reaping, TypeOK
  <2> QED
    BY <2>1, <2>2, <2>3, <1>q DEF RowsGo
<1> QED
  BY <1>2, <1>3, <1>4, <1>5, <1>6 DEF Reap

(* Every step, at most one fault among them, keeps e backed.                *)
LEMMA BackedStep ==
    TypeOK /\ TypeOK' /\ BackedInv /\ [Next]_vars => BackedInv'
<1> SUFFICES ASSUME TypeOK, TypeOK', BackedInv, [Next]_vars, ~FullScan, faults' <= 1
             PROVE  /\ reaper'.mode = "indexed"
                    /\ \A e \in Envelopes : sent'[e] <= 1 => Backed(e)'
  BY DEF BackedInv
<1>1. ASSUME NEW p \in Tasks, Step(p) \/ Request(p) \/ Failure(p) PROVE faults <= faults'
  <2>1. Step(p) => faults' = faults
    BY StepFrame
  <2>2. Request(p) => faults' = faults
    BY DEF Request, SendDuplicate, SendDirect, SendSealed, SendGroup, Accept, AckStart,
       RecallDirect, RecallSealed, RecallGroup, Authorised
  <2>3. Failure(p) => faults' = faults \/ faults' = faults + 1
    BY DEF Failure, CallFails, Crash, InsertReplyLost, ClaimReplyLost,
       ReleaseReplyLost, BatchReplyLost
  <2> QED
    BY <1>1, <2>1, <2>2, <2>3 DEF TypeOK
<1>2. faults <= faults'
  <2>1. (\E u \in Users : ListInbox(u)) \/ Reap \/ ReapCrash \/ Redis \/ Tick
        \/ UNCHANGED vars => faults' = faults
    BY DEF ListInbox, Reap, ReapStart, ReapCheck, ScanCheck, Examine, ReapUnlink,
       ReapDrop, ReapNext, ReapCrash, Redis, ExpireMeta, ExpirePending, ExpireInbox,
       Tick, vars
  <2>2. ReapFails => faults' = faults + 1
    BY DEF ReapFails
  <2> QED
    BY <1>1, <2>1, <2>2 DEF Next, TypeOK
<1>3. faults <= 1
  BY <1>2 DEF TypeOK
<1>4. /\ reaper.mode = "indexed"
      /\ \A e \in Envelopes : sent'[e] <= 1 => Backed(e)
  BY <1>3, CountsGrow DEF BackedInv
<1>5. ASSUME NEW p \in Tasks, Step(p) \/ Request(p) \/ Failure(p)
      PROVE  /\ reaper'.mode = "indexed"
             /\ \A e \in Envelopes : sent'[e] <= 1 => Backed(e)'
  <2>1. reaper' = reaper
    <3>1. GroupFailOpen(p) => reaper' = reaper
      BY DEF GroupFailOpen
    <3>2. Step(p) => reaper' = reaper
      BY <3>1, StepBlobs
    <3> QED
      BY <1>5, <3>2 DEF Request, SendDuplicate, SendDirect, SendSealed, SendGroup,
         Accept, AckStart, RecallDirect, RecallSealed, RecallGroup, Authorised, Failure,
         CallFails, Crash, InsertReplyLost, ClaimReplyLost, ReleaseReplyLost,
         BatchReplyLost
  <2> QED
    BY <1>3, <1>4, <1>5, <2>1, StepBacked, RequestBacked, FailureBacked
<1>6. ASSUME \/ \E u \in Users : ListInbox(u)
             \/ Reap \/ ReapFails \/ ReapCrash
             \/ Redis \/ Tick
      PROVE  /\ reaper'.mode = "indexed"
             /\ \A e \in Envelopes : sent'[e] <= 1 => Backed(e)'
  BY <1>4, <1>6, EnvironmentBacked
<1>7. CASE UNCHANGED vars
  <2>1. ASSUME NEW e \in Envelopes, Backed(e) PROVE Backed(e)'
    <3>1. /\ UNCHANGED <<now, sent, reaper, blobs, faults>> /\ RowsGo(e) /\ Rest(e)
          /\ \A q \in Tasks : task'[q] = task[q]
      BY <1>7 DEF vars, redisVars, history, RowsGo, Rest
    <3>2. now <= now' /\ faults <= faults' /\ (Reaping(e)' <=> Reaping(e))
      BY <3>1 DEF TypeOK, Reaping
    <3>3. \A p \in Tasks : \A L : In(p, e, L)' <=> In(p, e, L)
      BY <3>1 DEF In
    <3>4. sent[e] = 0 => Nobody(e, Labels \ {"idle"})'
      BY <2>1, <3>3 DEF Backed, Nobody
    <3> QED
      BY <2>1, <3>1, <3>2, <3>3, <3>4, OtherBacked DEF Rest
  <2> QED
    BY <1>4, <1>7, <2>1 DEF vars
<1> QED
  BY <1>5, <1>6, <1>7 DEF Next

(* One call of Redis or the disk that fails or loses its reply, in whatever *)
(* handler or reaper pass and at whatever await, and any number of handlers *)
(* that die, leave no envelope sent once that list_inbox shows and whose    *)
(* blob is gone, while the full scan is off (queue.py, enqueue_envelope and *)
(* its clean-up, the fail-open fan-out; scripts/reaper.py).                 *)
THEOREM ListedHasBlobHolds == Spec => []ListedHasBlob
<1>1. Init => BackedInv
  <2> SUFFICES ASSUME Init PROVE BackedInv
    OBVIOUS
  <2>1. reaper.mode = "indexed" /\ \A e \in Envelopes : ~Reaping(e)
    BY DEF Init, Resting, Reaping
  <2>2. \A e \in Envelopes, p \in Tasks : task[p].pc = "idle"
    BY DEF Init, Idle
  <2>3. ASSUME NEW e \in Envelopes PROVE Backed(e)
    <3>1. \A p \in Tasks : /\ ~In(p, e, Working) /\ ~In(p, e, {"unlink"})
                           /\ ~In(p, e, Labels \ {"idle"})
      BY <2>2, WorkingSets DEF In
    <3>2. \A p \in Tasks : Stage(p, e)
      BY <3>1, WorkingSets DEF Stage, In
    <3>3. meta[e] = 0 /\ NoRows(e) /\ Untracked(e)
      BY DEF Init, NoRows, Untracked
    <3> QED
      BY <2>1, <3>1, <3>2, <3>3 DEF Backed, Alone, Nobody, IndexInv, Untracked, Unshown
  <2> QED
    BY <2>1, <2>3 DEF BackedInv
<1>2. TypeOK /\ BackedInv => ListedHasBlob
  <2> SUFFICES ASSUME TypeOK, BackedInv, faults <= 1, ~FullScan, NEW u \in Users,
                      NEW e \in Envelopes, sent[e] <= 1, Listed(u, e)
               PROVE  e \in blobs
    BY DEF ListedHasBlob
  <2>1. inbox[u][e] > now /\ meta[e] # 0
    BY DEF Listed, Live
  <2>2. ~Unshown(e)
    BY <2>1 DEF Unshown, NoLive, TypeOK
  <2> QED
    BY <2>2 DEF BackedInv, Backed
<1>3. TypeOK /\ TypeOK' /\ BackedInv /\ [Next]_vars => BackedInv'
  BY BackedStep
<1> QED
  BY <1>1, <1>2, <1>3, TypeCorrect, PTL DEF Spec

----------------------------------------------------------------------------
(* What a sender may conclude from "already queued".                        *)

(* Handlers, rows and requests belong together: a handler serves an         *)
(* envelope that was sent and touches only its recipients, a send knows     *)
(* when it read the clock and what it computed from it, and an ACK has left *)
(* its delivery tombstone before it releases anything.                      *)
SentInv == \A e \in Envelopes : sent[e] # 0 => Ts[e] <= now + Skew
RowInv  == \A u \in Users, e \in Envelopes :
    inbox[u][e] # 0 => u \in To[e] /\ sent[e] # 0
Serving(p) ==
    /\ task[p].pc # "idle" => sent[task[p].e] # 0
    /\ task[p].todo \subseteq To[task[p].e] /\ task[p].eligible \subseteq To[task[p].e]
    /\ task[p].pc \in AckLabels => task[p].u \in To[task[p].e]
    /\ task[p].pc \in {"write", "claim"} =>
         \E ttl \in Ttls : task[p].exp = Ts[task[p].e] + ttl
    /\ task[p].pc \in {"insert", "publish"} =>
         /\ Deadline(task[p].e, task[p].exp)
         /\ 0 <= task[p].exp - task[p].life /\ task[p].exp - task[p].life <= now
    /\ task[p].pc \in {"release", "unlink"} => <<task[p].e, task[p].u>> \in delivered
OrderInv == faults = 0 => SentInv /\ RowInv /\ \A p \in Tasks : Serving(p)

(* A handler that does not move goes on as it was.                          *)
LEMMA ServingStill ==
    ASSUME TypeOK, TypeOK', NEW p \in Tasks, Serving(p), task'[p] = task[p],
           now <= now', delivered \subseteq delivered',
           \A e \in Envelopes : sent[e] # 0 => sent'[e] # 0
    PROVE  Serving(p)'
<1>1. /\ now \in Nat /\ now' \in Nat /\ task[p].exp \in Nat /\ task[p].life \in Nat
      /\ task[p].e \in Envelopes
  BY DEF TypeOK, TaskType
<1>2. \A x, t : Deadline(x, t)' <=> Deadline(x, t)
  BY DEF Deadline
<1>3. task[p].exp - task[p].life <= now => task[p].exp - task[p].life <= now'
  BY <1>1
<1> QED
  BY <1>1, <1>2, <1>3 DEF Serving

(* A handler that ends serves nothing.                                      *)
LEMMA ServingIdle ==
    ASSUME NEW p \in Tasks, task' = [task EXCEPT ![p] = Idle], TypeOK
    PROVE  Serving(p)' /\ \A q \in Tasks \ {p} : task'[q] = task[q]
<1>1. task'[p] = Idle /\ \A q \in Tasks \ {p} : task'[q] = task[q]
  BY DEF TypeOK
<1>2. Idle.pc = "idle" /\ Idle.todo = {} /\ Idle.eligible = {}
  BY DEF Idle
<1> QED
  BY <1>1, <1>2 DEF Serving, AckLabels

(* A request leaves its handler with its first duty.                        *)
LEMMA ServingNew ==
    ASSUME NEW p \in Tasks, NEW e \in Envelopes, task'[p].e = e, sent'[e] # 0,
           task'[p].todo \in {{}, To[e]}, task'[p].eligible = {},
           \/ task'[p].pc = "recall"
           \/ task'[p].pc = "mark" /\ task'[p].u \in To[e]
           \/ task'[p].pc \in {"write", "gwrite"} /\ \E ttl \in Ttls : task'[p].exp = Ts[e] + ttl
    PROVE  Serving(p)'
BY DEF Serving, AckLabels

(* Nobody outside the recipients of the envelope a handler serves has an    *)
(* inbox touched by it, and a row is written only for a recipient.          *)
LEMMA StepInboxes ==
    ASSUME TypeOK, NEW p \in Tasks, Serving(p), Step(p)
    PROVE  /\ \A u \in Users \ To[task[p].e] :
                  inbox'[u] = inbox[u] /\ inboxTtl'[u] = inboxTtl[u]
           /\ \A u \in Users, f \in Envelopes \ {task[p].e} :
                  inbox'[u][f] # 0 => inbox[u][f] # 0
<1> DEFINE e == task[p].e
<1> DEFINE t == task[p].exp - task[p].life
<1>t. /\ e \in Envelopes /\ To[e] \subseteq Users /\ t \in Int /\ task[p].exp \in Nat
      /\ task[p].todo \subseteq To[e] /\ task[p].eligible \subseteq To[e]
      /\ inbox \in [Users -> [Envelopes -> Nat]] /\ inboxTtl \in [Users -> Nat]
  BY AddressAssumption DEF TypeOK, TaskType, Serving
<1> HIDE DEF e, t
<1>1. ASSUME NEW v \in To[e], LuaInsert(v, e, task[p].exp, t)
      PROVE  /\ \A u \in Users \ To[e] : inbox'[u] = inbox[u] /\ inboxTtl'[u] = inboxTtl[u]
             /\ \A u \in Users, f \in Envelopes \ {e} : inbox'[u][f] # 0 => inbox[u][f] # 0
  <2>1. /\ \A u \in Users \ {v} : inbox'[u] = inbox[u] /\ inboxTtl'[u] = inboxTtl[u]
        /\ inbox'[v] = IF HasRoom(v, t) THEN [Pruned(v, t) EXCEPT ![e] = task[p].exp]
                                        ELSE Pruned(v, t)
    BY <1>1, <1>t DEF LuaInsert
  <2>2. \A f \in Envelopes \ {e} : inbox'[v][f] = Pruned(v, t)[f]
    BY <2>1, <1>t DEF Pruned
  <2> QED
    BY <2>1, <2>2, <1>t DEF Pruned
<1>2. CASE EnqueueInsert(p) \/ GroupInsert(p)
  BY <1>1, <1>2, <1>t DEF EnqueueInsert, GroupInsert, e, t
<1>3. CASE GroupFailOpen(p)
  BY <1>3, <1>t DEF GroupFailOpen, e
<1>4. CASE EnqueuePublish(p) \/ GroupPublish(p)
  BY <1>4, <1>t DEF EnqueuePublish, GroupPublish, TouchInboxes, e
<1>5. CASE Recall(p)
  BY <1>5, <1>t DEF Recall, Zrem, e
<1>6. CASE UNCHANGED <<inbox, inboxTtl>>
  BY <1>6
<1> QED
  BY <1>2, <1>3, <1>4, <1>5, <1>6 DEF Step, WriteBlob, EnqueueExpired, EnqueueDedup,
     EnqueueClaim, EnqueueUndo, EnqueueScrub, GroupAllRemote, GroupExpired, GroupMeta,
     AckMark, AckRelease, AckUnlink, redisVars, e

(* What a send computes: it read the clock a while ago, and its expiry is   *)
(* the sender's own or the ceiling from then.                               *)
LEMMA ClaimServing ==
    ASSUME TypeOK, NEW p \in Tasks, Serving(p), SentInv, EnqueueClaim(p)
    PROVE  /\ Deadline(task[p].e, ExpiresAt(p)) /\ ExpiresAt(p) # 0
           /\ ExpiresAt(p) \in Nat /\ ExpiresAt(p) > now
<1> DEFINE e == task[p].e
<1>1. /\ now \in Nat /\ task[p].exp \in Nat /\ e \in Envelopes /\ Ts[e] \in Nat
      /\ Skew \in Nat /\ Ceiling \in Nat
  BY AddressAssumption, NumbersAssumption DEF TypeOK, TaskType
<1>2. /\ sent[e] # 0 /\ ~Expired(p) /\ \E ttl \in Ttls : task[p].exp = Ts[e] + ttl
  BY DEF EnqueueClaim, At, Serving
<1>3. ExpiresAt(p) \in {task[p].exp, now + Ceiling} /\ ExpiresAt(p) > now
  BY <1>1, <1>2 DEF ExpiresAt, Expired, MinOf
<1>4. Ts[e] <= now + Skew
  BY <1>1, <1>2 DEF SentInv
<1>5. CASE ExpiresAt(p) = task[p].exp
  <2>1. PICK ttl \in Ttls : task[p].exp = Ts[e] + ttl
    BY <1>2
  <2>2. Ts[e] + ttl <= ExpiresAt(p)
    BY <2>1, <1>5, <1>1
  <2> QED
    BY <1>1, <1>3, <1>5, <2>2 DEF Deadline
<1>6. CASE ExpiresAt(p) = now + Ceiling
  <2>1. Ts[e] + Ceiling <= ExpiresAt(p) + Skew
    BY <1>1, <1>4, <1>6
  <2> QED
    BY <1>1, <1>3, <1>6, <2>1 DEF Deadline
<1> QED
  BY <1>3, <1>5, <1>6

(* A step of a handler keeps its own duties in order.                       *)
LEMMA StepServing ==
    ASSUME TypeOK, TypeOK', NEW p \in Tasks, Serving(p), SentInv, Step(p)
    PROVE  Serving(p)' /\ delivered \subseteq delivered'
<1> DEFINE e == task[p].e
<1>t. /\ task \in [Tasks -> TaskType] /\ task[p] \in TaskType /\ e \in Envelopes
      /\ now \in Nat /\ task[p].exp \in Nat /\ task[p].life \in Nat
  BY DEF TypeOK, TaskType
<1>u. UNCHANGED <<now, sent>>
  BY StepFrame
<1>d. \A x, s : Deadline(x, s)' <=> Deadline(x, s)
  BY DEF Deadline
<1>g. \A l : Goto(p, l) =>
        /\ task'[p].e = e /\ task'[p].pc = l /\ task'[p].u = task[p].u
        /\ task'[p].exp = task[p].exp /\ task'[p].life = task[p].life
        /\ task'[p].todo = task[p].todo /\ task'[p].eligible = task[p].eligible
  BY <1>t DEF Goto, TaskType
<1>1. CASE \/ EnqueueDedup(p) \/ EnqueueScrub(p) \/ EnqueuePublish(p)
           \/ GroupAllRemote(p) \/ GroupExpired(p) \/ GroupPublish(p)
           \/ AckUnlink(p) \/ Recall(p)
  <2>1. Finish(p) /\ UNCHANGED delivered
    BY <1>1 DEF EnqueueDedup, EnqueueScrub, EnqueuePublish, GroupAllRemote,
       GroupExpired, GroupPublish, AckUnlink, Recall, redisVars
  <2> QED
    BY <2>1, ServingIdle DEF Finish
<1>2. CASE WriteBlob(p)
  <2>1. /\ UNCHANGED delivered
        /\ \/ task[p].pc = "write" /\ Goto(p, "claim")
           \/ task[p].pc = "gwrite" /\ Goto(p, "gmeta")
    BY <1>2 DEF WriteBlob, redisVars
  <2> QED
    BY <1>g, <1>u, <2>1 DEF Serving, AckLabels
<1>3. CASE EnqueueExpired(p) \/ EnqueueUndo(p)
  <2>1. UNCHANGED delivered /\ Goto(p, "scrub") /\ task[p].pc # "idle"
    BY <1>3 DEF EnqueueExpired, EnqueueUndo, redisVars, At
  <2> QED
    BY <1>g, <1>u, <2>1 DEF Serving, AckLabels
<1>4. CASE EnqueueClaim(p)
  <2>1. /\ UNCHANGED delivered /\ task[p].pc = "claim"
        /\ task' = [task EXCEPT ![p].pc = "insert", ![p].exp = ExpiresAt(p),
                                ![p].life = ExpiresAt(p) - now]
    BY <1>4 DEF EnqueueClaim, At
  <2>2. /\ task'[p].e = e /\ task'[p].pc = "insert"
        /\ task'[p].exp = ExpiresAt(p) /\ task'[p].life = ExpiresAt(p) - now
        /\ task'[p].todo = task[p].todo /\ task'[p].eligible = task[p].eligible
    BY <2>1, <1>t DEF TaskType
  <2>3. Deadline(e, ExpiresAt(p)) /\ ExpiresAt(p) \in Nat
    BY <1>4, ClaimServing
  <2>4. task'[p].exp - task'[p].life = now
    BY <2>2, <2>3, <1>t
  <2>5. Deadline(task[p].e, task[p].exp)'
    BY <1>d, <2>2, <2>3
  <2>6. /\ 0 <= task'[p].exp - task'[p].life
        /\ task'[p].exp - task'[p].life <= now'
    BY <1>t, <1>u, <2>4
  <2> QED
    BY <1>u, <2>1, <2>2, <2>5, <2>6 DEF Serving, AckLabels
<1>5. CASE EnqueueInsert(p)
  <2>1. /\ UNCHANGED delivered /\ task[p].pc = "insert"
        /\ Goto(p, "publish") \/ Goto(p, "undo")
    BY <1>5 DEF EnqueueInsert, At
  <2> QED
    BY <1>g, <1>u, <1>d, <2>1 DEF Serving, AckLabels
<1>6. CASE GroupMeta(p)
  <2>1. /\ UNCHANGED delivered /\ task[p].pc = "gmeta"
        /\ task'[p].e = e /\ task'[p].pc = "ginsert"
        /\ task'[p].todo = task[p].todo /\ task'[p].eligible = task[p].eligible
    BY <1>6, <1>t DEF GroupMeta, At, TaskType
  <2> QED
    BY <1>u, <2>1 DEF Serving, AckLabels
<1>7. CASE GroupInsert(p)
  <2> DEFINE t == task[p].exp - task[p].life
  <2>1. PICK u \in task[p].todo :
          /\ UNCHANGED delivered /\ task[p].pc = "ginsert"
          /\ task' = [task EXCEPT ![p] = AfterInsert(p, u, HasRoom(u, t))]
    BY <1>7 DEF GroupInsert, At
  <2>2. /\ task'[p].e = e /\ task'[p].pc \in {"ginsert", "gpublish"}
        /\ task'[p].todo \subseteq task[p].todo
        /\ task'[p].eligible \subseteq task[p].eligible \cup {u}
    BY <2>1, <1>t DEF AfterInsert, TaskType
  <2> QED
    BY <1>u, <2>1, <2>2 DEF Serving, AckLabels
<1>8. CASE GroupFailOpen(p)
  <2>1. /\ UNCHANGED delivered /\ task[p].pc = "gopen"
        /\ task'[p].e = e /\ task'[p].pc = "gpublish"
        /\ task'[p].todo = {} /\ task'[p].eligible = To[e]
    BY <1>8, <1>t DEF GroupFailOpen, At, TaskType
  <2> QED
    BY <1>u, <2>1 DEF Serving, AckLabels
<1>9. CASE AckMark(p)
  <2>1. /\ delivered' = delivered \cup {<<e, task[p].u>>} /\ task[p].pc = "mark"
        /\ Goto(p, "release")
    BY <1>9 DEF AckMark, At
  <2> QED
    BY <1>g, <1>u, <2>1 DEF Serving, AckLabels
<1>10. CASE AckRelease(p)
  <2>1. /\ UNCHANGED delivered /\ task[p].pc = "release"
        /\ Goto(p, "unlink") \/ Finish(p)
    BY <1>10 DEF AckRelease, At
  <2>2. CASE Goto(p, "unlink")
    BY <1>g, <1>u, <2>1, <2>2 DEF Serving, AckLabels
  <2>3. CASE Finish(p)
    BY <2>1, <2>3, ServingIdle DEF Finish
  <2> QED
    BY <2>1, <2>2, <2>3
<1> QED
  BY <1>1, <1>2, <1>3, <1>4, <1>5, <1>6, <1>7, <1>8, <1>9, <1>10 DEF Step

(* Every step keeps handlers, rows and requests together.                   *)
LEMMA OrderStep ==
    TypeOK /\ TypeOK' /\ OrderInv /\ [Next]_vars => OrderInv'
<1> SUFFICES ASSUME TypeOK, TypeOK', OrderInv, [Next]_vars, faults' = 0
             PROVE  SentInv' /\ RowInv' /\ \A p \in Tasks : Serving(p)'
  BY DEF OrderInv
<1>t. /\ now \in Nat /\ now' \in Nat /\ inbox \in [Users -> [Envelopes -> Nat]]
      /\ \A e \in Envelopes : Ts[e] \in Nat /\ sent[e] \in Nat
      /\ Skew \in Nat
  BY AddressAssumption, NumbersAssumption DEF TypeOK
<1>0. faults = 0 /\ SentInv /\ RowInv /\ \A p \in Tasks : Serving(p)
  BY CountsGrow DEF OrderInv
<1>s. ASSUME now <= now', sent' = sent,
             \A u \in Users, e \in Envelopes : inbox'[u][e] # 0 => inbox[u][e] # 0
      PROVE  SentInv' /\ RowInv'
  <2>1. \A e \in Envelopes : Ts[e] <= now + Skew => Ts[e] <= now' + Skew
    BY <1>s, <1>t
  <2> QED
    BY <1>0, <1>s, <2>1 DEF SentInv, RowInv
<1>1. ASSUME NEW p \in Tasks, Step(p)
      PROVE  SentInv' /\ RowInv' /\ \A q \in Tasks : Serving(q)'
  <2>1. /\ \A q \in Tasks \ {p} : task'[q] = task[q] /\ UNCHANGED <<now, sent>>
        /\ UNCHANGED <<now, sent>>
    BY <1>1, StepFrame
  <2>2. Serving(p)' /\ delivered \subseteq delivered'
    BY <1>0, <1>1, StepServing
  <2>3. now <= now'
    BY <2>1, <1>t
  <2>4. \A q \in Tasks \ {p} : Serving(q)'
    BY <1>0, <2>1, <2>2, <2>3, ServingStill
  <2>5. RowInv'
    <3>1. /\ \A u \in Users \ To[task[p].e] : inbox'[u] = inbox[u]
          /\ \A u \in Users, f \in Envelopes \ {task[p].e} :
                  inbox'[u][f] # 0 => inbox[u][f] # 0
      BY <1>0, <1>1, StepInboxes
    <3>2. sent[task[p].e] # 0
      <4>1. task[p].pc # "idle"
        BY <1>1 DEF Step, WriteBlob, EnqueueExpired, EnqueueDedup, EnqueueClaim,
           EnqueueInsert, EnqueueUndo, EnqueueScrub, EnqueuePublish, GroupAllRemote,
           GroupExpired, GroupMeta, GroupInsert, GroupFailOpen, GroupPublish, AckMark,
           AckRelease, AckUnlink, Recall, At
      <4> QED
        BY <1>0, <4>1 DEF Serving
    <3> QED
      BY <1>0, <2>1, <3>1, <3>2 DEF RowInv
  <2>6. SentInv'
    BY <1>0, <2>1 DEF SentInv
  <2> QED
    BY <2>2, <2>4, <2>5, <2>6
<1>2. ASSUME NEW p \in Tasks, Request(p)
      PROVE  SentInv' /\ RowInv' /\ \A q \in Tasks : Serving(q)'
  <2>1. PICK d \in Envelopes :
          \/ SendDuplicate(p, d)
          \/ \E ttl \in Ttls, l \in {"write", "gwrite"} : Accept(p, d, l, ttl)
          \/ \E u \in Users : AckStart(p, u, d)
          \/ Authorised(p, d)
    BY <1>2 DEF Request, SendDirect, SendSealed, SendGroup, RecallDirect,
       RecallSealed, RecallGroup
  <2>2. /\ UNCHANGED <<now, delivered>>
        /\ \/ sent' = sent
           \/ sent' = [sent EXCEPT ![d] = @ + 1] /\ Fresh(d)
        /\ UNCHANGED inbox \/ \E u \in Users : Zrem({u}, d)
    BY <2>1 DEF SendDuplicate, Accept, AckStart, Authorised, redisVars
  <2>3. /\ \A e \in Envelopes : sent[e] # 0 => sent'[e] # 0
        /\ \A e \in Envelopes \ {d} : sent'[e] = sent[e]
    BY <2>2, <1>t DEF TypeOK
  <2>4. \A u \in Users, e \in Envelopes : inbox'[u][e] # 0 => inbox[u][e] # 0
    BY <2>2 DEF Zrem, TypeOK
  <2>5. SentInv' /\ RowInv'
    BY <1>0, <2>2, <2>3, <2>4 DEF SentInv, RowInv, Fresh
  <2>6. now <= now'
    BY <2>2, <1>t
  <2>7. ASSUME \A q \in Tasks \ {p} : task'[q] = task[q], Serving(p)'
        PROVE  \A q \in Tasks : Serving(q)'
    BY <1>0, <2>2, <2>3, <2>6, <2>7, ServingStill
  <2>8. CASE SendDuplicate(p, d)
    <3>1. task' = task
      BY <2>8 DEF SendDuplicate
    <3> QED
      BY <1>0, <2>2, <2>3, <2>5, <2>6, <3>1, ServingStill
  <2>9. CASE \E ttl \in Ttls, l \in {"write", "gwrite"} : Accept(p, d, l, ttl)
    <3>1. /\ \A q \in Tasks \ {p} : task'[q] = task[q]
          /\ task'[p].e = d /\ task'[p].pc \in {"write", "gwrite"}
          /\ task'[p].todo = To[d] /\ task'[p].eligible = {}
          /\ \E ttl \in Ttls : task'[p].exp = Ts[d] + ttl
      BY <2>9 DEF Accept, Idle, TypeOK
    <3>2. sent'[d] # 0
      BY <2>9, <1>t DEF Accept, TypeOK
    <3>3. Serving(p)'
      BY <3>1, <3>2, ServingNew
    <3> QED
      BY <2>5, <2>7, <3>1, <3>3
  <2>10. CASE \E u \in Users : AckStart(p, u, d)
    <3>1. PICK u \in Users : AckStart(p, u, d)
      BY <2>10
    <3>2. /\ \A q \in Tasks \ {p} : task'[q] = task[q]
          /\ task'[p].e = d /\ task'[p].pc = "mark" /\ task'[p].u = u
          /\ task'[p].todo = {} /\ task'[p].eligible = {}
      BY <3>1 DEF AckStart, Idle, TypeOK
    <3>3. u \in To[d] /\ sent'[d] # 0
      BY <1>0, <2>3, <3>1 DEF AckStart, RowInv
    <3>4. Serving(p)'
      BY <3>2, <3>3, ServingNew
    <3> QED
      BY <2>5, <2>7, <3>2, <3>4
  <2>11. CASE Authorised(p, d)
    <3>1. /\ \A q \in Tasks \ {p} : task'[q] = task[q]
          /\ task'[p].e = d /\ task'[p].pc = "recall"
          /\ task'[p].todo = {} /\ task'[p].eligible = {}
      BY <2>11 DEF Authorised, Idle, TypeOK
    <3>2. sent'[d] # 0
      BY <2>11, <2>3, <1>t DEF Authorised
    <3>3. Serving(p)'
      BY <3>1, <3>2, ServingNew
    <3> QED
      BY <2>5, <2>7, <3>1, <3>3
  <2> QED
    BY <2>1, <2>8, <2>9, <2>10, <2>11
<1>3. ASSUME NEW p \in Tasks, Failure(p)
      PROVE  SentInv' /\ RowInv' /\ \A q \in Tasks : Serving(q)'
  <2>1. Crash(p)
    BY <1>0, <1>3 DEF Failure, CallFails, InsertReplyLost, ClaimReplyLost,
       ReleaseReplyLost, BatchReplyLost
  <2>2. UNCHANGED <<now, sent, inbox, delivered>> /\ task' = [task EXCEPT ![p] = Idle]
    BY <2>1 DEF Crash, redisVars, Finish
  <2>3. now <= now'
    BY <2>2, <1>t
  <2> QED
    BY <1>0, <1>s, <2>2, <2>3, ServingIdle, ServingStill
<1>4. ASSUME \/ \E u \in Users : ListInbox(u)
             \/ Reap \/ ReapFails \/ ReapCrash
             \/ Redis \/ Tick
      PROVE  SentInv' /\ RowInv' /\ \A q \in Tasks : Serving(q)'
  <2>1. /\ UNCHANGED <<sent, task, delivered>> /\ (now' = now \/ now' = now + 1)
        /\ UNCHANGED inbox \/ \E u \in Users : ListInbox(u) \/ ExpireInbox(u)
    BY <1>4 DEF ListInbox, Reap, ReapStart, ReapCheck, ScanCheck, Examine, ReapUnlink,
       ReapDrop, ReapNext, ReapFails, ReapCrash, Redis, ExpireMeta, ExpirePending,
       ExpireInbox, Tick, redisVars
  <2>2. \A u \in Users, e \in Envelopes : inbox'[u][e] # 0 => inbox[u][e] # 0
    <3>1. CASE UNCHANGED inbox
      BY <3>1
    <3>2. ASSUME NEW v \in Users, ListInbox(v) \/ ExpireInbox(v)
          PROVE  \A u \in Users, e \in Envelopes : inbox'[u][e] # 0 => inbox[u][e] # 0
      <4>1. \/ inbox' = [inbox EXCEPT ![v] = Pruned(v, now)]
            \/ inbox' = [inbox EXCEPT ![v] = [e \in Envelopes |-> 0]]
        BY <3>2 DEF ListInbox, ExpireInbox
      <4> QED
        BY <4>1, <1>t DEF Pruned
    <3> QED
      BY <2>1, <3>1, <3>2
  <2>3. now <= now'
    BY <1>t, <2>1
  <2> QED
    BY <1>0, <1>s, <2>1, <2>2, <2>3, ServingStill
<1>5. CASE UNCHANGED vars
  <2>1. UNCHANGED <<now, sent, inbox, delivered, task>> /\ now <= now'
    BY <1>5, <1>t DEF vars, redisVars
  <2> QED
    BY <1>0, <1>s, <2>1, ServingStill
<1> QED
  BY <1>1, <1>2, <1>3, <1>4, <1>5 DEF Next

(* Without a fault they are always together.                                *)
LEMMA OrderHolds == Spec => []OrderInv
<1>1. Init => OrderInv
  <2> SUFFICES ASSUME Init PROVE OrderInv
    OBVIOUS
  <2>1. SentInv /\ RowInv
    BY DEF Init, SentInv, RowInv
  <2>2. \A p \in Tasks : /\ task[p].pc = "idle" /\ task[p].todo = {}
                         /\ task[p].eligible = {}
    BY DEF Init, Idle
  <2> QED
    BY <2>1, <2>2 DEF OrderInv, Serving, AckLabels
<1>2. TypeOK /\ TypeOK' /\ OrderInv /\ [Next]_vars => OrderInv'
  BY OrderStep
<1> QED
  BY <1>1, <1>2, TypeCorrect, PTL DEF Spec

(* The labels of the handler that owns the envelope id.                     *)
Owning == {"insert", "publish", "undo"}

(* Where an envelope for u alone is: taken or out of time; not claimed, and *)
(* nobody told anything; claimed by one send that will insert it; in the    *)
(* inbox, under a key that lives as long, with no send that could undo it.  *)
Settled(u, e) == <<e, u>> \in delivered \/ ~Nobody(e, {"mark"}) \/ Deadline(e, now)
Unclaimed(u, e) ==
    meta[e] = 0 /\ inbox[u][e] = 0 /\ e \notin told /\ Nobody(e, Owning)
Claimed(u, e) ==
    /\ meta[e] # 0 /\ inbox[u][e] = 0
    /\ \E p \in Tasks : /\ In(p, e, {"insert"}) /\ task[p].exp = meta[e]
                        /\ \A q \in Tasks : In(q, e, Owning) => q = p
Queued(u, e) ==
    /\ meta[e] # 0 /\ inbox[u][e] = meta[e] /\ Deadline(e, meta[e])
    /\ inboxTtl[u] = 0 \/ meta[e] <= inboxTtl[u]
    /\ \A p \in Tasks : In(p, e, Owning) => task[p].pc = "publish" /\ task[p].exp = meta[e]
Promised(u, e) == Settled(u, e) \/ Unclaimed(u, e) \/ Claimed(u, e) \/ Queued(u, e)
DupInv == faults + crashes = 0 =>
    \A e \in Envelopes \ recalled, u \in Users :
        Kind[e] # "group" /\ u \in To[e] /\ OnlyMail(u, e) => Promised(u, e)

(* A deadline that has passed stays passed.                                 *)
LEMMA DeadlinePasses ==
    ASSUME NEW e \in Envelopes, NEW s \in Nat, NEW t \in Nat, s <= t, Deadline(e, s)
    PROVE  Deadline(e, t)
<1>1. Ts[e] \in Nat /\ Ceiling \in Nat /\ Skew \in Nat /\ Ttls \subseteq Nat
  BY AddressAssumption, NumbersAssumption
<1>2. \A ttl \in Ttls : Ts[e] + ttl <= s => Ts[e] + ttl <= t
  BY <1>1
<1>3. Ts[e] + Ceiling <= s + Skew => Ts[e] + Ceiling <= t + Skew
  BY <1>1
<1> QED
  BY <1>2, <1>3 DEF Deadline

(* A row or a metadata key that is due has met its deadline.                *)
LEMMA DueSettled ==
    ASSUME TypeOK, TypeOK', NEW e \in Envelopes, NEW u, NEW s \in Nat, Deadline(e, s),
           s <= now, now <= now'
    PROVE  Settled(u, e)'
<1>1. Deadline(e, now')
  <2>1. now \in Nat /\ now' \in Nat /\ s <= now'
    BY DEF TypeOK
  <2> QED
    BY <2>1, DeadlinePasses
<1>2. Deadline(e, now)'
  BY <1>1 DEF Deadline
<1> QED
  BY <1>2 DEF Settled

(* What is settled stays so.                                                *)
LEMMA SettledStays ==
    ASSUME TypeOK, TypeOK', NEW u \in Users, NEW e \in Envelopes, Settled(u, e),
           now <= now', delivered \subseteq delivered',
           \A p \in Tasks : In(p, e, {"mark"}) => In(p, e, {"mark"})' \/ <<e, u>> \in delivered'
    PROVE  Settled(u, e)'
<1>1. CASE Deadline(e, now)
  <2>1. now \in Nat /\ now <= now
    BY DEF TypeOK
  <2> QED
    BY <1>1, <2>1, DueSettled
<1>2. CASE ~Deadline(e, now)
  BY <1>2 DEF Settled, Nobody
<1> QED
  BY <1>1, <1>2

(* A step that leaves the row, the metadata and the owner of e alone.       *)
LEMMA QuietPromised ==
    ASSUME TypeOK, TypeOK', NEW u \in Users, NEW e \in Envelopes, Promised(u, e),
           now <= now', delivered \subseteq delivered',
           \A p \in Tasks : In(p, e, {"mark"}) => In(p, e, {"mark"})' \/ <<e, u>> \in delivered',
           meta'[e] = meta[e], inbox'[u][e] = inbox[u][e],
           inbox[u][e] # 0 => inboxTtl'[u] = inboxTtl[u] \/ inboxTtl'[u] = 0,
           e \in told' => e \in told \/ meta[e] # 0,
           \A p \in Tasks : In(p, e, Owning) \/ In(p, e, Owning)' => task'[p] = task[p]
    PROVE  Promised(u, e)'
<1>1. \A p \in Tasks : /\ In(p, e, Owning)' <=> In(p, e, Owning)
                       /\ In(p, e, {"insert"})' <=> In(p, e, {"insert"})
  BY DEF In, Owning
<1>2. CASE Settled(u, e)
  BY <1>2, SettledStays DEF Promised
<1>3. CASE Unclaimed(u, e)
  <2>1. Unclaimed(u, e)'
    BY <1>1, <1>3 DEF Unclaimed, Nobody
  <2> QED
    BY <2>1 DEF Promised
<1>4. CASE Claimed(u, e)
  <2>1. PICK p \in Tasks : /\ In(p, e, {"insert"}) /\ task[p].exp = meta[e]
                           /\ \A q \in Tasks : In(q, e, Owning) => q = p
    BY <1>4 DEF Claimed
  <2>2. task'[p] = task[p]
    BY <2>1 DEF In, Owning
  <2>3. Claimed(u, e)'
    BY <1>1, <1>4, <2>1, <2>2 DEF Claimed
  <2> QED
    BY <2>3 DEF Promised
<1>5. CASE Queued(u, e)
  <2>1. Deadline(e, meta[e])'
    BY <1>5 DEF Queued, Deadline
  <2>2. Queued(u, e)'
    BY <1>1, <1>5, <2>1 DEF Queued
  <2> QED
    BY <2>2 DEF Promised
<1> QED
  BY <1>2, <1>3, <1>4, <1>5 DEF Promised

(* The claim of the id: SET NX found no key, so nobody owned it.            *)
LEMMA ClaimPromised ==
    ASSUME TypeOK, TypeOK', NEW p \in Tasks, Serving(p), SentInv, EnqueueClaim(p),
           NEW e \in Envelopes, task[p].e = e, NEW u \in Users, Unclaimed(u, e)
    PROVE  Promised(u, e)'
<1>1. /\ UNCHANGED inbox
      /\ meta' = [meta EXCEPT ![e] = ExpiresAt(p)]
      /\ task' = [task EXCEPT ![p].pc = "insert", ![p].exp = ExpiresAt(p),
                              ![p].life = ExpiresAt(p) - now]
  BY DEF EnqueueClaim
<1>2. /\ \A q \in Tasks \ {p} : task'[q] = task[q]
      /\ task'[p].e = e /\ task'[p].pc = "insert" /\ task'[p].exp = ExpiresAt(p)
      /\ meta'[e] = ExpiresAt(p)
  BY <1>1 DEF TypeOK, TaskType
<1>3. ExpiresAt(p) # 0
  BY ClaimServing
<1>4. \A q \in Tasks : In(q, e, Owning)' => q = p
  BY <1>2 DEF Unclaimed, Nobody, In
<1>5. In(p, e, {"insert"})'
  BY <1>2 DEF In
<1>6. Claimed(u, e)'
  BY <1>1, <1>2, <1>3, <1>4, <1>5 DEF Claimed, Unclaimed
<1> QED
  BY <1>6 DEF Promised

(* The insertion: a recipient without other mail has room.                  *)
LEMMA InsertPromised ==
    ASSUME TypeOK, TypeOK', NEW p \in Tasks, Serving(p), RowInv, EnqueueInsert(p),
           NEW e \in Envelopes, task[p].e = e, NEW u \in Users, To[e] = {u},
           OnlyMail(u, e), Claimed(u, e)
    PROVE  Promised(u, e)'
<1> DEFINE t == task[p].exp - task[p].life
<1>t. /\ task \in [Tasks -> TaskType] /\ task[p] \in TaskType /\ task[p].exp \in Nat
      /\ t \in Int /\ inbox \in [Users -> [Envelopes -> Nat]]
  BY DEF TypeOK, TaskType
<1>1. /\ task[p].pc = "insert" /\ 0 <= t /\ Deadline(e, task[p].exp)
      /\ LuaInsert(u, e, task[p].exp, t) /\ UNCHANGED meta
      /\ Goto(p, IF HasRoom(u, t) THEN "publish" ELSE "undo")
  BY DEF EnqueueInsert, At, Serving
<1> HIDE DEF t
<1>2. \A f \in Envelopes : inbox[u][f] = 0
  BY DEF RowInv, OnlyMail, Claimed
<1>3. HasRoom(u, t)
  <2>1. {f \in Envelopes : inbox[u][f] > t} = {}
    BY <1>1, <1>2, <1>t
  <2>2. Cardinality({}) = 0
    BY FS_EmptySet
  <2> QED
    BY <2>1, <2>2, NumbersAssumption DEF HasRoom
<1>4. Pruned(u, t) \in [Envelopes -> Nat] /\ Empty(Pruned(u, t))
  BY <1>2, <1>t, PrunedType DEF Pruned, Empty
<1>5. inbox'[u][e] = task[p].exp /\ inboxTtl'[u] = 0
  BY <1>1, <1>3, <1>4 DEF LuaInsert, TtlOf, TypeOK
<1>6. In(p, e, Owning)
  BY <1>1 DEF In, Owning
<1>7. meta[e] = task[p].exp /\ meta[e] # 0 /\ \A q \in Tasks \ {p} : ~In(q, e, Owning)
  BY <1>6 DEF Claimed
<1>8. /\ \A q \in Tasks \ {p} : task'[q] = task[q]
      /\ task'[p].e = e /\ task'[p].pc = "publish" /\ task'[p].exp = task[p].exp
  BY <1>1, <1>3, <1>t DEF Goto, TaskType
<1>9. \A q \in Tasks : In(q, e, Owning)' => task'[q].pc = "publish" /\ task'[q].exp = meta'[e]
  BY <1>1, <1>7, <1>8 DEF In
<1>10. Deadline(e, meta[e])'
  BY <1>1, <1>7 DEF Deadline
<1>11. Queued(u, e)'
  BY <1>1, <1>5, <1>7, <1>9, <1>10 DEF Queued
<1> QED
  BY <1>11 DEF Promised

(* The closing MULTI gives the inbox key a TTL that outlives the row.       *)
LEMMA PublishPromised ==
    ASSUME TypeOK, TypeOK', NEW p \in Tasks, Serving(p), EnqueuePublish(p),
           NEW e \in Envelopes, task[p].e = e, NEW u \in Users, To[e] = {u}, Queued(u, e)
    PROVE  Promised(u, e)'
<1>t. /\ task[p].exp \in Nat /\ task[p].life \in Nat /\ now \in Nat
      /\ KeyFloor \in Nat /\ KeySlack \in Nat
  BY NumbersAssumption DEF TypeOK, TaskType
<1>1. /\ task[p].pc = "publish" /\ UNCHANGED <<meta, inbox>> /\ Finish(p)
      /\ TouchInboxes(p, {u}) /\ task[p].exp - task[p].life <= now
  BY DEF EnqueuePublish, At, Serving
<1>2. task[p].exp = meta[e]
  BY <1>1 DEF Queued, In, Owning
<1>3. ~Empty(inbox[u])
  BY DEF Queued, Empty
<1>4. inboxTtl'[u] = now + MaxOf(task[p].life, KeyFloor) + KeySlack
  BY <1>1, <1>3 DEF TouchInboxes
<1>5. meta[e] <= inboxTtl'[u]
  BY <1>1, <1>2, <1>4, <1>t DEF MaxOf
<1>6. /\ \A q \in Tasks \ {p} : task'[q] = task[q]
      /\ task'[p].pc = "idle"
  BY <1>1 DEF Finish, Idle, TypeOK
<1>7. \A q \in Tasks : In(q, e, Owning)' => task'[q].pc = "publish" /\ task'[q].exp = meta'[e]
  BY <1>1, <1>6 DEF Queued, In, Owning
<1>8. Deadline(e, meta[e])'
  BY <1>1 DEF Queued, Deadline
<1>9. Queued(u, e)'
  BY <1>1, <1>5, <1>7, <1>8 DEF Queued
<1> QED
  BY <1>9 DEF Promised

(* A step of a handler keeps the promise.                                   *)
LEMMA StepPromised ==
    ASSUME TypeOK, TypeOK', LabelInv, SentInv, RowInv, \A q \in Tasks : Serving(q),
           NEW p \in Tasks, Step(p), NEW e \in Envelopes, e \notin recalled',
           Kind[e] # "group", NEW u \in Users, To[e] = {u}, OnlyMail(u, e),
           Promised(u, e)
    PROVE  Promised(u, e)'
<1>t. /\ task \in [Tasks -> TaskType] /\ task[p] \in TaskType /\ task[p].e \in Envelopes
      /\ now \in Nat
  BY DEF TypeOK, TaskType
<1>1. /\ \A q \in Tasks \ {p} : task'[q] = task[q]
      /\ task'[p].pc = "idle" \/ task'[p].e = task[p].e
      /\ UNCHANGED <<now, sent>>
      /\ task[p].e # e => Rest(e)
  BY StepFrame
<1>2. now <= now' /\ delivered \subseteq delivered' /\ Serving(p)
  BY <1>t, <1>1, StepServing
<1>3. task[p].pc # "idle"
  BY DEF Step, WriteBlob, EnqueueExpired, EnqueueDedup, EnqueueClaim, EnqueueInsert,
     EnqueueUndo, EnqueueScrub, EnqueuePublish, GroupAllRemote, GroupExpired, GroupMeta,
     GroupInsert, GroupFailOpen, GroupPublish, AckMark, AckRelease, AckUnlink, Recall, At
<1>4. UNCHANGED told \/ EnqueueDedup(p)
  BY DEF Step, WriteBlob, EnqueueExpired, EnqueueClaim, EnqueueInsert, EnqueueUndo,
     EnqueueScrub, EnqueuePublish, GroupAllRemote, GroupExpired, GroupMeta, GroupInsert,
     GroupFailOpen, GroupPublish, AckMark, AckRelease, AckUnlink, Recall, history
<1>q. ASSUME meta'[e] = meta[e], UNCHANGED <<inbox, inboxTtl>>,
             e \in told' => e \in told \/ meta[e] # 0,
             ~In(p, e, Owning), ~In(p, e, Owning)', ~In(p, e, {"mark"})
      PROVE  Promised(u, e)'
  <2>1. \A q \in Tasks : In(q, e, {"mark"}) => In(q, e, {"mark"})'
    BY <1>1, <1>q DEF In
  <2>2. \A q \in Tasks : In(q, e, Owning) \/ In(q, e, Owning)' => task'[q] = task[q]
    BY <1>1, <1>q
  <2> QED
    BY <1>2, <1>q, <2>1, <2>2, QuietPromised
<1>5. CASE task[p].e # e
  <2>1. u \notin To[task[p].e]
    BY <1>2, <1>3, <1>5, <1>t DEF Serving, OnlyMail
  <2>2. inbox'[u] = inbox[u] /\ inboxTtl'[u] = inboxTtl[u]
    BY <1>2, <2>1, StepInboxes
  <2>3. meta'[e] = meta[e] /\ (e \in told' => e \in told)
    BY <1>1, <1>4, <1>5 DEF Rest, EnqueueDedup
  <2>4. "idle" \notin Owning
    BY DEF Owning
  <2>5. \A q \in Tasks : /\ In(q, e, {"mark"}) => In(q, e, {"mark"})'
                         /\ In(q, e, Owning) \/ In(q, e, Owning)' => task'[q] = task[q]
    BY <1>1, <1>5, <2>4 DEF In
  <2> QED
    BY <1>2, <2>2, <2>3, <2>5, QuietPromised
<1>6. CASE task[p].e = e
  <2>g. \A l : Goto(p, l) => task'[p].pc = l
    BY <1>t DEF Goto, TaskType
  <2>f. Finish(p) => task'[p].pc = "idle"
    BY <1>t DEF Finish, Idle
  <2>0. task[p].pc \notin GroupLabels
    BY <1>6 DEF LabelInv
  <2>1. CASE WriteBlob(p) \/ EnqueueExpired(p)
    <3>1. /\ UNCHANGED <<meta, inbox, inboxTtl, told>> /\ task[p].pc \in {"write", "claim"}
          /\ Goto(p, "claim") \/ Goto(p, "scrub")
      BY <2>0, <2>1 DEF WriteBlob, EnqueueExpired, redisVars, history, At, GroupLabels
    <3> QED
      BY <1>q, <2>g, <3>1 DEF In, Owning
  <2>2. CASE EnqueueDedup(p) \/ EnqueueScrub(p)
    <3>1. /\ UNCHANGED <<meta, inbox, inboxTtl>> /\ task[p].pc \in {"claim", "scrub"}
          /\ Finish(p) /\ (e \in told' => e \in told \/ meta[e] # 0)
      BY <1>6, <2>2 DEF EnqueueDedup, EnqueueScrub, redisVars, history, At
    <3> QED
      BY <1>q, <2>f, <3>1 DEF In, Owning
  <2>m. ASSUME task[p].pc # "mark", Settled(u, e) PROVE Promised(u, e)'
    <3>1. \A q \in Tasks : In(q, e, {"mark"}) => In(q, e, {"mark"})'
      BY <1>1, <2>m DEF In
    <3> QED
      BY <1>2, <2>m, <3>1, SettledStays DEF Promised
  <2>3. CASE EnqueueClaim(p)
    <3>1. meta[e] = 0 /\ task[p].pc # "mark"
      BY <1>6, <2>3 DEF EnqueueClaim, At
    <3>2. Settled(u, e) \/ Unclaimed(u, e)
      BY <3>1 DEF Promised, Claimed, Queued
    <3> QED
      BY <1>2, <1>6, <2>3, <2>m, <3>1, <3>2, ClaimPromised
  <2>4. CASE EnqueueInsert(p)
    <3>1. In(p, e, Owning) /\ task[p].pc = "insert"
      BY <1>6, <2>4 DEF EnqueueInsert, At, In, Owning
    <3>2. Settled(u, e) \/ Claimed(u, e)
      BY <3>1 DEF Promised, Unclaimed, Queued, Nobody
    <3> QED
      BY <1>2, <1>6, <2>4, <2>m, <3>1, <3>2, InsertPromised
  <2>5. CASE EnqueueUndo(p)
    <3>1. In(p, e, Owning) /\ task[p].pc = "undo"
      BY <1>6, <2>5 DEF EnqueueUndo, At, In, Owning
    <3>2. Settled(u, e)
      BY <3>1 DEF Promised, Unclaimed, Claimed, Queued, Nobody, In
    <3> QED
      BY <2>m, <3>1, <3>2
  <2>6. CASE EnqueuePublish(p)
    <3>1. In(p, e, Owning) /\ task[p].pc = "publish"
      BY <1>6, <2>6 DEF EnqueuePublish, At, In, Owning
    <3>2. Settled(u, e) \/ Queued(u, e)
      BY <3>1 DEF Promised, Unclaimed, Claimed, Nobody, In
    <3> QED
      BY <1>2, <1>6, <2>6, <2>m, <3>1, <3>2, PublishPromised
  <2>7. CASE AckMark(p)
    <3>1. <<e, task[p].u>> \in delivered' /\ task[p].pc \in AckLabels
      BY <1>6, <2>7 DEF AckMark, At, AckLabels
    <3>2. task[p].u = u
      BY <1>2, <1>6, <3>1 DEF Serving
    <3> QED
      BY <3>1, <3>2 DEF Promised, Settled
  <2>8. CASE AckRelease(p) \/ AckUnlink(p)
    <3>1. task[p].pc \in {"release", "unlink"} /\ task[p].pc \in AckLabels
      BY <2>8 DEF AckRelease, AckUnlink, At, AckLabels
    <3>2. task[p].u = u /\ <<e, u>> \in delivered
      BY <1>2, <1>6, <3>1 DEF Serving
    <3> QED
      BY <1>2, <3>2 DEF Promised, Settled
  <2>9. CASE Recall(p)
    <3>1. /\ task[p].pc = "recall" /\ Finish(p) /\ Zrem(To[e], e)
          /\ meta' = [meta EXCEPT ![e] = 0] /\ meta[e] = 0 /\ told' = told
      BY <1>6, <2>9 DEF Recall, At
    <3>2. Settled(u, e) \/ Unclaimed(u, e)
      BY <3>1 DEF Promised, Claimed, Queued
    <3>3. ASSUME Unclaimed(u, e) PROVE Unclaimed(u, e)'
      <4>1. meta'[e] = 0 /\ inbox'[u][e] = 0
        BY <3>1 DEF Zrem, TypeOK
      <4>2. Nobody(e, Owning)'
        BY <1>1, <2>f, <3>1, <3>3 DEF Unclaimed, Nobody, In, Owning
      <4> QED
        BY <3>1, <3>3, <4>1, <4>2 DEF Unclaimed
    <3> QED
      BY <2>m, <3>1, <3>2, <3>3 DEF Promised
  <2> QED
    BY <2>0, <2>1, <2>2, <2>3, <2>4, <2>5, <2>6, <2>7, <2>8, <2>9 DEF Step,
       GroupAllRemote, GroupExpired, GroupMeta, GroupInsert, GroupFailOpen,
       GroupPublish, At, GroupLabels
<1> QED
  BY <1>5, <1>6

(* So does a request.                                                       *)
LEMMA RequestPromised ==
    ASSUME TypeOK, TypeOK', RowInv, NEW p \in Tasks, Request(p), NEW e \in Envelopes,
           NEW u \in Users, To[e] = {u}, OnlyMail(u, e), Promised(u, e)
    PROVE  Promised(u, e)'
<1>t. task \in [Tasks -> TaskType] /\ now \in Nat
  BY DEF TypeOK
<1>1. PICK d \in Envelopes :
          \/ SendDuplicate(p, d)
          \/ \E ttl \in Ttls, l \in {"write", "gwrite"} : Accept(p, d, l, ttl)
          \/ \E v \in Users : AckStart(p, v, d)
          \/ Authorised(p, d)
  BY DEF Request, SendDirect, SendSealed, SendGroup, RecallDirect, RecallSealed,
     RecallGroup
<1>2. /\ UNCHANGED <<now, delivered, meta>> /\ At(p, "idle")
      /\ UNCHANGED told \/ (told' = told \cup {d} /\ meta[d] # 0)
  BY <1>1 DEF SendDuplicate, Accept, AckStart, Authorised, redisVars, history
<1>3. /\ \A q \in Tasks \ {p} : task'[q] = task[q]
      /\ task'[p] = task[p] \/ task'[p].pc \in {"write", "gwrite", "mark", "recall"}
  <2>1. CASE SendDuplicate(p, d)
    BY <2>1 DEF SendDuplicate
  <2>2. CASE \E ttl \in Ttls, l \in {"write", "gwrite"} : Accept(p, d, l, ttl)
    BY <2>2, <1>t DEF Accept, Idle
  <2>3. CASE \E v \in Users : AckStart(p, v, d)
    BY <2>3, <1>t DEF AckStart, Idle
  <2>4. CASE Authorised(p, d)
    BY <2>4, <1>t DEF Authorised, Idle
  <2> QED
    BY <1>1, <2>1, <2>2, <2>3, <2>4
<1>4. /\ now <= now' /\ delivered \subseteq delivered'
      /\ \A q \in Tasks : /\ In(q, e, {"mark"}) => In(q, e, {"mark"})'
                          /\ In(q, e, Owning) \/ In(q, e, Owning)' => task'[q] = task[q]
  BY <1>2, <1>3, <1>t DEF In, At, Owning
<1>5. CASE UNCHANGED <<inbox, inboxTtl>>
  BY <1>2, <1>4, <1>5, QuietPromised
<1>6. CASE \E v \in Users : AckStart(p, v, d)
  <2>1. PICK v \in Users : AckStart(p, v, d)
    BY <1>6
  <2>2. v \in To[d] /\ sent[d] # 0
    BY <2>1 DEF AckStart, RowInv
  <2>3. CASE d = e
    <3>1. In(p, e, {"mark"})'
      BY <2>1, <2>3, <1>t DEF AckStart, Idle, In
    <3> QED
      BY <3>1 DEF Promised, Settled, Nobody
  <2>4. CASE d # e
    <3>1. u # v
      BY <2>2, <2>4 DEF OnlyMail
    <3>2. inbox'[u] = inbox[u] /\ inboxTtl'[u] = inboxTtl[u] /\ told' = told
      BY <2>1, <3>1 DEF AckStart, Zrem, history
    <3> QED
      BY <1>2, <1>4, <3>2, QuietPromised
  <2> QED
    BY <2>3, <2>4
<1> QED
  BY <1>1, <1>5, <1>6 DEF SendDuplicate, Accept, Authorised, redisVars

(* So do list_inbox, Redis, the clock and the reaper: a row, a key or an    *)
(* inbox that goes has met the deadline of e.                               *)
LEMMA EnvironmentPromised ==
    ASSUME TypeOK, TypeOK', \A q \in Tasks : Serving(q),
           \/ \E v \in Users : ListInbox(v)
           \/ Reap \/ Redis \/ Tick \/ UNCHANGED vars,
           NEW e \in Envelopes, NEW u \in Users, Promised(u, e)
    PROVE  Promised(u, e)'
<1>t. /\ now \in Nat /\ meta \in [Envelopes -> Nat] /\ inboxTtl \in [Users -> Nat]
      /\ inbox \in [Users -> [Envelopes -> Nat]] /\ meta[e] \in Nat /\ inboxTtl[u] \in Nat
  BY DEF TypeOK
<1>1. /\ UNCHANGED <<task, delivered, told>> /\ (now' = now \/ now' = now + 1)
      /\ \/ UNCHANGED <<meta, inbox, inboxTtl>>
         \/ \E v \in Users : ListInbox(v) \/ ExpireInbox(v)
         \/ \E f \in Envelopes : ExpireMeta(f)
  BY DEF ListInbox, Reap, ReapStart, ReapCheck, ScanCheck, Examine, ReapUnlink,
     ReapDrop, ReapNext, Redis, ExpireMeta, ExpirePending, ExpireInbox, Tick, redisVars,
     history, vars
<1>2. /\ now <= now' /\ delivered \subseteq delivered'
      /\ \A q \in Tasks : /\ In(q, e, {"mark"}) => In(q, e, {"mark"})'
                          /\ In(q, e, Owning) \/ In(q, e, Owning)' => task'[q] = task[q]
  BY <1>1, <1>t DEF In
<1>s. Settled(u, e) => Promised(u, e)'
  BY <1>2, SettledStays DEF Promised
<1>3. CASE UNCHANGED <<meta, inbox, inboxTtl>>
  BY <1>1, <1>2, <1>3, QuietPromised
<1>4. CASE \E f \in Envelopes : ExpireMeta(f)
  <2>1. PICK f \in Envelopes : ExpireMeta(f)
    BY <1>4
  <2>2. /\ UNCHANGED <<inbox, inboxTtl>> /\ meta' = [meta EXCEPT ![f] = 0]
        /\ meta[f] # 0 /\ meta[f] <= now
    BY <2>1 DEF ExpireMeta
  <2>3. CASE f # e
    <3>1. meta'[e] = meta[e]
      BY <2>2, <2>3, <1>t
    <3> QED
      BY <1>1, <1>2, <2>2, <3>1, QuietPromised
  <2>4. CASE f = e
    <3>1. Claimed(u, e) => Deadline(e, meta[e])
      BY DEF Claimed, In, Serving
    <3>2. Settled(u, e) \/ Deadline(e, meta[e])
      BY <2>2, <2>4, <3>1 DEF Promised, Unclaimed, Queued
    <3>3. Deadline(e, meta[e]) => Settled(u, e)'
      BY <1>2, <1>t, <2>2, <2>4, DueSettled
    <3> QED
      BY <1>s, <3>2, <3>3 DEF Promised
  <2> QED
    BY <2>3, <2>4
<1>5. CASE \E v \in Users : ListInbox(v) \/ ExpireInbox(v)
  <2>1. PICK v \in Users : ListInbox(v) \/ ExpireInbox(v)
    BY <1>5
  <2>2. /\ UNCHANGED meta
        /\ \A w \in Users \ {v} : inbox'[w] = inbox[w] /\ inboxTtl'[w] = inboxTtl[w]
    BY <2>1, <1>t DEF ListInbox, ExpireInbox
  <2>3. CASE u # v
    BY <1>1, <1>2, <2>2, <2>3, QuietPromised
  <2>4. CASE u = v
    <3>1. CASE inbox[u][e] # 0 /\ Queued(u, e) /\ inbox'[u][e] = 0
      <4>1. meta[e] <= now
        <5>1. CASE ListInbox(u)
          <6>1. inbox'[u] = Pruned(u, now)
            BY <5>1, <1>t DEF ListInbox
          <6>2. inbox[u][e] <= now
            BY <3>1, <6>1, <1>t DEF Pruned
          <6> QED
            BY <6>2, <3>1 DEF Queued
        <5>2. CASE ExpireInbox(u)
          <6>1. inboxTtl[u] # 0 /\ inboxTtl[u] <= now /\ meta[e] <= inboxTtl[u]
            BY <3>1, <5>2 DEF ExpireInbox, Queued
          <6> QED
            BY <6>1, <1>t
        <5> QED
          BY <2>1, <2>4, <5>1, <5>2
      <4>2. Settled(u, e)'
        BY <1>2, <1>t, <3>1, <4>1, DueSettled DEF Queued
      <4> QED
        BY <4>2 DEF Promised
    <3>2. CASE inbox'[u][e] = inbox[u][e]
      <4>1. inbox[u][e] # 0 => inboxTtl'[u] = inboxTtl[u] \/ inboxTtl'[u] = 0
        BY <2>1, <2>4, <1>t DEF ListInbox, ExpireInbox, TtlOf
      <4> QED
        BY <1>1, <1>2, <2>2, <3>2, <4>1, QuietPromised
    <3>3. inbox'[u][e] = inbox[u][e] \/ inbox'[u][e] = 0
      BY <2>1, <2>4, <1>t DEF ListInbox, ExpireInbox, Pruned
    <3>4. CASE inbox[u][e] # 0 /\ Settled(u, e)
      BY <1>s, <3>4
    <3> QED
      BY <3>1, <3>2, <3>3, <3>4 DEF Promised, Unclaimed, Claimed
  <2> QED
    BY <2>3, <2>4
<1> QED
  BY <1>1, <1>3, <1>4, <1>5

(* Every step keeps the promise, while nothing fails or dies.               *)
LEMMA DupStep ==
    TypeOK /\ TypeOK' /\ LabelInv /\ OrderInv /\ DupInv /\ [Next]_vars => DupInv'
<1> SUFFICES ASSUME TypeOK, TypeOK', LabelInv, OrderInv, DupInv, [Next]_vars,
                    faults' + crashes' = 0, NEW e \in Envelopes, e \notin recalled',
                    NEW u \in Users, Kind[e] # "group", u \in To[e], OnlyMail(u, e)'
             PROVE  Promised(u, e)'
  BY DEF DupInv
<1>t. /\ faults \in Nat /\ crashes \in Nat /\ faults' \in Nat /\ crashes' \in Nat
      /\ \A f \in Envelopes : sent[f] \in Nat /\ sent'[f] \in Nat
  BY DEF TypeOK
<1>0. faults' = 0 /\ crashes' = 0
  BY <1>t
<1>1. ASSUME NEW p \in Tasks
      PROVE  /\ Step(p) => UNCHANGED <<sent, faults, crashes>>
             /\ Request(p) => /\ UNCHANGED <<faults, crashes>>
                              /\ \A f \in Envelopes : sent'[f] = 0 => sent[f] = 0
             /\ ~Failure(p)
  <2>1. Step(p) => UNCHANGED <<sent, faults, crashes>>
    BY StepFrame
  <2>2. ~Failure(p)
    BY <1>0, <1>t DEF Failure, CallFails, Crash, InsertReplyLost, ClaimReplyLost,
       ReleaseReplyLost, BatchReplyLost
  <2>3. ASSUME Request(p)
        PROVE  /\ UNCHANGED <<faults, crashes>>
               /\ \A f \in Envelopes : sent'[f] = 0 => sent[f] = 0
    <3>1. /\ UNCHANGED <<faults, crashes>>
          /\ sent' = sent \/ \E d \in Envelopes : sent' = [sent EXCEPT ![d] = @ + 1]
      BY <2>3 DEF Request, SendDuplicate, SendDirect, SendSealed, SendGroup, Accept,
         AckStart, RecallDirect, RecallSealed, RecallGroup, Authorised
    <3> QED
      BY <3>1, <1>t DEF TypeOK
  <2> QED
    BY <2>1, <2>2, <2>3
<1>2. ~ReapFails /\ ~ReapCrash
  BY <1>0, <1>t DEF ReapFails, ReapCrash
<1>3. (\E v \in Users : ListInbox(v)) \/ Reap \/ Redis \/ Tick \/ UNCHANGED vars
        => UNCHANGED <<sent, faults, crashes, recalled>>
  BY DEF ListInbox, Reap, ReapStart, ReapCheck, ScanCheck, Examine, ReapUnlink,
     ReapDrop, ReapNext, Redis, ExpireMeta, ExpirePending, ExpireInbox, Tick, vars,
     history
<1>4. /\ faults = 0 /\ crashes = 0
      /\ \A f \in Envelopes : sent'[f] = 0 => sent[f] = 0
  BY <1>0, <1>1, <1>2, <1>3 DEF Next
<1>5. e \notin recalled
  <2>1. \A p \in Tasks : Step(p) => recalled \subseteq recalled'
    BY DEF Step, WriteBlob, EnqueueExpired, EnqueueDedup, EnqueueClaim, EnqueueInsert,
       EnqueueUndo, EnqueueScrub, EnqueuePublish, GroupAllRemote, GroupExpired,
       GroupMeta, GroupInsert, GroupFailOpen, GroupPublish, AckMark, AckRelease,
       AckUnlink, Recall, history
  <2>2. ASSUME NEW p \in Tasks, Request(p) PROVE recalled' = recalled
    BY <2>2 DEF Request, SendDuplicate, SendDirect, SendSealed, SendGroup, Accept,
       AckStart, RecallDirect, RecallSealed, RecallGroup, Authorised, history
  <2> QED
    BY <1>1, <1>2, <1>3, <2>1, <2>2 DEF Next
<1>6. OnlyMail(u, e)
  BY <1>4 DEF OnlyMail
<1>7. faults + crashes = 0
  BY <1>4
<1>8. Promised(u, e) /\ SentInv /\ RowInv /\ \A p \in Tasks : Serving(p)
  BY <1>4, <1>5, <1>6, <1>7 DEF DupInv, OrderInv
<1>9. To[e] = {u}
  BY AddressAssumption
<1>10. ASSUME NEW p \in Tasks, Step(p) PROVE Promised(u, e)'
  BY <1>6, <1>8, <1>9, <1>10, StepPromised
<1>11. ASSUME NEW p \in Tasks, Request(p) PROVE Promised(u, e)'
  BY <1>6, <1>8, <1>9, <1>11, RequestPromised
<1>12. ASSUME (\E v \in Users : ListInbox(v)) \/ Reap \/ Redis \/ Tick \/ UNCHANGED vars
       PROVE  Promised(u, e)'
  BY <1>8, <1>12, EnvironmentPromised
<1> QED
  BY <1>1, <1>2, <1>10, <1>11, <1>12 DEF Next

(* "Already queued" is a promise: while nothing fails or dies, a message    *)
(* for a recipient without other mail that a sender was told is a duplicate *)
(* is in the inbox or about to be, unless it was taken or deleted or its    *)
(* time ran out, for any number of retries, ACKs, deletes, reaper passes    *)
(* and ttl values (queue.py, enqueue_envelope, SET NX).                     *)
THEOREM DuplicateIsNotLostHolds == Spec => []DuplicateIsNotLost
<1>1. Init => DupInv
  <2> SUFFICES ASSUME Init PROVE DupInv
    OBVIOUS
  <2>1. \A e \in Envelopes, u \in Users : Unclaimed(u, e)
    BY DEF Init, Idle, Unclaimed, Nobody, In, Owning
  <2> QED
    BY <2>1 DEF DupInv, Promised
<1>2. TypeOK /\ DupInv => DuplicateIsNotLost
  <2> SUFFICES ASSUME TypeOK, DupInv, faults + crashes = 0, NEW e \in told \ recalled,
                      NEW u \in Users, Kind[e] # "group", u \in To[e], OnlyMail(u, e)
               PROVE  \/ Live(u, e) \/ Inserting(e)
                      \/ <<e, u>> \in delivered
                      \/ \E p \in Tasks : At(p, "mark") /\ task[p].e = e
                      \/ Deadline(e, now)
    BY DEF DuplicateIsNotLost
  <2>1. e \in Envelopes /\ now \in Nat /\ meta[e] \in Nat
    BY DEF TypeOK
  <2>2. Settled(u, e) \/ Claimed(u, e) \/ Queued(u, e)
    BY <2>1 DEF DupInv, Promised, Unclaimed
  <2>3. CASE Settled(u, e)
    BY <2>3 DEF Settled, Nobody, In, At
  <2>4. CASE Claimed(u, e)
    BY <2>4 DEF Claimed, In, Inserting
  <2>5. CASE Queued(u, e)
    <3>1. CASE meta[e] > now
      BY <2>5, <3>1 DEF Queued, Live
    <3>2. CASE ~(meta[e] > now)
      <4>1. meta[e] <= now
        BY <2>1, <3>2
      <4> QED
        BY <2>1, <2>5, <4>1, DeadlinePasses DEF Queued
    <3> QED
      BY <3>1, <3>2
  <2> QED
    BY <2>2, <2>3, <2>4, <2>5
<1>3. TypeOK /\ TypeOK' /\ LabelInv /\ OrderInv /\ DupInv /\ [Next]_vars => DupInv'
  BY DupStep
<1> QED
  BY <1>1, <1>2, <1>3, TypeCorrect, CapAlways, OrderHolds, PTL DEF Spec
=============================================================================
